------------------------------ MODULE HardLinks ------------------------------
(***************************************************************************)
(* After an ingest the managed engine replaces a file by a hard link to an *)
(* identical sibling (link_identical_whole_file in engine.rs and           *)
(* link_duplicate in link.rs of crates/orchid-fs/src/managed).             *)
(*                                                                         *)
(* Directory entries name inodes; every system call is a step, and the     *)
(* user goes on writing, replacing and deleting files between any two of   *)
(* them.  Only files of one chunk are linked, so a content is one value,   *)
(* its hash.                                                               *)
(***************************************************************************)
EXTENDS ManagedPaths, Naturals, FiniteSets

CONSTANTS
    Inodes,      \* bound: inodes, reused when no name is left
    Hashes,      \* what a file can hold
    Linkers,     \* ingests that may run at once
    LinkFaults,  \* system calls that may fail: "rename", "link", "remove"
    MaxActs      \* bound: actions of the user

ASSUME LinkConstants ==
    /\ None \notin Inodes \cup Hashes \cup Paths
    /\ MaxActs \in Nat

VARIABLES
    dir,         \* directory: the inode of a path
    aside,       \* directory: the inode of the path's .orchid-link name
    bytes,       \* inodes: content
    row,         \* MANAGED_MANIFESTS: content hash of the path's manifest
    stage,       \* tasks: next step
    local,       \* tasks: the path just ingested
    hash,        \* tasks: content hash of its manifest
    left,        \* tasks: siblings still to try
    other,       \* tasks: the sibling being linked to
    acts,
    want,        \* ghost: what the user last stored under a path
    disturbed,   \* ghost: somebody changed a file while it was being linked
    stranded     \* ghost: a crash or a failed restore left a path set aside

names == <<dir, aside, bytes>>
work == <<stage, local, hash, left, other>>
linkVars == <<dir, aside, bytes, row, stage, local, hash, left, other, acts,
          want, disturbed, stranded>>

Stages == {"idle", "match", "siblings", "try", "check", "rename", "link",
          "remove", "restore"}

LinkInit ==
    /\ dir = [p \in Paths |-> None]
    /\ aside = [p \in Paths |-> None]
    /\ bytes = [i \in Inodes |-> None]
    /\ row = [p \in Paths |-> None]
    /\ stage = [t \in Linkers |-> "idle"]
    /\ local = [t \in Linkers |-> None]
    /\ hash = [t \in Linkers |-> None]
    /\ left = [t \in Linkers |-> {}]
    /\ other = [t \in Linkers |-> None]
    /\ acts = 0
    /\ want = [p \in Paths |-> None]
    /\ disturbed = FALSE
    /\ stranded = {}

\* What reading a name gives.
Read(i) == IF i = None THEN None ELSE bytes[i]

Free == {i \in Inodes : \A p \in Paths : dir[p] # i /\ aside[p] # i}

-----------------------------------------------------------------------------
(* The user.  A link is disturbed when the file it replaces, or the file   *)
(* it links to, changes after the task has compared them, and when two     *)
(* ingests of one path share its .orchid-link name.                        *)

Linking(t) == stage[t] \notin {"idle", "match"}

UserActs(ps) ==
    /\ acts < MaxActs
    /\ acts' = acts + 1
    /\ disturbed' = (disturbed \/ \E t \in Linkers :
                        Linking(t) /\ {local[t], other[t]} \cap ps # {})
    /\ UNCHANGED <<row, work>>

\* The inode that holds the file of a path.
Holds(q) == IF dir[q] # None THEN dir[q] ELSE aside[q]

\* An in-place write reaches every name of the inode.
WriteInPlace(p, c) ==
    LET shared == {q \in Paths : want[q] # None /\ Holds(q) = dir[p]} IN
    /\ dir[p] # None
    /\ UserActs(shared)
    /\ bytes' = [bytes EXCEPT ![dir[p]] = c]
    /\ want' = [q \in Paths |-> IF q \in shared THEN c ELSE want[q]]
    /\ UNCHANGED <<dir, aside, stranded>>

\* A new file, or a save that renames a new file over the path.
SaveNew(p, c) ==
    /\ UserActs({p})
    /\ \E i \in Free :
        /\ dir' = [dir EXCEPT ![p] = i]
        /\ bytes' = [bytes EXCEPT ![i] = c]
    /\ want' = [want EXCEPT ![p] = c]
    /\ stranded' = stranded \ {p}
    /\ UNCHANGED aside

Delete(p) ==
    /\ dir[p] # None
    /\ UserActs({p})
    /\ dir' = [dir EXCEPT ![p] = None]
    /\ want' = [want EXCEPT ![p] = None]
    /\ stranded' = stranded \ {p}
    /\ UNCHANGED <<aside, bytes>>

-----------------------------------------------------------------------------
(* The engine.                                                             *)

Advance(t, s) == stage' = [stage EXCEPT ![t] = s]

Done(t) ==
    /\ stage' = [stage EXCEPT ![t] = "idle"]
    /\ local' = [local EXCEPT ![t] = None]
    /\ hash' = [hash EXCEPT ![t] = None]
    /\ left' = [left EXCEPT ![t] = {}]
    /\ other' = [other EXCEPT ![t] = None]

\* ingest has read the file and written its manifest.
Ingested(t, p) ==
    /\ stage[t] = "idle"
    /\ dir[p] # None
    /\ row' = [row EXCEPT ![p] = Read(dir[p])]
    /\ local' = [local EXCEPT ![t] = p]
    /\ hash' = [hash EXCEPT ![t] = Read(dir[p])]
    /\ Advance(t, "match")
    /\ disturbed' = (disturbed \/ \E u \in Linkers : local[u] = p)
    /\ UNCHANGED <<names, left, other, acts, want, stranded>>

\* file_matches(local).
Match(t) ==
    /\ stage[t] = "match"
    /\ \/ /\ Read(dir[local[t]]) = hash[t]
          /\ Advance(t, "siblings")
          /\ UNCHANGED <<local, hash, left, other>>
       \/ /\ Read(dir[local[t]]) # hash[t]
          /\ Done(t)
    /\ UNCHANGED <<names, row, acts, want, disturbed, stranded>>

\* whole_file_siblings: one read transaction over the manifests.
WholeFileSiblings(t) ==
    /\ stage[t] = "siblings"
    /\ left' = [left EXCEPT ![t] = {q \in Paths \ {local[t]} : row[q] = hash[t]}]
    /\ Advance(t, "try")
    /\ UNCHANGED <<names, row, local, hash, other, acts, want, disturbed,
                   stranded>>

\* Mutant: the sibling's content is not compared again.
TrySibling_Trusting(t) ==
    /\ stage[t] = "try"
    /\ \/ /\ left[t] = {}
          /\ Done(t)
       \/ \E q \in left[t] :
            /\ left' = [left EXCEPT ![t] = @ \ {q}]
            /\ other' = [other EXCEPT ![t] = q]
            /\ Advance(t, "check")
            /\ UNCHANGED <<local, hash>>
    /\ UNCHANGED <<names, row, acts, want, disturbed, stranded>>

\* The next sibling; file_matches(other).
TrySibling(t) ==
    /\ stage[t] = "try"
    /\ \/ /\ left[t] = {}
          /\ Done(t)
       \/ \E q \in left[t] :
            /\ left' = [left EXCEPT ![t] = @ \ {q}]
            /\ other' = [other EXCEPT ![t] = q]
            /\ Advance(t, IF Read(dir[q]) = hash[t] THEN "check" ELSE "try")
            /\ UNCHANGED <<local, hash>>
    /\ UNCHANGED <<names, row, acts, want, disturbed, stranded>>

\* link_duplicate: both exist, and do not share their data already.
Check(t) ==
    /\ stage[t] = "check"
    /\ \/ /\ None \in {dir[local[t]], dir[other[t]]}
          /\ Advance(t, "try")
          /\ UNCHANGED <<local, hash, left, other>>
       \/ /\ dir[local[t]] # None
          /\ dir[local[t]] = dir[other[t]]
          /\ Done(t)
       \/ /\ None \notin {dir[local[t]], dir[other[t]]}
          /\ dir[local[t]] # dir[other[t]]
          /\ Advance(t, "rename")
          /\ UNCHANGED <<local, hash, left, other>>
    /\ UNCHANGED <<names, row, acts, want, disturbed, stranded>>

\* rename(replace, tmp), over whatever tmp was.
RenameAside(t) ==
    LET p == local[t] IN
    /\ stage[t] = "rename"
    /\ \/ /\ dir[p] # None
          /\ aside' = [aside EXCEPT ![p] = dir[p]]
          /\ dir' = [dir EXCEPT ![p] = None]
          /\ Advance(t, "link")
       \/ /\ dir[p] = None \/ "rename" \in LinkFaults
          /\ Advance(t, "try")
          /\ UNCHANGED <<dir, aside>>
    /\ UNCHANGED <<bytes, row, local, hash, left, other, acts, want,
                   disturbed, stranded>>

\* Mutant: a link that cannot be made ends the attempt.
HardLink_NoRestore(t) ==
    LET p == local[t] IN
    /\ stage[t] = "link"
    /\ \/ /\ dir[p] = None /\ dir[other[t]] # None
          /\ dir' = [dir EXCEPT ![p] = dir[other[t]]]
          /\ Advance(t, "remove")
       \/ /\ "link" \in LinkFaults
          /\ Advance(t, "try")
          /\ UNCHANGED dir
    /\ UNCHANGED <<aside, bytes, row, local, hash, left, other, acts, want,
                   disturbed, stranded>>

\* hard_link(keep, replace): it never replaces a name.
HardLink(t) ==
    LET p == local[t] IN
    /\ stage[t] = "link"
    /\ \/ /\ dir[p] = None /\ dir[other[t]] # None
          /\ dir' = [dir EXCEPT ![p] = dir[other[t]]]
          /\ Advance(t, "remove")
       \/ /\ dir[p] # None \/ dir[other[t]] = None \/ "link" \in LinkFaults
          /\ Advance(t, "restore")
          /\ UNCHANGED dir
    /\ UNCHANGED <<aside, bytes, row, local, hash, left, other, acts, want,
                   disturbed, stranded>>

\* remove_file(tmp), whose error is ignored.
RemoveAside(t) ==
    /\ stage[t] = "remove"
    /\ \/ aside' = [aside EXCEPT ![local[t]] = None]
       \/ "remove" \in LinkFaults /\ UNCHANGED aside
    /\ Done(t)
    /\ UNCHANGED <<dir, bytes, row, acts, want, disturbed, stranded>>

\* rename(tmp, replace), over whatever replace is; then the next sibling.
Restore(t) ==
    LET p == local[t] IN
    /\ stage[t] = "restore"
    /\ \/ /\ aside[p] # None
          /\ dir' = [dir EXCEPT ![p] = aside[p]]
          /\ aside' = [aside EXCEPT ![p] = None]
          /\ UNCHANGED stranded
       \/ /\ aside[p] = None \/ "rename" \in LinkFaults
          /\ stranded' = stranded \cup {p}
          /\ UNCHANGED <<dir, aside>>
    /\ Advance(t, "try")
    /\ UNCHANGED <<bytes, row, local, hash, left, other, acts, want, disturbed>>

\* The process dies; nothing looks for .orchid-link names afterwards.
Die ==
    /\ Crashes
    /\ stranded' = stranded \cup
                   {local[t] : t \in {u \in Linkers : stage[u] \in {"link", "restore"}}}
    /\ stage' = [t \in Linkers |-> "idle"]
    /\ local' = [t \in Linkers |-> None]
    /\ hash' = [t \in Linkers |-> None]
    /\ left' = [t \in Linkers |-> {}]
    /\ other' = [t \in Linkers |-> None]
    /\ UNCHANGED <<names, row, acts, want, disturbed>>

Link(t) ==
    \/ Match(t) \/ WholeFileSiblings(t) \/ TrySibling(t) \/ Check(t)
    \/ RenameAside(t) \/ HardLink(t) \/ RemoveAside(t) \/ Restore(t)

LinkNext ==
    \/ \E p \in Paths, c \in Hashes : WriteInPlace(p, c) \/ SaveNew(p, c)
    \/ \E p \in Paths : Delete(p)
    \/ \E t \in Linkers, p \in Paths : Ingested(t, p)
    \/ \E t \in Linkers : Link(t)
    \/ Die

LinkSpec == LinkInit /\ [][LinkNext]_linkVars

-----------------------------------------------------------------------------
(* Properties.                                                             *)

Name == Inodes \cup {None}
Content == Hashes \cup {None}

\* Type invariant: a task past its first comparison has a path, and the
\* siblings it tries are other paths.
LinkTypes ==
    /\ dir \in [Paths -> Name]
    /\ aside \in [Paths -> Name]
    /\ bytes \in [Inodes -> Content]
    /\ row \in [Paths -> Content]
    /\ stage \in [Linkers -> Stages]
    /\ local \in [Linkers -> Paths \cup {None}]
    /\ hash \in [Linkers -> Content]
    /\ left \in [Linkers -> SUBSET Paths]
    /\ other \in [Linkers -> Paths \cup {None}]
    /\ acts \in 0..MaxActs
    /\ want \in [Paths -> Content]
    /\ disturbed \in BOOLEAN
    /\ stranded \subseteq Paths
    /\ \A t \in Linkers :
        /\ local[t] = None <=> stage[t] = "idle"
        /\ local[t] \notin left[t]
        /\ stage[t] \in {"idle", "match", "siblings"} => left[t] = {}
        /\ stage[t] \in {"check", "rename", "link", "remove", "restore"} =>
              other[t] \in Paths \ {local[t]}

\* Linking never loses a file: what the user last stored under a path is under
\* the path or under its .orchid-link name, after every system call, failure
\* and crash, unless somebody changed the file or its sibling between the
\* comparison and the end of the link.
BytesKept ==
    ~disturbed => \A p \in Paths :
        want[p] # None => want[p] \in {Read(dir[p]), Read(aside[p])}

\* A file is away from its own name only while its link is being made: every
\* failed attempt puts it back.  Only a crash, or a restore that itself fails,
\* leaves it stranded.
NameKept ==
    ~disturbed => \A p \in Paths \ stranded :
        \/ Read(dir[p]) = want[p]
        \/ \E t \in Linkers : local[t] = p /\ stage[t] \in {"link", "restore"}
=============================================================================
