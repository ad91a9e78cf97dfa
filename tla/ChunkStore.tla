----------------------------- MODULE ChunkStore -----------------------------
(***************************************************************************)
(* The content-addressed chunk store of orchid-crypto: one blob file per   *)
(* chunk, and one row per chunk in a redb table that counts references.    *)
(*                                                                         *)
(* The table and the directory are changed in separate steps. A step of a  *)
(* task is one redb transaction, one file operation, or one critical       *)
(* section of the pending_access mutex; between two steps other tasks run, *)
(* and the process may crash. Files are inodes with names: every put of a  *)
(* chunk uses the same temporary name, so two puts may share an inode.     *)
(***************************************************************************)
EXTENDS Integers, FiniteSets

CONSTANTS
    Chunks,      \* chunk hashes
    Tasks,       \* tasks that call the store
    Inodes,      \* identities of files (a bound; never exhausted)
    None,        \* "no file", "no chunk"
    Ops,         \* the operations the tasks use
    Faults,      \* the steps that may fail: "write", "commit"
    Clones,      \* whether the caller passes a cloner (Deduplicator does)
    Crashes,     \* whether the process may crash and restart
    FlushAt,     \* ACCESS_FLUSH_THRESHOLD
    MaxRefs,     \* bound on the references taken on a chunk
    MaxTime      \* bound on the clock

AllOps == {"put", "get", "release", "flush", "gc"}

ASSUME StoreParams ==
    /\ None \notin Chunks \cup Inodes
    /\ IsFiniteSet(Tasks)
    /\ Ops \subseteq AllOps
    /\ Faults \subseteq {"write", "commit"}
    /\ Clones \in BOOLEAN
    /\ Crashes \in BOOLEAN
    /\ FlushAt \in Nat \ {0}
    /\ MaxRefs \in Nat \ {0}
    /\ MaxTime \in Nat

VARIABLES
    refs,      \* chunk -> refcount of its row, or NoRow
    accessed,  \* chunk -> last_accessed_at of its row
    bin,       \* chunk -> the inode named <hash>.bin, or None
    tmp,       \* chunk -> the inode named <hash>.bin.tmp, or None
    whole,     \* inodes that hold all the bytes of their chunk
    touched,   \* pending_access: chunk -> buffered access time, or Never
    now,       \* the clock
    crashed,   \* ghost: whether the process has ever crashed
    pc,        \* task -> where it is
    op,        \* task -> the operation it performs
    arg,       \* task -> the chunk it works on, or None
    at,        \* task -> the `now` read when put began
    fd,        \* task -> the inode it has open for writing, or None
    batch,     \* task -> the access times it has drained
    seen,      \* task -> the directory entries garbage_collect has visited
    ok,        \* tasks whose finished operation returned Ok
    owned,     \* ghost: chunk -> references held by callers
    lost       \* ghost: chunk -> references counted that no caller holds

rows  == <<refs, accessed>>
files == <<bin, tmp, whole>>
world == <<now, crashed>>
frame == <<op, arg, at>>
ghost == <<owned, lost>>
vars  == <<rows, files, touched, world, pc, frame, fd, batch, seen, ok, ghost>>

NoRow == -1
Never == -1
Times == 0 .. MaxTime

Untouched == [c \in Chunks |-> Never]

Labels == {"idle", "probe", "clone", "create", "write", "commit", "rename",
           "check", "read", "touch", "drain", "flush", "release", "unlink",
           "gcscan", "gcstat", "gcunlink", "done"}

\* The step at which each operation enters the store.
Entry == [o \in AllOps |->
            CASE o = "put"     -> "probe"
              [] o = "get"     -> "check"
              [] o = "release" -> "release"
              [] o = "flush"   -> "drain"
              [] o = "gc"      -> "gcscan"]

Init ==
    /\ refs = [c \in Chunks |-> NoRow]
    /\ accessed = [c \in Chunks |-> 0]
    /\ bin = [c \in Chunks |-> None]
    /\ tmp = [c \in Chunks |-> None]
    /\ whole = {}
    /\ touched = Untouched
    /\ now = 0
    /\ crashed = FALSE
    /\ pc = [t \in Tasks |-> "idle"]
    /\ op = [t \in Tasks |-> "get"]
    /\ arg = [t \in Tasks |-> None]
    /\ at = [t \in Tasks |-> 0]
    /\ fd = [t \in Tasks |-> None]
    /\ batch = [t \in Tasks |-> Untouched]
    /\ seen = [t \in Tasks |-> {}]
    /\ ok = {}
    /\ owned = [c \in Chunks |-> 0]
    /\ lost = [c \in Chunks |-> 0]

At(t, l) == pc[t] = l
Goto(t, l) == pc' = [pc EXCEPT ![t] = l]
Registered(c) == refs[c] # NoRow
Count(c) == IF Registered(c) THEN refs[c] ELSE 0

\* The operation of t returns.
Finish(t, good) ==
    /\ Goto(t, "done")
    /\ ok' = IF good THEN ok \cup {t} ELSE ok \ {t}

\* An inode no name and no open file refers to.
Free(i) ==
    /\ \A c \in Chunks : bin[c] # i /\ tmp[c] # i
    /\ \A t \in Tasks : fd[t] # i

-----------------------------------------------------------------------------
(* Callers. A caller releases a reference it holds, and only that.         *)

\* References on c that calls in progress may still add.
Taking(c) == {t \in Tasks : arg[t] = c /\ op[t] = "put" /\ pc[t] # "done"}

Call(t) ==
    /\ At(t, "idle")
    /\ \E o \in Ops, c \in Chunks :
          /\ o = "put" => Count(c) + Cardinality(Taking(c)) < MaxRefs
          /\ o = "release" => owned[c] > 0
          /\ Goto(t, Entry[o])
          /\ op' = [op EXCEPT ![t] = o]
          /\ arg' = [arg EXCEPT ![t] = IF o \in {"flush", "gc"} THEN None ELSE c]
          /\ at' = [at EXCEPT ![t] = now]
          /\ seen' = [seen EXCEPT ![t] = {}]
          /\ owned' = IF o = "release" THEN [owned EXCEPT ![c] = @ - 1] ELSE owned
    /\ UNCHANGED <<rows, files, touched, world, fd, batch, ok, lost>>

\* A put that returned Ok gives the caller a reference; a release that
\* returned an error leaves the caller with the one it had.
Return(t) ==
    /\ At(t, "done")
    /\ Goto(t, "idle")
    /\ owned' = IF \/ op[t] = "put" /\ t \in ok
                   \/ op[t] = "release" /\ t \notin ok
                THEN [owned EXCEPT ![arg[t]] = @ + 1] ELSE owned
    /\ arg' = [arg EXCEPT ![t] = None]
    /\ UNCHANGED <<rows, files, touched, world, op, at, fd, batch, seen, ok, lost>>

-----------------------------------------------------------------------------
(* put_with_hash_from                                                      *)

\* The probe's transaction. A registered chunk is bumped, its buffered touch
\* is superseded, and put returns; otherwise the transaction is dropped.
ProbeHit(t) ==
    /\ At(t, "probe")
    /\ Registered(arg[t])
    /\ touched' = [touched EXCEPT ![arg[t]] = Never]
    /\ refs' = [refs EXCEPT ![arg[t]] = @ + 1]
    /\ accessed' = [accessed EXCEPT ![arg[t]] = at[t]]
    /\ Finish(t, TRUE)
    /\ UNCHANGED <<files, world, frame, fd, batch, seen, owned, lost>>

\* The buffered touch is removed before the commit, so a commit that fails
\* has already dropped it.
ProbeHitFails(t) ==
    /\ At(t, "probe")
    /\ "commit" \in Faults
    /\ Registered(arg[t])
    /\ touched' = [touched EXCEPT ![arg[t]] = Never]
    /\ Finish(t, FALSE)
    /\ UNCHANGED <<rows, files, world, frame, fd, batch, seen, ghost>>

ProbeMiss(t) ==
    /\ At(t, "probe")
    /\ ~Registered(arg[t])
    /\ Goto(t, IF Clones THEN "clone" ELSE "create")
    /\ UNCHANGED <<rows, files, touched, world, frame, fd, batch, seen, ok, ghost>>

\* File::create: truncates the file of that name, or makes a new one.
OpenTmp(c, i) ==
    IF tmp[c] # None THEN i = tmp[c] ELSE Free(i)

\* try_clone_range makes and verifies the temporary file...
CloneTmp(t) ==
    /\ At(t, "clone")
    /\ \E i \in Inodes :
          /\ OpenTmp(arg[t], i)
          /\ tmp' = [tmp EXCEPT ![arg[t]] = i]
          /\ whole' = whole \cup {i}
    /\ Goto(t, "commit")
    /\ UNCHANGED <<rows, bin, touched, world, frame, fd, batch, seen, ok, ghost>>

\* Mutant: the cloner's refusal is taken for success.
CloneRefuses_Trusted(t) ==
    /\ At(t, "clone")
    /\ tmp' = [tmp EXCEPT ![arg[t]] = None]
    /\ Goto(t, "commit")
    /\ UNCHANGED <<rows, bin, whole, touched, world, frame, fd, batch, seen, ok, ghost>>

\* ...or refuses, after deleting whatever file has the temporary name.
CloneRefuses(t) ==
    /\ At(t, "clone")
    /\ tmp' = [tmp EXCEPT ![arg[t]] = None]
    /\ Goto(t, "create")
    /\ UNCHANGED <<rows, bin, whole, touched, world, frame, fd, batch, seen, ok, ghost>>

CreateTmp(t) ==
    /\ At(t, "create")
    /\ \E i \in Inodes :
          /\ OpenTmp(arg[t], i)
          /\ tmp' = [tmp EXCEPT ![arg[t]] = i]
          /\ fd' = [fd EXCEPT ![t] = i]
          /\ whole' = whole \ {i}
    /\ Goto(t, "write")
    /\ UNCHANGED <<rows, bin, touched, world, frame, batch, seen, ok, ghost>>

\* Mutant: the blob is put in place before its row commits.
WriteTmp_InPlace(t) ==
    /\ At(t, "write")
    /\ whole' = whole \cup {fd[t]}
    /\ bin' = [bin EXCEPT ![arg[t]] = fd[t]]
    /\ fd' = [fd EXCEPT ![t] = None]
    /\ Goto(t, "commit")
    /\ UNCHANGED <<rows, tmp, touched, world, frame, batch, seen, ok, ghost>>

\* write_all, flush, sync_all; the file is closed.
WriteTmp(t) ==
    /\ At(t, "write")
    /\ whole' = whole \cup {fd[t]}
    /\ fd' = [fd EXCEPT ![t] = None]
    /\ Goto(t, "commit")
    /\ UNCHANGED <<rows, bin, tmp, touched, world, frame, batch, seen, ok, ghost>>

\* An error of write_all is propagated with `?`: the file stays.
WriteFails(t) ==
    /\ At(t, "write")
    /\ "write" \in Faults
    /\ fd' = [fd EXCEPT ![t] = None]
    /\ Finish(t, FALSE)
    /\ UNCHANGED <<rows, files, touched, world, frame, batch, seen, ghost>>

\* Mutant: the row found by the second transaction is overwritten.
BumpedRow_Overwrite(c) == 1

\* The row the second transaction writes: "Bump rather than overwrite".
BumpedRow(c) == IF Registered(c) THEN refs[c] + 1 ELSE 1

CommitRow(t) ==
    /\ At(t, "commit")
    /\ refs' = [refs EXCEPT ![arg[t]] = BumpedRow(arg[t])]
    /\ accessed' = [accessed EXCEPT ![arg[t]] = at[t]]
    /\ Goto(t, "rename")
    /\ UNCHANGED <<files, touched, world, frame, fd, batch, seen, ok, owned, lost>>

\* The transaction fails: the temporary file is removed.
CommitFails(t) ==
    /\ At(t, "commit")
    /\ "commit" \in Faults
    /\ tmp' = [tmp EXCEPT ![arg[t]] = None]
    /\ Finish(t, FALSE)
    /\ UNCHANGED <<rows, bin, whole, touched, world, frame, fd, batch, seen, ghost>>

\* rename(<hash>.bin.tmp, <hash>.bin) replaces a blob already there, and
\* fails when another task has renamed or removed the shared name: put then
\* returns the error, and the reference it has counted stays in the row.
Rename(t) ==
    LET c == arg[t] IN
    /\ At(t, "rename")
    /\ tmp[c] # None
    /\ bin' = [bin EXCEPT ![c] = tmp[c]]
    /\ tmp' = [tmp EXCEPT ![c] = None]
    /\ Finish(t, TRUE)
    /\ UNCHANGED <<rows, whole, touched, world, frame, fd, batch, seen, ghost>>

\* Mutant: a put whose rename fails cleans up the blob.
RenameFails_Cleanup(t) ==
    /\ At(t, "rename")
    /\ tmp[arg[t]] = None
    /\ lost' = [lost EXCEPT ![arg[t]] = @ + 1]
    /\ bin' = [bin EXCEPT ![arg[t]] = None]
    /\ Finish(t, FALSE)
    /\ UNCHANGED <<rows, tmp, whole, touched, world, frame, fd, batch, seen, owned>>

RenameFails(t) ==
    /\ At(t, "rename")
    /\ tmp[arg[t]] = None
    /\ lost' = [lost EXCEPT ![arg[t]] = @ + 1]
    /\ Finish(t, FALSE)
    /\ UNCHANGED <<rows, files, touched, world, frame, fd, batch, seen, owned>>

Put(t) ==
    \/ ProbeHit(t) \/ ProbeHitFails(t) \/ ProbeMiss(t)
    \/ CloneTmp(t) \/ CloneRefuses(t)
    \/ CreateTmp(t) \/ WriteTmp(t) \/ WriteFails(t)
    \/ CommitRow(t) \/ CommitFails(t)
    \/ Rename(t) \/ RenameFails(t)

-----------------------------------------------------------------------------
(* get and flush_access_times                                              *)

GetCheck(t) ==
    /\ At(t, "check")
    /\ IF Registered(arg[t]) THEN Goto(t, "read") /\ UNCHANGED ok
                             ELSE Finish(t, FALSE)
    /\ UNCHANGED <<rows, files, touched, world, frame, fd, batch, seen, ghost>>

\* fs::read and the hash check: an error unless all the bytes are there.
GetRead(t) ==
    /\ At(t, "read")
    /\ IF bin[arg[t]] \in whole THEN Goto(t, "touch") /\ UNCHANGED ok
                                ELSE Finish(t, FALSE)
    /\ UNCHANGED <<rows, files, touched, world, frame, fd, batch, seen, ghost>>

Buffered(p) == {c \in Chunks : p[c] # Never}

\* The access time goes into the buffer; a full buffer is flushed first.
GetTouch(t) ==
    /\ At(t, "touch")
    /\ touched' = [touched EXCEPT ![arg[t]] = now]
    /\ IF Cardinality(Buffered(touched')) >= FlushAt
         THEN Goto(t, "drain") /\ UNCHANGED ok
         ELSE Finish(t, TRUE)
    /\ UNCHANGED <<rows, files, world, frame, fd, batch, seen, owned, lost>>

\* flush_access_times takes the buffer...
FlushDrain(t) ==
    /\ At(t, "drain")
    /\ IF Buffered(touched) = {}
         THEN Finish(t, TRUE) /\ UNCHANGED <<touched, batch>>
         ELSE /\ Goto(t, "flush") /\ UNCHANGED ok
              /\ batch' = [batch EXCEPT ![t] = touched]
              /\ touched' = Untouched
    /\ UNCHANGED <<rows, files, world, frame, fd, seen, ghost>>

\* ...and folds it into the rows that still exist.
Refreshed(c, times) ==
    IF Registered(c) /\ times[c] # Never THEN times[c] ELSE accessed[c]

FlushCommit(t) ==
    /\ At(t, "flush")
    /\ accessed' = [c \in Chunks |-> Refreshed(c, batch[t])]
    /\ batch' = [batch EXCEPT ![t] = Untouched]
    /\ Finish(t, TRUE)
    /\ UNCHANGED <<refs, files, touched, world, frame, fd, seen, ghost>>

\* The batch is dropped; get only logs the error.
FlushFails(t) ==
    /\ At(t, "flush")
    /\ "commit" \in Faults
    /\ batch' = [batch EXCEPT ![t] = Untouched]
    /\ Finish(t, op[t] = "get")
    /\ UNCHANGED <<rows, files, touched, world, frame, fd, seen, ghost>>

Read(t) ==
    \/ GetCheck(t) \/ GetRead(t) \/ GetTouch(t)
    \/ FlushDrain(t) \/ FlushCommit(t) \/ FlushFails(t)

-----------------------------------------------------------------------------
(* release                                                                 *)

ReleaseFails(t) ==
    /\ At(t, "release")
    /\ "commit" \in Faults
    /\ Finish(t, FALSE)
    /\ UNCHANGED <<rows, files, touched, world, frame, fd, batch, seen, ghost>>

\* Mutant: the blob is deleted whatever count is left.
ReleaseRow_Eager(t) ==
    LET c == arg[t] IN
    /\ At(t, "release")
    /\ Count(c) > 0
    /\ refs' = [refs EXCEPT ![c] = IF @ = 1 THEN NoRow ELSE @ - 1]
    /\ Goto(t, "unlink")
    /\ UNCHANGED <<accessed, files, touched, world, frame, fd, batch, seen, ok, ghost>>

\* ChunkNotFound and RefcountUnderflow return before anything is changed. The
\* last reference removes the row; the blob follows in a later step.
ReleaseRow(t) ==
    LET c == arg[t] IN
    /\ At(t, "release")
    /\ IF Count(c) = 0
         THEN Finish(t, FALSE) /\ UNCHANGED refs
         ELSE /\ refs' = [refs EXCEPT ![c] = IF @ = 1 THEN NoRow ELSE @ - 1]
              /\ IF refs[c] = 1 THEN Goto(t, "unlink") /\ UNCHANGED ok
                                ELSE Finish(t, TRUE)
    /\ UNCHANGED <<accessed, files, touched, world, frame, fd, batch, seen, ghost>>

\* Mutant: the blob is left behind.
Unlink_Skipped(t) ==
    /\ At(t, "unlink")
    /\ Finish(t, TRUE)
    /\ UNCHANGED <<rows, files, touched, world, frame, fd, batch, seen, ghost>>

Unlink(t) ==
    /\ At(t, "unlink")
    /\ bin' = [bin EXCEPT ![arg[t]] = None]
    /\ Finish(t, TRUE)
    /\ UNCHANGED <<rows, tmp, whole, touched, world, frame, fd, batch, seen, ghost>>

Release(t) ==
    ReleaseFails(t) \/ ReleaseRow(t) \/ Unlink(t)

-----------------------------------------------------------------------------
(* garbage_collect: one entry of the directory at a time.                  *)

\* The walk reaches an entry <hash>.bin and looks its chunk up in the table.
\* Names that do not end in ".bin" are skipped, the temporary ones included.
GcVisit(t) ==
    /\ At(t, "gcscan")
    /\ \E c \in Chunks \ seen[t] :
          /\ bin[c] # None
          /\ seen' = [seen EXCEPT ![t] = @ \cup {c}]
          /\ IF Registered(c) THEN UNCHANGED <<pc, arg>>
                              ELSE /\ Goto(t, "gcstat")
                                   /\ arg' = [arg EXCEPT ![t] = c]
    /\ UNCHANGED <<rows, files, touched, world, op, at, fd, batch, ok, ghost>>

\* metadata() of an entry that has gone is an error that ends the walk.
GcStat(t) ==
    /\ At(t, "gcstat")
    /\ IF bin[arg[t]] = None THEN Finish(t, FALSE)
                             ELSE Goto(t, "gcunlink") /\ UNCHANGED ok
    /\ UNCHANGED <<rows, files, touched, world, frame, fd, batch, seen, ghost>>

GcUnlink(t) ==
    /\ At(t, "gcunlink")
    /\ bin' = [bin EXCEPT ![arg[t]] = None]
    /\ arg' = [arg EXCEPT ![t] = None]
    /\ Goto(t, "gcscan")
    /\ UNCHANGED <<rows, tmp, whole, touched, world, op, at, fd, batch, seen, ok, ghost>>

\* The walk ends when it has met every entry.
GcDone(t) ==
    /\ At(t, "gcscan")
    /\ \A c \in Chunks \ seen[t] : bin[c] = None
    /\ Finish(t, TRUE)
    /\ UNCHANGED <<rows, files, touched, world, frame, fd, batch, seen, ghost>>

Collect(t) == GcVisit(t) \/ GcStat(t) \/ GcUnlink(t) \/ GcDone(t)

-----------------------------------------------------------------------------
(* The environment.                                                        *)

Tick ==
    /\ now < MaxTime
    /\ now' = now + 1
    /\ UNCHANGED <<rows, files, touched, crashed, pc, frame, fd, batch, seen, ok, ghost>>

\* Tasks that hold a counted reference on c which no caller owns yet, or no
\* longer owns.
InFlight(c) ==
    {t \in Tasks : /\ arg[t] = c
                   /\ \/ At(t, "rename") \/ At(t, "release")
                      \/ At(t, "done") /\ op[t] = "put" /\ t \in ok
                      \/ At(t, "done") /\ op[t] = "release" /\ t \notin ok}

\* The process dies and starts again: committed rows and named files remain,
\* pending_access, open files and the calls in progress do not. with_clock
\* only makes sure that the directory and the table exist.
Crash ==
    /\ Crashes
    /\ \E t \in Tasks : ~At(t, "idle")
    /\ crashed' = TRUE
    /\ pc' = [t \in Tasks |-> "idle"]
    /\ arg' = [t \in Tasks |-> None]
    /\ fd' = [t \in Tasks |-> None]
    /\ batch' = [t \in Tasks |-> Untouched]
    /\ seen' = [t \in Tasks |-> {}]
    /\ ok' = {}
    /\ touched' = Untouched
    /\ lost' = [c \in Chunks |-> lost[c] + Cardinality(InFlight(c))]
    /\ UNCHANGED <<rows, files, now, op, at, owned>>

Step(t) == Put(t) \/ Read(t) \/ Release(t) \/ Collect(t)

Next ==
    \/ \E t \in Tasks : Call(t) \/ Return(t) \/ Step(t)
    \/ Tick
    \/ Crash

Spec == Init /\ [][Next]_vars

-----------------------------------------------------------------------------
(* Properties.                                                             *)

StoreOK ==
    /\ refs \in [Chunks -> Nat \cup {NoRow}]
    /\ accessed \in [Chunks -> Times]
    /\ bin \in [Chunks -> Inodes \cup {None}]
    /\ tmp \in [Chunks -> Inodes \cup {None}]
    /\ whole \subseteq Inodes
    /\ touched \in [Chunks -> Times \cup {Never}]
    /\ now \in Times
    /\ crashed \in BOOLEAN
    /\ owned \in [Chunks -> Nat]
    /\ lost \in [Chunks -> Nat]

TasksOK ==
    /\ pc \in [Tasks -> Labels]
    /\ op \in [Tasks -> AllOps]
    /\ arg \in [Tasks -> Chunks \cup {None}]
    /\ at \in [Tasks -> Times]
    /\ fd \in [Tasks -> Inodes \cup {None}]
    /\ batch \in [Tasks -> [Chunks -> Times \cup {Never}]]
    /\ seen \in [Tasks -> SUBSET Chunks]
    /\ ok \subseteq Tasks

\* Every variable keeps its type: in particular no refcount becomes negative,
\* and only files are written.
TypeOK == StoreOK /\ TasksOK

\* The refcount of a row is the number of references taken and not given
\* back: those callers hold, those of calls in progress, and those lost to a
\* crash or to a failed rename. No reference vanishes and none appears, so a
\* chunk some caller owns keeps its row.
RefsAccounted ==
    \A c \in Chunks : Count(c) = owned[c] + lost[c] + Cardinality(InFlight(c))

\* A row with refcount zero is never stored: RefcountUnderflow is dead code.
NoZeroRow == \A c \in Chunks : refs[c] # 0

Quiet == \A t \in Tasks : At(t, "idle")

\* When no call is in progress, and until the process crashes, a chunk some
\* caller owns can be read.
OwnedReadable ==
    Quiet /\ ~crashed => \A c \in Chunks : owned[c] > 0 => bin[c] \in whole

\* "release decrements until the refcount reaches zero at which point the
\* blob file is deleted": once every owner has released, neither row nor
\* file is left (a crash between the two leaves the file to garbage_collect).
ReleasedIsGone ==
    Quiet /\ ~crashed => \A c \in Chunks : owned[c] = 0 => ~Registered(c) /\ bin[c] = None

\* "The blob is renamed into place only after the refcount row commits": a
\* blob in place has a row, so garbage_collect cannot meet a blob a put is
\* about to register.
BlobHasRow == \A c \in Chunks : bin[c] # None => Registered(c)

\* The bytes of a registered chunk survive a crash: they are in the blob, or
\* in the temporary file that was written and synced before the row.
BytesSurvive ==
    \A c \in Chunks : Registered(c) => bin[c] \in whole \/ tmp[c] \in whole

=============================================================================
