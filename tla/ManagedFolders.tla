---------------------------- MODULE ManagedFolders ----------------------------
(***************************************************************************)
(* Managed folders: the engine of crates/orchid-fs/src/managed and the     *)
(* deduplicator of crates/orchid-crypto it drives.  Files are cut into     *)
(* chunks, every chunk is put into the chunk store, and a manifest row     *)
(* says which chunks make the file.                                        *)
(*                                                                         *)
(* The chunk store is its reference counts (module ChunkStore has the      *)
(* store itself).  A file is the sequence of its chunks.  There is one     *)
(* managed folder and all paths lie under it, none excluded by a pattern;  *)
(* the table of folders says whether it is declared.                       *)
(***************************************************************************)
EXTENDS ManagedPaths, Naturals, Sequences, FiniteSets

CONSTANTS
    Chunks,      \* chunk hashes
    Contents,    \* what a file can hold: sequences of chunks
    Callers,     \* tasks that call the engine or the deduplicator
    Loop,        \* the auto-ingest task
    Ops,         \* what the callers call
    Faults,      \* what may fail: "put", "commit", "release"
    Quota,       \* the policy's limit, in distinct chunks; None: no policy
    MaxSaves,    \* bound: writes to the files
    MaxCalls     \* bound: calls of the callers

Tasks == Callers \cup {Loop}

ASSUME ManagedConstants ==
    /\ Loop \notin Callers
    /\ Contents \subseteq Seq(Chunks) \ {<<>>}
    /\ None \notin BOOLEAN \cup Seq(Chunks) \cup Paths \cup Nat
    /\ Quota \in Nat \cup {None}
    /\ {MaxSaves, MaxCalls} \subseteq Nat

VARIABLES
    folders,     \* table MANAGED_FOLDERS: the folder is declared
    cache,       \* folders_cache
    watched,     \* start has put a watch on the folder
    data,        \* the files
    pending,     \* paths with an FsCreated or FsModified event to deliver
    refs,        \* the chunk store's reference counts
    manifest,    \* table MANAGED_MANIFESTS
    step,        \* tasks: next step
    path,        \* tasks: the file being ingested
    seen,        \* tasks: the folder list read from the table, not yet cached
    got,         \* tasks: chunks put so far
    held,        \* callers: a manifest from ingest_file no row refers to
    saves, calls,
    missed,      \* ghost: paths whose last attempt was refused or failed
    clashed,     \* ghost: paths two tasks were ingesting at once
    unseen,      \* ghost: paths with a write nobody reported since the last ingest
    outrun       \* ghost: a fill overlapped a change of the folder table

files == <<data, pending, saves, watched>>
list == <<folders, cache, seen, outrun>>
vars == <<folders, cache, watched, data, pending, refs, manifest, step, path,
          seen, got, held, saves, calls, missed, clashed, unseen, outrun>>

Steps == {"idle", "under", "config", "stats", "chunk", "commit", "hold",
          "invalidate", "release"}

Init ==
    /\ folders \in BOOLEAN
    /\ cache = None
    /\ watched = folders
    /\ data = [p \in Paths |-> <<>>]
    /\ pending = {}
    /\ refs = [c \in Chunks |-> 0]
    /\ manifest = [p \in Paths |-> None]
    /\ step = [t \in Tasks |-> "idle"]
    /\ path = [t \in Tasks |-> None]
    /\ seen = [t \in Tasks |-> None]
    /\ got = [t \in Tasks |-> <<>>]
    /\ held = [t \in Tasks |-> None]
    /\ saves = 0
    /\ calls = 0
    /\ missed = {}
    /\ clashed = {}
    /\ unseen = {}
    /\ outrun = FALSE

-----------------------------------------------------------------------------
(* The user writes a file.  The watch that start puts on a declared folder *)
(* reports it.  add_folder puts none: until the next start the file is     *)
(* reported only when another part of the application watches it.          *)

Save(p) ==
    /\ saves < MaxSaves
    /\ \E c \in Contents : data' = [data EXCEPT ![p] = c]
    /\ \/ pending' = pending \cup {p} /\ UNCHANGED unseen
       \/ ~watched /\ unseen' = unseen \cup {p} /\ UNCHANGED pending
    /\ saves' = saves + 1
    /\ UNCHANGED <<list, watched, refs, manifest, step, path, got, held, calls,
                   missed, clashed>>

-----------------------------------------------------------------------------
(* An ingest begins and ends.                                              *)

Ingesting(t, p) == path[t] = p

BeginAt(t, p, s) ==
    /\ step[t] = "idle"
    /\ step' = [step EXCEPT ![t] = s]
    /\ path' = [path EXCEPT ![t] = p]
    /\ clashed' = IF \E u \in Tasks : Ingesting(u, p)
                  THEN clashed \cup {p} ELSE clashed
    /\ unseen' = unseen \ {p}

\* The auto-ingest loop receives an event.
Receive ==
    /\ \E p \in pending :
        /\ BeginAt(Loop, p, "under")
        /\ pending' = pending \ {p}
    /\ UNCHANGED <<list, data, saves, watched, refs, manifest, got, held, calls,
                   missed>>

\* Paths with a file.
Stored == {p \in Paths : data[p] # <<>>}

\* A caller (the file manager) ingests a selected file, or takes a manifest
\* from the deduplicator itself.
Call(t, op) ==
    /\ op \in Ops
    /\ calls < MaxCalls
    /\ calls' = calls + 1

Ingest(t) ==
    /\ Call(t, "ingest")
    /\ \E p \in Stored : BeginAt(t, p, "config")
    /\ UNCHANGED <<list, files, refs, manifest, got, held, missed>>

Borrow(t) ==
    /\ Call(t, "borrow")
    /\ step[t] = "idle"
    /\ held[t] = None
    /\ \E p \in Stored : path' = [path EXCEPT ![t] = p]
    /\ step' = [step EXCEPT ![t] = "hold"]
    /\ UNCHANGED <<list, files, refs, manifest, got, held, missed, clashed, unseen>>

\* The call returns; the paths it leaves without a manifest are misses.
Return(t, misses) ==
    /\ step' = [step EXCEPT ![t] = "idle"]
    /\ path' = [path EXCEPT ![t] = None]
    /\ got' = [got EXCEPT ![t] = <<>>]
    /\ missed' = misses

Missed(t) == missed \cup {path[t]}
Served(t) == missed \ {path[t]}

Goto(t, s) ==
    /\ step' = [step EXCEPT ![t] = s]
    /\ UNCHANGED <<path, got, missed>>

-----------------------------------------------------------------------------
(* list_folders and what its callers make of the answer.                   *)

\* folder_stats: distinct chunks of the manifests under the folder.
PhysicalChunks ==
    {c \in Chunks : \E p \in Paths :
        manifest[p] # None /\ \E i \in DOMAIN manifest[p] : manifest[p][i] = c}

OverQuota == Cardinality(PhysicalChunks) > Quota

\* path_is_under_managed, config_for_path, and folder_stats with check_quota.
Decide(t, declared) ==
    CASE step[t] = "under"  -> IF declared THEN Goto(t, "config")
                               ELSE Return(t, Missed(t))
      [] step[t] = "config" -> Goto(t, IF declared /\ Quota # None THEN "stats"
                                       ELSE "chunk")
      [] step[t] = "stats"  -> IF declared /\ ~OverQuota
                               THEN Goto(t, "chunk") ELSE Return(t, Missed(t))

Listing(t) == step[t] \in {"under", "config", "stats"}

\* The cached list is returned.
ListCached(t) ==
    /\ Listing(t)
    /\ seen[t] = None
    /\ cache # None
    /\ Decide(t, cache)
    /\ UNCHANGED <<list, files, refs, manifest, held, calls, clashed, unseen>>

\* Nothing is cached: read the table ...
ListRead(t) ==
    /\ Listing(t)
    /\ seen[t] = None
    /\ cache = None
    /\ seen' = [seen EXCEPT ![t] = folders]
    /\ UNCHANGED <<folders, cache, outrun, files, refs, manifest, step, path, got,
                   held, calls, missed, clashed, unseen>>

\* A change of the table is committed and its invalidation still to come.
ChangePending == \E u \in Tasks : step[u] = "invalidate"

\* ... and cache what was read, in a later critical section.
ListFill(t) ==
    /\ seen[t] # None
    /\ cache' = seen[t]
    /\ outrun' = (seen[t] # folders /\ ~ChangePending)
    /\ seen' = [seen EXCEPT ![t] = None]
    /\ Decide(t, seen[t])
    /\ UNCHANGED <<folders, files, refs, manifest, held, calls, clashed, unseen>>

\* add_folder and remove_folder: commit the row, then clear the cache.
ChangeFolder(t, op, declared) ==
    /\ Call(t, op)
    /\ step[t] = "idle"
    /\ folders' = declared
    /\ step' = [step EXCEPT ![t] = "invalidate"]
    /\ UNCHANGED <<cache, seen, outrun, files, refs, manifest, path, got, held,
                   missed, clashed, unseen>>

\* Mutant: the cache is left as it is.
Invalidate_Forgets(t) ==
    /\ step[t] = "invalidate"
    /\ step' = [step EXCEPT ![t] = "idle"]
    /\ UNCHANGED <<list, files, refs, manifest, path, got, held, calls, missed,
                   clashed, unseen>>

Invalidate(t) ==
    /\ step[t] = "invalidate"
    /\ cache' = None
    /\ outrun' = FALSE
    /\ step' = [step EXCEPT ![t] = "idle"]
    /\ UNCHANGED <<folders, seen, files, refs, manifest, path, got, held, calls,
                   missed, clashed, unseen>>

-----------------------------------------------------------------------------
(* Deduplicator::ingest_file and the manifest row.                         *)

Chunking(t) == step[t] \in {"chunk", "hold"}

\* Mutant: the chunk enters the manifest even when the store refused it.
PutChunk_Unchecked(t) ==
    /\ Chunking(t)
    /\ LET c == data[path[t]]
           n == Len(got[t]) + 1
       IN /\ n <= Len(c)
          /\ got' = [got EXCEPT ![t] = Append(@, c[n])]
          /\ \/ refs' = [refs EXCEPT ![c[n]] = @ + 1]
             \/ "put" \in Faults /\ UNCHANGED refs
          /\ UNCHANGED <<step, path, missed>>
    /\ UNCHANGED <<list, files, manifest, held, calls, clashed, unseen>>

\* The next chunk is read and put.  An error ends the ingest; the references
\* taken so far stay.
PutChunk(t) ==
    /\ Chunking(t)
    /\ LET c == data[path[t]]
           n == Len(got[t]) + 1
       IN /\ n <= Len(c)
          /\ \/ /\ refs' = [refs EXCEPT ![c[n]] = @ + 1]
                /\ got' = [got EXCEPT ![t] = Append(@, c[n])]
                /\ UNCHANGED <<step, path, missed>>
             \/ /\ "put" \in Faults
                /\ Return(t, IF step[t] = "chunk" THEN Missed(t) ELSE missed)
                /\ UNCHANGED refs
    /\ UNCHANGED <<list, files, manifest, held, calls, clashed, unseen>>

\* The stream is at the end of the file.
EndOfFile(t) ==
    /\ Chunking(t)
    /\ Len(got[t]) >= Len(data[path[t]])
    /\ \/ /\ step[t] = "chunk"
          /\ Goto(t, "commit")
          /\ UNCHANGED held
       \/ /\ step[t] = "hold"
          /\ held' = [held EXCEPT ![t] = got[t]]
          /\ Return(t, missed)
    /\ UNCHANGED <<list, files, refs, manifest, calls, clashed, unseen>>

\* Mutant: the events of the path that wait in the queue are dropped as served.
CommitManifest_Coalesces(t) ==
    /\ step[t] = "commit"
    /\ manifest' = [manifest EXCEPT ![path[t]] = got[t]]
    /\ pending' = pending \ {path[t]}
    /\ Return(t, Served(t))
    /\ UNCHANGED <<list, data, saves, watched, refs, held, calls, clashed, unseen>>

\* ManagedFolderEngine::ingest writes the row, over an older one.
CommitManifest(t) ==
    /\ step[t] = "commit"
    /\ \/ /\ manifest' = [manifest EXCEPT ![path[t]] = got[t]]
          /\ Return(t, Served(t))
       \/ /\ "commit" \in Faults
          /\ Return(t, Missed(t))
          /\ UNCHANGED manifest
    /\ UNCHANGED <<list, files, refs, held, calls, clashed, unseen>>

\* Deduplicator::release, chunk by chunk; an error leaves the rest referenced.
Release(t) ==
    /\ "release" \in Ops
    /\ step[t] = "idle"
    /\ held[t] # None
    /\ step' = [step EXCEPT ![t] = "release"]
    /\ UNCHANGED <<list, files, refs, manifest, path, got, held, calls, missed,
                   clashed, unseen>>

ReleaseChunk(t) ==
    /\ step[t] = "release"
    /\ \/ /\ held[t] = <<>>
          /\ held' = [held EXCEPT ![t] = None]
          /\ step' = [step EXCEPT ![t] = "idle"]
          /\ UNCHANGED refs
       \/ /\ held[t] # <<>>
          /\ refs[Head(held[t])] > 0
          /\ refs' = [refs EXCEPT ![Head(held[t])] = @ - 1]
          /\ held' = [held EXCEPT ![t] = Tail(@)]
          /\ UNCHANGED step
       \/ /\ held[t] # <<>>
          /\ refs[Head(held[t])] = 0 \/ "release" \in Faults
          /\ held' = [held EXCEPT ![t] = None]
          /\ step' = [step EXCEPT ![t] = "idle"]
          /\ UNCHANGED refs
    /\ UNCHANGED <<list, files, manifest, path, got, calls, missed, clashed, unseen>>

-----------------------------------------------------------------------------
\* The process dies and starts again: the tables and the store remain, events
\* not yet handled are lost, and nothing rescans the folder.
Crash ==
    /\ Crashes
    /\ cache' = None
    /\ seen' = [t \in Tasks |-> None]
    /\ outrun' = FALSE
    /\ missed' = missed \cup pending \cup ({path[t] : t \in Tasks} \ {None})
    /\ pending' = {}
    /\ step' = [t \in Tasks |-> "idle"]
    /\ path' = [t \in Tasks |-> None]
    /\ got' = [t \in Tasks |-> <<>>]
    /\ held' = [t \in Tasks |-> None]
    /\ watched' = folders
    /\ UNCHANGED <<folders, data, saves, refs, manifest, calls, clashed, unseen>>

Work(t) ==
    \/ ListCached(t) \/ ListRead(t) \/ ListFill(t)
    \/ PutChunk(t) \/ EndOfFile(t) \/ CommitManifest(t)
    \/ Invalidate(t)
    \/ ReleaseChunk(t)

Next ==
    \/ \E p \in Paths : Save(p)
    \/ Receive
    \/ \E t \in Callers :
        \/ Ingest(t) \/ Borrow(t) \/ Release(t)
        \/ ChangeFolder(t, "add", TRUE)
        \/ ChangeFolder(t, "remove", FALSE)
    \/ \E t \in Tasks : Work(t)
    \/ Crash

Spec == Init /\ [][Next]_vars

\* Tasks are polled until they return; the loop takes every event.
FairSpec == Spec /\ WF_vars(Receive) /\ \A t \in Tasks : WF_vars(Work(t))

-----------------------------------------------------------------------------
(* Properties.                                                             *)

ChunkSeq == Seq(Chunks)

\* Type invariant.
TypeOK ==
    /\ folders \in BOOLEAN
    /\ cache \in BOOLEAN \cup {None}
    /\ data \in [Paths -> ChunkSeq]
    /\ pending \subseteq Paths
    /\ refs \in [Chunks -> Nat]
    /\ manifest \in [Paths -> ChunkSeq \cup {None}]
    /\ step \in [Tasks -> Steps]
    /\ path \in [Tasks -> Paths \cup {None}]
    /\ seen \in [Tasks -> BOOLEAN \cup {None}]
    /\ got \in [Tasks -> ChunkSeq]
    /\ held \in [Tasks -> ChunkSeq \cup {None}]
    /\ saves \in 0..MaxSaves
    /\ calls \in 0..MaxCalls
    /\ missed \subseteq Paths
    /\ clashed \subseteq Paths
    /\ unseen \subseteq Paths
    /\ watched \in BOOLEAN
    /\ outrun \in BOOLEAN

\* Where the manifests of a function name a chunk: who has it, and at which
\* position.
Places(f, c) ==
    UNION {{x} \X {i \in DOMAIN f[x] : f[x][i] = c} : x \in {y \in DOMAIN f : f[y] # None}}

\* References somebody relies on: manifest rows, manifests in callers' hands,
\* and the chunks of ingests under way.
Claims(c) ==
    Cardinality(Places(manifest, c)) + Cardinality(Places(held, c))
        + Cardinality(Places(got, c))

\* Sharing is safe: every chunk has at least the references its manifests
\* need, one per occurrence, so no release of one file's manifest, failed
\* ingest, overwritten row or crash takes a chunk another file is made of.
ManifestBacked == \A c \in Chunks : refs[c] >= Claims(c)

\* A cached folder list is out of date only between a change's commit and its
\* invalidation, or when a fill that read the table before the change installed
\* its list after the invalidation.
FoldersFresh == cache \notin {None, folders} => ChangePending \/ outrun

\* Once the files stop changing, every file whose last ingest was not refused
\* or failed, and whose writes were reported, has a manifest of exactly its
\* content: an ingest that read a file while it was being rewritten is repaired
\* by the event of that write.  (Two tasks that ingest one path at once may
\* leave the older manifest, and a folder added since the last start is not
\* watched.)
ManifestCatchesUp ==
    <>[](\A p \in Stored \ (missed \cup clashed \cup unseen) : manifest[p] = data[p])
=============================================================================
