-------------------------- MODULE ManagedFoldersProofs --------------------------
(***************************************************************************)
(* Proofs about the managed folder engine: ManagedFolders, for any paths,  *)
(* chunks, contents, callers, faults, quota and crashes, and HardLinks,    *)
(* for any paths, inodes, contents, tasks, faults and number of user       *)
(* actions.                                                                *)
(***************************************************************************)
EXTENDS ManagedFolders, HardLinks, FiniteSetTheorems, TLAPS

-----------------------------------------------------------------------------
(* Type correctness of ManagedFolders.                                     *)

AtPath == {"under", "config", "stats", "chunk", "commit", "hold"}

\* What a task has in hand at each step.
InHand ==
    \A t \in Tasks :
        /\ path[t] # None <=> step[t] \in AtPath
        /\ step[t] \notin {"chunk", "commit", "hold"} => got[t] = <<>>
        /\ seen[t] # None => Listing(t)
        /\ step[t] = "hold" => held[t] = None
        /\ step[t] = "release" => held[t] # None

TypeInv == TypeOK /\ InHand

\* Appending a chunk to a manifest gives a manifest.
LEMMA SeqAppend ==
    ASSUME NEW s \in ChunkSeq, NEW c \in Chunks
    PROVE  Append(s, c) \in ChunkSeq
BY DEF ChunkSeq

LEMMA SeqTail ==
    ASSUME NEW s \in ChunkSeq, s # <<>>
    PROVE  Tail(s) \in ChunkSeq /\ Head(s) \in Chunks
BY DEF ChunkSeq

LEMMA EmptySeq == <<>> \in ChunkSeq /\ None \notin ChunkSeq
BY ManagedConstants DEF ChunkSeq

\* A task that has listed the folders goes on or gives up.
LEMMA Decided ==
    ASSUME NEW t \in Tasks, NEW d, Listing(t), Decide(t, d)
    PROVE  \/ \E s \in {"config", "stats", "chunk"} : Goto(t, s)
           \/ Return(t, Missed(t))
BY DEF Decide, Listing

LEMMA TypeInit == Init => TypeInv
<1> SUFFICES ASSUME Init PROVE TypeInv
  OBVIOUS
<1>1. saves \in 0..MaxSaves /\ calls \in 0..MaxCalls
  BY ManagedConstants DEF Init
<1> QED
  BY <1>1, EmptySeq DEF Init, TypeInv, TypeOK, InHand, Steps, AtPath, Listing

LEMMA TypeSave ==
    ASSUME TypeInv, NEW p \in Paths, Save(p)
    PROVE  TypeInv'
<1>1. saves' \in 0..MaxSaves
  BY ManagedConstants DEF TypeInv, TypeOK, Save
<1>2. data' \in [Paths -> ChunkSeq]
  BY ManagedConstants DEF TypeInv, TypeOK, Save, ChunkSeq
<1> QED
  BY <1>1, <1>2 DEF TypeInv, TypeOK, InHand, Save, list, Listing

LEMMA TypeBegin ==
    ASSUME TypeInv, NEW t \in Tasks, NEW p \in Paths,
           BeginAt(t, p, "under") \/ BeginAt(t, p, "config"),
           pending' \subseteq Paths, calls' \in 0..MaxCalls,
           UNCHANGED <<list, data, saves, watched, refs, manifest, got, held, missed>>
    PROVE  TypeInv'
<1> USE ManagedConstants DEF TypeInv, TypeOK, BeginAt, list
<1>1. clashed' \subseteq Paths /\ unseen' \subseteq Paths
  OBVIOUS
<1>2. step' \in [Tasks -> Steps] /\ path' \in [Tasks -> Paths \cup {None}]
  BY DEF Steps
<1>3. InHand'
  BY DEF InHand, AtPath, Listing
<1> QED
  BY <1>1, <1>2, <1>3

LEMMA TypeReturn ==
    ASSUME TypeInv, NEW t \in Tasks, NEW ms \in SUBSET Paths, Return(t, ms), path[t] # None,
           UNCHANGED <<folders, data, pending, saves, watched, calls, clashed, unseen>>,
           outrun' \in BOOLEAN, cache' \in BOOLEAN \cup {None},
           refs' \in [Chunks -> Nat],
           manifest' \in [Paths -> ChunkSeq \cup {None}],
           held' \in [Tasks -> ChunkSeq \cup {None}],
           \A u \in Tasks \ {t} : held'[u] = held[u],
           seen' = seen \/ seen' = [seen EXCEPT ![t] = None],
           Listing(t) => seen'[t] = None
    PROVE  TypeInv'
<1> USE DEF TypeInv, TypeOK, Return
<1>1. step' \in [Tasks -> Steps] /\ path' \in [Tasks -> Paths \cup {None}]
      /\ seen' \in [Tasks -> BOOLEAN \cup {None}] /\ got' \in [Tasks -> ChunkSeq]
  BY EmptySeq DEF Steps
<1>2. InHand'
  BY DEF InHand, AtPath, Listing
<1> QED
  BY <1>1, <1>2

\* Going from one step at a file to another.
LEMMA TypeGoto ==
    ASSUME TypeInv, NEW t \in Tasks, NEW s \in AtPath \ {"hold"}, Goto(t, s), step[t] \in AtPath,
           UNCHANGED <<folders, files, refs, manifest, held, calls, clashed, unseen>>,
           outrun' \in BOOLEAN, cache' \in BOOLEAN \cup {None},
           s \notin {"chunk", "commit"} => got[t] = <<>>,
           seen' = seen \/ seen' = [seen EXCEPT ![t] = None],
           seen'[t] # None => Listing(t)'
    PROVE  TypeInv'
<1> USE DEF TypeInv, TypeOK, Goto, files
<1>1. step' \in [Tasks -> Steps] /\ seen' \in [Tasks -> BOOLEAN \cup {None}]
  BY DEF Steps, AtPath
<1>2. InHand'
  BY DEF InHand, AtPath, Listing
<1> QED
  BY <1>1, <1>2

LEMMA TypeWork ==
    ASSUME TypeInv, NEW t \in Tasks, Work(t)
    PROVE  TypeInv'
<1> USE DEF TypeInv, TypeOK, InHand
<1>0. /\ path[t] # None => Missed(t) \in SUBSET Paths
      /\ Served(t) \in SUBSET Paths
  BY DEF Missed, Served
<1>1. CASE ListCached(t)
  <2>1. /\ Listing(t) /\ seen[t] = None /\ Decide(t, cache)
        /\ UNCHANGED <<list, files, refs, manifest, held, calls, clashed, unseen>>
    BY <1>1 DEF ListCached
  <2>2. CASE \E s \in {"config", "stats", "chunk"} : Goto(t, s)
    BY <2>1, <2>2, TypeGoto DEF list, AtPath, Listing
  <2>3. CASE Return(t, Missed(t))
    BY <1>0, <2>1, <2>3, TypeReturn DEF list, files, AtPath, Listing
  <2> QED
    BY <2>1, <2>2, <2>3, Decided
<1>2. CASE ListRead(t)
  BY <1>2 DEF ListRead, files, Listing
<1>3. CASE ListFill(t)
  <2>1. /\ Listing(t) /\ seen[t] \in BOOLEAN /\ Decide(t, seen[t])
        /\ cache' = seen[t] /\ seen' = [seen EXCEPT ![t] = None]
        /\ outrun' = (seen[t] # folders /\ ~ChangePending)
        /\ UNCHANGED <<folders, files, refs, manifest, held, calls, clashed, unseen>>
    BY <1>3 DEF ListFill
  <2>2. outrun' \in BOOLEAN
    BY <2>1, Zenon
  <2>3. seen'[t] = None
    BY <2>1
  <2>4. CASE \E s \in {"config", "stats", "chunk"} : Goto(t, s)
    <3>1. PICK s \in {"config", "stats", "chunk"} : Goto(t, s)
      BY <2>4
    <3>2. s \in AtPath \ {"hold"} /\ step[t] \in AtPath /\ got[t] = <<>>
      BY <2>1 DEF Listing, AtPath
    <3> QED
      BY <2>1, <2>2, <2>3, <3>1, <3>2, TypeGoto
  <2>5. CASE Return(t, Missed(t))
    <3>1. path[t] # None /\ Missed(t) \in SUBSET Paths
      BY <1>0, <2>1 DEF Listing, AtPath
    <3> QED
      BY <2>1, <2>2, <2>3, <2>5, <3>1, TypeReturn DEF files
  <2> QED
    BY <2>1, <2>4, <2>5, Decided
<1>4. CASE PutChunk(t)
  <2>1. path[t] \in Paths /\ ~Listing(t) /\ seen[t] = None
    BY <1>4 DEF PutChunk, Chunking, AtPath, Listing
  <2> DEFINE c == data[path[t]]
             n == Len(got[t]) + 1
  <2>2. c \in Seq(Chunks) /\ n \in 1..Len(c)
    BY <1>4, <2>1 DEF PutChunk, ChunkSeq
  <2>3. c[n] \in Chunks
    BY <2>2
  <2> HIDE DEF c, n
  <2>4. CASE /\ refs' = [refs EXCEPT ![c[n]] = @ + 1]
             /\ got' = [got EXCEPT ![t] = Append(@, c[n])]
             /\ UNCHANGED <<step, path, missed>>
    <3>1. refs' \in [Chunks -> Nat]
      BY <2>3, <2>4
    <3>2. got' \in [Tasks -> ChunkSeq]
      BY <2>3, <2>4, SeqAppend
    <3> QED
      BY <1>4, <2>4, <3>1, <3>2 DEF PutChunk, Chunking, list, files, Listing
  <2>5. CASE Return(t, IF step[t] = "chunk" THEN Missed(t) ELSE missed) /\ UNCHANGED refs
    <3>1. (IF step[t] = "chunk" THEN Missed(t) ELSE missed) \in SUBSET Paths
      BY <1>0, <2>1, ManagedConstants
    <3>2. UNCHANGED <<list, files, manifest, held, calls, clashed, unseen>>
      BY <1>4 DEF PutChunk
    <3> QED
      BY <2>1, <2>5, <3>1, <3>2, TypeReturn, ManagedConstants DEF list, files
  <2> QED
    BY <1>4, <2>4, <2>5 DEF PutChunk, c, n
<1>5. CASE EndOfFile(t)
  <2>1. path[t] \in Paths /\ ~Listing(t) /\ seen[t] = None
        /\ UNCHANGED <<list, files, refs, manifest, calls, clashed, unseen>>
    BY <1>5 DEF EndOfFile, Chunking, AtPath, Listing
  <2>2. CASE step[t] = "chunk" /\ Goto(t, "commit") /\ UNCHANGED held
    BY <2>1, <2>2, TypeGoto DEF list, AtPath
  <2>3. CASE step[t] = "hold" /\ held' = [held EXCEPT ![t] = got[t]] /\ Return(t, missed)
    BY <2>1, <2>3, TypeReturn, ManagedConstants DEF list, files
  <2> QED
    BY <1>5, <2>2, <2>3 DEF EndOfFile
<1>6. CASE CommitManifest(t)
  <2>1. path[t] \in Paths /\ ~Listing(t) /\ seen[t] = None
        /\ UNCHANGED <<list, files, refs, held, calls, clashed, unseen>>
    BY <1>6 DEF CommitManifest, AtPath, Listing
  <2>2. \E ms \in {Served(t), Missed(t)} : Return(t, ms)
    BY <1>6 DEF CommitManifest
  <2>3. PICK ms \in SUBSET Paths : Return(t, ms)
    BY <1>0, <2>1, <2>2, ManagedConstants
  <2>4. manifest' \in [Paths -> ChunkSeq \cup {None}]
    BY <1>6, <2>1 DEF CommitManifest
  <2> QED
    BY <2>1, <2>3, <2>4, TypeReturn, ManagedConstants DEF list, files
<1>7. CASE Invalidate(t)
  BY <1>7 DEF Invalidate, files, Listing, AtPath, Steps
<1>8. CASE ReleaseChunk(t)
  <2>1. step[t] = "release" /\ held[t] \in ChunkSeq
        /\ UNCHANGED <<list, files, manifest, path, got, calls, missed, clashed, unseen>>
    BY <1>8 DEF ReleaseChunk
  <2>2. CASE held' = [held EXCEPT ![t] = None] /\ step' = [step EXCEPT ![t] = "idle"]
             /\ UNCHANGED refs
    BY <2>1, <2>2 DEF list, files, Listing, AtPath, Steps
  <2>3. CASE /\ held[t] # <<>>
             /\ refs[Head(held[t])] > 0
             /\ refs' = [refs EXCEPT ![Head(held[t])] = @ - 1]
             /\ held' = [held EXCEPT ![t] = Tail(@)]
             /\ UNCHANGED step
    <3>1. Tail(held[t]) \in ChunkSeq /\ Head(held[t]) \in Chunks
      BY <2>1, <2>3, SeqTail
    <3>2. refs' \in [Chunks -> Nat]
      BY <2>3, <3>1
    <3> QED
      BY <2>1, <2>3, <3>1, <3>2, EmptySeq DEF list, files, Listing
  <2> QED
    BY <1>8, <2>2, <2>3 DEF ReleaseChunk
<1> QED
  BY <1>1, <1>2, <1>3, <1>4, <1>5, <1>6, <1>7, <1>8 DEF Work

LEMMA TypeCalls ==
    ASSUME TypeInv, NEW t \in Callers, NEW op, Call(t, op)
    PROVE  t \in Tasks /\ calls' \in 0..MaxCalls
BY ManagedConstants DEF TypeInv, TypeOK, Call, Tasks

LEMMA TypeStep == TypeInv /\ [Next]_vars => TypeInv'
<1> SUFFICES ASSUME TypeInv, [Next]_vars PROVE TypeInv'
  OBVIOUS
<1>1. ASSUME NEW p \in Paths, Save(p) PROVE TypeInv'
  BY <1>1, TypeSave
<1>2. CASE Receive
  <2>1. PICK p \in pending : BeginAt(Loop, p, "under") /\ pending' = pending \ {p}
    BY <1>2 DEF Receive
  <2>2. p \in Paths /\ pending' \subseteq Paths /\ Loop \in Tasks /\ calls' \in 0..MaxCalls
    BY <1>2, <2>1 DEF TypeInv, TypeOK, Tasks, Receive
  <2> QED
    BY <1>2, <2>1, <2>2, TypeBegin DEF Receive
<1>3. ASSUME NEW t \in Callers, Ingest(t) PROVE TypeInv'
  <2>1. PICK p \in Paths : BeginAt(t, p, "config")
    BY <1>3 DEF Ingest, Stored
  <2>2. t \in Tasks /\ calls' \in 0..MaxCalls
    BY <1>3, TypeCalls DEF Ingest
  <2>3. UNCHANGED <<list, data, saves, watched, refs, manifest, got, held, missed, pending>>
    BY <1>3 DEF Ingest, files
  <2> QED
    BY <2>1, <2>2, <2>3, TypeBegin DEF TypeInv, TypeOK
<1>4. ASSUME NEW t \in Callers, Borrow(t) PROVE TypeInv'
  <2>1. PICK p \in Paths : path' = [path EXCEPT ![t] = p]
    BY <1>4 DEF Borrow, Stored
  <2>2. t \in Tasks /\ calls' \in 0..MaxCalls
    BY <1>4, TypeCalls DEF Borrow
  <2> QED
    BY <1>4, <2>1, <2>2, ManagedConstants
    DEF Borrow, TypeInv, TypeOK, InHand, list, files, Steps, AtPath, Listing
<1>5. ASSUME NEW t \in Callers, Release(t) PROVE TypeInv'
  BY <1>5 DEF Release, TypeInv, TypeOK, InHand, list, files, Steps, AtPath, Listing, Tasks
<1>6. ASSUME NEW t \in Callers, NEW op, NEW d \in BOOLEAN, ChangeFolder(t, op, d)
      PROVE  TypeInv'
  <2>1. t \in Tasks /\ calls' \in 0..MaxCalls
    BY <1>6, TypeCalls DEF ChangeFolder
  <2> QED
    BY <1>6, <2>1
    DEF ChangeFolder, TypeInv, TypeOK, InHand, files, Steps, AtPath, Listing
<1>7. ASSUME NEW t \in Tasks, Work(t) PROVE TypeInv'
  BY <1>7, TypeWork
<1>8. CASE Crash
  <2>1. missed' \subseteq Paths
    BY <1>8 DEF Crash, TypeInv, TypeOK
  <2> QED
    BY <1>8, <2>1, EmptySeq DEF Crash, TypeInv, TypeOK, InHand, Steps, AtPath, Listing
<1>9. CASE UNCHANGED vars
  BY <1>9 DEF vars, TypeInv, TypeOK, InHand, Listing
<1> QED
  BY <1>1, <1>2, <1>3, <1>4, <1>5, <1>6, <1>7, <1>8, <1>9 DEF Next

\* Every step of the loop, the callers, the user and a crash keeps the types:
\* refcounts never go below zero, and a task is at a file exactly while it
\* ingests or borrows it.
THEOREM Typed == Spec => []TypeOK
<1>1. TypeInv => TypeOK
  BY DEF TypeInv
<1> QED
  BY TypeInit, TypeStep, <1>1, PTL DEF Spec

-----------------------------------------------------------------------------
(* The cached folder list.                                                 *)

\* A step that leaves the list alone and ends no change keeps it fresh.
LEMMA FreshFrame ==
    ASSUME FoldersFresh, UNCHANGED <<folders, cache, outrun>>,
           \A t \in Tasks : step[t] = "invalidate" => step'[t] = "invalidate"
    PROVE  FoldersFresh'
BY DEF FoldersFresh, ChangePending

LEMMA FreshWork ==
    ASSUME TypeInv, FoldersFresh, NEW t \in Tasks, Work(t)
    PROVE  FoldersFresh'
<1> USE DEF TypeInv, TypeOK
<1>1. CASE ListFill(t)
  <2>1. Listing(t) /\ Decide(t, seen[t])
    BY <1>1 DEF ListFill, InHand
  <2>2. \A u \in Tasks : step[u] = "invalidate" => step'[u] = "invalidate"
    BY <2>1, Decided DEF Goto, Return, Listing
  <2>3. ChangePending => ChangePending'
    BY <2>2 DEF ChangePending
  <2>4. cache' = seen[t] /\ folders' = folders /\ (outrun' <=> seen[t] # folders /\ ~ChangePending)
    BY <1>1, Zenon DEF ListFill
  <2> QED
    BY <2>3, <2>4 DEF FoldersFresh
<1>2. CASE Invalidate(t)
  BY <1>2 DEF Invalidate, FoldersFresh
<1>3. CASE ListCached(t)
  <2>1. \A u \in Tasks : step[u] = "invalidate" => step'[u] = "invalidate"
    BY <1>3, Decided DEF ListCached, Goto, Return, Listing
  <2> QED
    BY <1>3, <2>1, FreshFrame DEF ListCached, list
<1>4. CASE ListRead(t)
  BY <1>4, FreshFrame DEF ListRead
<1>5. CASE PutChunk(t) \/ EndOfFile(t) \/ CommitManifest(t)
  <2>1. UNCHANGED list /\ step[t] # "invalidate"
    BY <1>5 DEF PutChunk, EndOfFile, CommitManifest, Chunking
  <2>2. \A u \in Tasks \ {t} : step'[u] = step[u]
    BY <1>5 DEF PutChunk, EndOfFile, CommitManifest, Goto, Return
  <2> QED
    BY <2>1, <2>2, FreshFrame DEF list
<1>6. CASE ReleaseChunk(t)
  BY <1>6, FreshFrame DEF ReleaseChunk, list
<1> QED
  BY <1>1, <1>2, <1>3, <1>4, <1>5, <1>6 DEF Work

LEMMA FreshStep == TypeInv /\ FoldersFresh /\ [Next]_vars => FoldersFresh'
<1> SUFFICES ASSUME TypeInv, FoldersFresh, [Next]_vars PROVE FoldersFresh'
  OBVIOUS
<1> USE DEF TypeInv, TypeOK
<1>1. ASSUME NEW p \in Paths, Save(p) PROVE FoldersFresh'
  BY <1>1, FreshFrame DEF Save, list
<1>2. CASE Receive
  <2>1. Loop \in Tasks /\ UNCHANGED list /\ step[Loop] = "idle"
        /\ \E s \in Steps : step' = [step EXCEPT ![Loop] = s]
    BY <1>2 DEF Receive, BeginAt, Tasks, Steps
  <2> QED
    BY <2>1, FreshFrame DEF list
<1>3. ASSUME NEW t \in Callers, Ingest(t) \/ Borrow(t) \/ Release(t) PROVE FoldersFresh'
  <2>1. t \in Tasks /\ UNCHANGED list /\ step[t] = "idle"
        /\ \E s \in Steps : step' = [step EXCEPT ![t] = s]
    BY <1>3 DEF Ingest, Borrow, Release, BeginAt, Tasks, Steps
  <2> QED
    BY <2>1, FreshFrame DEF list
<1>4. ASSUME NEW t \in Callers, NEW op, NEW d \in BOOLEAN, ChangeFolder(t, op, d)
      PROVE  FoldersFresh'
  <2>1. t \in Tasks /\ step'[t] = "invalidate"
    BY <1>4 DEF ChangeFolder, Tasks
  <2> QED
    BY <2>1 DEF FoldersFresh, ChangePending
<1>5. ASSUME NEW t \in Tasks, Work(t) PROVE FoldersFresh'
  BY <1>5, FreshWork
<1>6. CASE Crash
  BY <1>6 DEF Crash, FoldersFresh
<1>7. CASE UNCHANGED vars
  BY <1>7, FreshFrame DEF vars
<1> QED
  BY <1>1, <1>2, <1>3, <1>4, <1>5, <1>6, <1>7 DEF Next

\* The cached list is the table, except between the commit of a change and its
\* invalidation, or when a list read before the change was cached after it, for
\* any number of tasks that list and change folders at once.
THEOREM CacheFresh == Spec => []FoldersFresh
<1>1. Init => FoldersFresh
  BY DEF Init, FoldersFresh
<1> QED
  BY TypeInit, TypeStep, <1>1, FreshStep, PTL DEF Spec

-----------------------------------------------------------------------------
(* Sums of references.  The places of a chunk in all manifests of a        *)
(* function change by those in one manifest.                               *)

\* The positions of a chunk in one manifest.
Spots(m, c) == IF m = None THEN {} ELSE {i \in DOMAIN m : m[i] = c}

LEMMA SpotsFinite ==
    ASSUME NEW m \in ChunkSeq \cup {None}, NEW c
    PROVE  IsFiniteSet(Spots(m, c)) /\ Cardinality(Spots(m, c)) \in Nat
<1>1. CASE m = None
  BY <1>1, FS_EmptySet, FS_CardinalityType DEF Spots
<1>2. CASE m # None
  <2>1. m \in Seq(Chunks)
    BY <1>2 DEF ChunkSeq
  <2>2. Spots(m, c) \in SUBSET (1..Len(m)) /\ Len(m) \in Int
    BY <1>2, <2>1 DEF Spots
  <2>3. IsFiniteSet(1..Len(m))
    BY <2>2, FS_Interval
  <2> QED
    BY <2>2, <2>3, FS_Subset, FS_CardinalityType
<1> QED
  BY <1>1, <1>2

LEMMA NoSpots ==
    ASSUME NEW c
    PROVE  Spots(<<>>, c) = {} /\ Spots(None, c) = {} /\ Cardinality({}) = 0
BY FS_EmptySet DEF Spots

LEMMA SpotsAppend ==
    ASSUME NEW m \in ChunkSeq, NEW d \in Chunks, NEW c
    PROVE  Cardinality(Spots(Append(m, d), c))
             = Cardinality(Spots(m, c)) + (IF d = c THEN 1 ELSE 0)
<1>0. m \in Seq(Chunks) /\ m # None /\ Append(m, d) # None
      /\ Append(m, d) \in Seq(Chunks)
  BY EmptySeq, SeqAppend DEF ChunkSeq
<1>1. DOMAIN Append(m, d) = 1..(Len(m) + 1) /\ DOMAIN m = 1..Len(m) /\ Len(m) \in Nat
  BY <1>0
<1>2. Append(m, d)[Len(m) + 1] = d /\ \A i \in 1..Len(m) : Append(m, d)[i] = m[i]
  BY <1>0
<1>3. Spots(Append(m, d), c) =
        IF d = c THEN Spots(m, c) \cup {Len(m) + 1} ELSE Spots(m, c)
  <2>1. \A i : i \in Spots(Append(m, d), c)
                <=> (i \in Spots(m, c) \/ (i = Len(m) + 1 /\ d = c))
    BY <1>0, <1>1, <1>2 DEF Spots
  <2> QED
    BY <2>1
<1>4. Len(m) + 1 \notin Spots(m, c)
  BY <1>0, <1>1 DEF Spots
<1>5. IsFiniteSet(Spots(m, c)) /\ Cardinality(Spots(m, c)) \in Nat
  BY SpotsFinite
<1>6. Cardinality(Spots(m, c) \cup {Len(m) + 1}) = Cardinality(Spots(m, c)) + 1
  BY <1>4, <1>5, FS_AddElement
<1> QED
  BY <1>3, <1>5, <1>6

LEMMA SpotsTail ==
    ASSUME NEW m \in ChunkSeq, m # <<>>, NEW c
    PROVE  Cardinality(Spots(m, c))
             = Cardinality(Spots(Tail(m), c)) + (IF Head(m) = c THEN 1 ELSE 0)
<1>0. m \in Seq(Chunks) /\ m # None /\ Tail(m) # None /\ Tail(m) \in ChunkSeq
      /\ Tail(m) \in Seq(Chunks) /\ Len(m) \in Nat /\ Len(m) > 0
  BY EmptySeq, SeqTail DEF ChunkSeq
<1>1. DOMAIN m = 1..Len(m) /\ DOMAIN Tail(m) = 1..(Len(m) - 1)
      /\ (\A i \in 1..(Len(m) - 1) : Tail(m)[i] = m[i + 1]) /\ Head(m) = m[1]
  BY <1>0
<1> DEFINE S == Spots(Tail(m), c)
           T == Spots(m, c) \ {1}
           f == [i \in S |-> i + 1]
<1>2. \A i \in S : i \in 1..(Len(m) - 1) /\ m[i + 1] = c
  BY <1>0, <1>1 DEF Spots
<1>3. \A j \in T : j - 1 \in S /\ j = (j - 1) + 1
  BY <1>0, <1>1 DEF Spots
<1>4. \A i \in S : i + 1 \in T
  BY <1>0, <1>1, <1>2 DEF Spots
<1>5. f \in Bijection(S, T)
  <2>1. f \in [S -> T]
    BY <1>4
  <2>2. \A i, j \in S : f[i] = f[j] => i = j
    BY <1>2
  <2>3. \A j \in T : \E i \in S : f[i] = j
    BY <1>3
  <2> HIDE DEF S, T, f
  <2> QED
    BY <2>1, <2>2, <2>3 DEF Bijection, Injection, Surjection, IsInjective
<1>6. IsFiniteSet(S) /\ IsFiniteSet(Spots(m, c)) /\ Cardinality(Spots(m, c)) \in Nat
  BY <1>0, SpotsFinite
<1>7. Cardinality(T) = Cardinality(S)
  BY <1>5, <1>6, FS_Bijection, Zenon DEF ExistsBijection
<1>8. 1 \in Spots(m, c) <=> Head(m) = c
  BY <1>0, <1>1 DEF Spots
<1>9. Cardinality(T) = IF 1 \in Spots(m, c) THEN Cardinality(Spots(m, c)) - 1
                                            ELSE Cardinality(Spots(m, c))
  BY <1>6, FS_RemoveElement, Zenon
<1> HIDE DEF S, T
<1> QED
  BY <1>6, <1>7, <1>8, <1>9 DEF S

LEMMA PlacesAre ==
    ASSUME NEW f, NEW c
    PROVE  \A q : q \in Places(f, c) <=>
              \E x \in DOMAIN f : \E i \in Spots(f[x], c) : q = <<x, i>>
BY DEF Places, Spots

\* One manifest of a function changes.
LEMMA PlacesChange ==
    ASSUME NEW f, NEW x \in DOMAIN f, NEW m \in ChunkSeq \cup {None},
           f[x] \in ChunkSeq \cup {None}, NEW c, IsFiniteSet(Places(f, c)),
           NEW g, DOMAIN g = DOMAIN f, g[x] = m, \A y \in DOMAIN f \ {x} : g[y] = f[y]
    PROVE  /\ IsFiniteSet(Places(g, c))
           /\ Cardinality(Places(g, c)) \in Nat /\ Cardinality(Places(f, c)) \in Nat
           /\ Cardinality(Spots(m, c)) \in Nat /\ Cardinality(Spots(f[x], c)) \in Nat
           /\ Cardinality(Places(g, c)) + Cardinality(Spots(f[x], c))
                = Cardinality(Places(f, c)) + Cardinality(Spots(m, c))
<1> DEFINE others == {q \in Places(f, c) : q[1] # x}
           at(n) == {x} \X Spots(n, c)
<1>1. DOMAIN g = DOMAIN f /\ g[x] = m /\ \A y \in DOMAIN f \ {x} : g[y] = f[y]
  OBVIOUS
<1>2. \A q : q \in Places(f, c) <=> \E y \in DOMAIN f : \E i \in Spots(f[y], c) : q = <<y, i>>
  BY PlacesAre
<1>3. \A q : q \in Places(g, c) <=> \E y \in DOMAIN g : \E i \in Spots(g[y], c) : q = <<y, i>>
  <2> QED
    BY PlacesAre
<1>4. Places(f, c) = others \cup at(f[x])
  <2>1. \A q : q \in Places(f, c) /\ q[1] = x <=> \E i \in Spots(f[x], c) : q = <<x, i>>
    BY <1>2
  <2>2. \A q : q \in at(f[x]) <=> \E i \in Spots(f[x], c) : q = <<x, i>>
    OBVIOUS
  <2>3. \A q : q \in Places(f, c) <=> q \in others \/ q \in at(f[x])
    BY <2>1, <2>2
  <2> QED
    BY <2>3
<1>5. Places(g, c) = others \cup at(m)
  <2>1. \A q : q \in others <=> \E y \in DOMAIN f \ {x} : \E i \in Spots(f[y], c) : q = <<y, i>>
    <3>1. \A y, i : <<y, i>>[1] = y
      OBVIOUS
    <3> QED
      BY <1>2, <3>1
  <2>2. \A q : q \in at(m) <=> \E i \in Spots(g[x], c) : q = <<x, i>>
    BY <1>1
  <2>3. \A y \in DOMAIN f \ {x} : Spots(g[y], c) = Spots(f[y], c)
    BY <1>1
  <2>4. \A q : q \in others <=> \E y \in DOMAIN g \ {x} : \E i \in Spots(g[y], c) : q = <<y, i>>
    BY <1>1, <2>1, <2>3
  <2>5. x \in DOMAIN g
    BY <1>1
  <2> HIDE DEF others, at
  <2>6. \A q : q \in Places(g, c) <=> q \in others \/ q \in at(m)
    <3> TAKE q
    <3>1. q \in at(m) <=> \E i \in Spots(g[x], c) : q = <<x, i>>
      BY <2>2
    <3>2. q \in others <=> \E y \in DOMAIN g \ {x} : \E i \in Spots(g[y], c) : q = <<y, i>>
      BY <2>4
    <3>3. q \in Places(g, c) <=> \E y \in DOMAIN g : \E i \in Spots(g[y], c) : q = <<y, i>>
      BY <1>3
    <3> QED
      BY <2>5, <3>1, <3>2, <3>3, Zenon
  <2> QED
    BY <2>6
<1>6. others \cap at(f[x]) = {} /\ others \cap at(m) = {}
  OBVIOUS
<1>7. IsFiniteSet(others)
  BY FS_Subset
<1>8. \A n \in ChunkSeq \cup {None} :
         /\ IsFiniteSet(at(n))
         /\ Cardinality(at(n)) = Cardinality(Spots(n, c))
         /\ Cardinality(Spots(n, c)) \in Nat
  <2> TAKE n \in ChunkSeq \cup {None}
  <2>1. IsFiniteSet({x}) /\ Cardinality({x}) = 1
    BY FS_Singleton
  <2>2. IsFiniteSet(Spots(n, c)) /\ Cardinality(Spots(n, c)) \in Nat
    BY SpotsFinite
  <2>3. IsFiniteSet(at(n)) /\ Cardinality(at(n)) = Cardinality({x}) * Cardinality(Spots(n, c))
    BY <2>1, <2>2, FS_Product
  <2> QED
    BY <2>1, <2>2, <2>3
<1>9. Cardinality(others) \in Nat
  BY <1>7, FS_CardinalityType
<1> HIDE DEF others, at
<1>10. \A n \in ChunkSeq \cup {None} : others \cap at(n) = {} =>
         /\ IsFiniteSet(others \cup at(n))
         /\ Cardinality(others \cup at(n)) = Cardinality(others) + Cardinality(Spots(n, c))
  <2> TAKE n \in ChunkSeq \cup {None}
  <2> HAVE others \cap at(n) = {}
  <2>1. IsFiniteSet(at(n))
    BY <1>8
  <2>2. /\ IsFiniteSet(others \cup at(n))
        /\ Cardinality(others \cup at(n))
             = Cardinality(others) + Cardinality(at(n)) - Cardinality(others \cap at(n))
    BY <1>7, <2>1, FS_Union
  <2>3. Cardinality(others \cap at(n)) = 0
    BY FS_EmptySet
  <2>4. Cardinality(at(n)) = Cardinality(Spots(n, c)) /\ Cardinality(Spots(n, c)) \in Nat
    BY <1>8
  <2> QED
    BY <1>9, <2>2, <2>3, <2>4
<1>11. /\ IsFiniteSet(Places(g, c))
       /\ Cardinality(Places(g, c)) = Cardinality(others) + Cardinality(Spots(m, c))
  BY <1>5, <1>6, <1>10
<1>12. Cardinality(Places(f, c)) = Cardinality(others) + Cardinality(Spots(f[x], c))
  BY <1>4, <1>6, <1>10
<1>13. Cardinality(Spots(m, c)) \in Nat /\ Cardinality(Spots(f[x], c)) \in Nat
  BY <1>8
<1> QED
  BY <1>9, <1>11, <1>12, <1>13

-----------------------------------------------------------------------------
(* Every manifest's chunks are referenced.                                 *)

Counted ==
    \A c \in Chunks : /\ IsFiniteSet(Places(manifest, c))
                      /\ IsFiniteSet(Places(held, c))
                      /\ IsFiniteSet(Places(got, c))

BackedInv == Counted /\ ManifestBacked

LEMMA NoPlaces ==
    ASSUME NEW f, NEW c, \A x \in DOMAIN f : f[x] = None \/ f[x] = <<>>
    PROVE  Places(f, c) = {} /\ IsFiniteSet(Places(f, c)) /\ Cardinality(Places(f, c)) = 0
<1>1. \A x \in DOMAIN f : Spots(f[x], c) = {}
  BY NoSpots
<1>2. Places(f, c) = {}
  BY <1>1, PlacesAre
<1> QED
  BY <1>2, FS_EmptySet

LEMMA BackedInit == Init => BackedInv
<1> SUFFICES ASSUME Init, NEW c \in Chunks
             PROVE  /\ IsFiniteSet(Places(manifest, c)) /\ IsFiniteSet(Places(held, c))
                    /\ IsFiniteSet(Places(got, c)) /\ refs[c] >= Claims(c)
  BY DEF BackedInv, Counted, ManifestBacked
<1>1. \A f \in {manifest, held, got} : \A x \in DOMAIN f : f[x] = None \/ f[x] = <<>>
  BY DEF Init
<1>2. \A f \in {manifest, held, got} :
          IsFiniteSet(Places(f, c)) /\ Cardinality(Places(f, c)) = 0
  BY <1>1, NoPlaces
<1>3. refs[c] = 0
  BY DEF Init
<1> QED
  BY <1>2, <1>3 DEF Claims

LEMMA BackedFrame ==
    ASSUME BackedInv, UNCHANGED <<refs, manifest, held, got>>
    PROVE  BackedInv'
BY DEF BackedInv, Counted, ManifestBacked, Claims

\* The claims on a chunk are numbers.
LEMMA ClaimsNat ==
    ASSUME TypeInv, BackedInv, NEW c \in Chunks
    PROVE  /\ Cardinality(Places(manifest, c)) \in Nat
           /\ Cardinality(Places(held, c)) \in Nat
           /\ Cardinality(Places(got, c)) \in Nat
           /\ refs[c] \in Nat
           /\ refs[c] >= Cardinality(Places(manifest, c)) + Cardinality(Places(held, c))
                           + Cardinality(Places(got, c))
BY FS_CardinalityType DEF TypeInv, TypeOK, BackedInv, Counted, ManifestBacked, Claims

\* What a task puts aside or drops is claimed no more than before.
LEMMA GotChange ==
    ASSUME TypeInv, BackedInv, NEW t \in Tasks, NEW m \in ChunkSeq,
           got' = [got EXCEPT ![t] = m], NEW c \in Chunks
    PROVE  /\ IsFiniteSet(Places(got', c)) /\ Cardinality(Places(got', c)) \in Nat
           /\ Cardinality(Spots(m, c)) \in Nat /\ Cardinality(Spots(got[t], c)) \in Nat
           /\ Cardinality(Places(got', c)) + Cardinality(Spots(got[t], c))
                = Cardinality(Places(got, c)) + Cardinality(Spots(m, c))
<1> DEFINE Changed(g) ==
             /\ IsFiniteSet(Places(g, c)) /\ Cardinality(Places(g, c)) \in Nat
             /\ Cardinality(Spots(m, c)) \in Nat
             /\ Cardinality(Spots(got[t], c)) \in Nat
             /\ Cardinality(Places(g, c)) + Cardinality(Spots(got[t], c))
                  = Cardinality(Places(got, c)) + Cardinality(Spots(m, c))
<1>1. t \in DOMAIN got /\ got[t] \in ChunkSeq /\ IsFiniteSet(Places(got, c))
  BY DEF TypeInv, TypeOK, BackedInv, Counted
<1>2. DOMAIN got' = DOMAIN got /\ got'[t] = m
      /\ \A y \in DOMAIN got \ {t} : got'[y] = got[y]
  BY <1>1
<1>3. \A g : (/\ DOMAIN g = DOMAIN got /\ g[t] = m
              /\ \A y \in DOMAIN got \ {t} : g[y] = got[y]) => Changed(g)
  BY <1>1, PlacesChange
<1> QED
  BY <1>2, <1>3

LEMMA HeldChange ==
    ASSUME TypeInv, BackedInv, NEW t \in Tasks, NEW m \in ChunkSeq \cup {None},
           held' = [held EXCEPT ![t] = m], NEW c \in Chunks
    PROVE  /\ IsFiniteSet(Places(held', c)) /\ Cardinality(Places(held', c)) \in Nat
           /\ Cardinality(Spots(m, c)) \in Nat /\ Cardinality(Spots(held[t], c)) \in Nat
           /\ Cardinality(Places(held', c)) + Cardinality(Spots(held[t], c))
                = Cardinality(Places(held, c)) + Cardinality(Spots(m, c))
<1> DEFINE Changed(g) ==
             /\ IsFiniteSet(Places(g, c)) /\ Cardinality(Places(g, c)) \in Nat
             /\ Cardinality(Spots(m, c)) \in Nat
             /\ Cardinality(Spots(held[t], c)) \in Nat
             /\ Cardinality(Places(g, c)) + Cardinality(Spots(held[t], c))
                  = Cardinality(Places(held, c)) + Cardinality(Spots(m, c))
<1>1. t \in DOMAIN held /\ held[t] \in ChunkSeq \cup {None} /\ IsFiniteSet(Places(held, c))
  BY DEF TypeInv, TypeOK, BackedInv, Counted
<1>2. DOMAIN held' = DOMAIN held /\ held'[t] = m
      /\ \A y \in DOMAIN held \ {t} : held'[y] = held[y]
  BY <1>1
<1>3. \A g : (/\ DOMAIN g = DOMAIN held /\ g[t] = m
              /\ \A y \in DOMAIN held \ {t} : g[y] = held[y]) => Changed(g)
  BY <1>1, PlacesChange
<1> QED
  BY <1>2, <1>3

LEMMA RowChange ==
    ASSUME TypeInv, BackedInv, NEW p \in Paths, NEW m \in ChunkSeq,
           manifest' = [manifest EXCEPT ![p] = m], NEW c \in Chunks
    PROVE  /\ IsFiniteSet(Places(manifest', c)) /\ Cardinality(Places(manifest', c)) \in Nat
           /\ Cardinality(Spots(m, c)) \in Nat /\ Cardinality(Spots(manifest[p], c)) \in Nat
           /\ Cardinality(Places(manifest', c)) + Cardinality(Spots(manifest[p], c))
                = Cardinality(Places(manifest, c)) + Cardinality(Spots(m, c))
<1> DEFINE Changed(g) ==
             /\ IsFiniteSet(Places(g, c)) /\ Cardinality(Places(g, c)) \in Nat
             /\ Cardinality(Spots(m, c)) \in Nat
             /\ Cardinality(Spots(manifest[p], c)) \in Nat
             /\ Cardinality(Places(g, c)) + Cardinality(Spots(manifest[p], c))
                  = Cardinality(Places(manifest, c)) + Cardinality(Spots(m, c))
<1>1. p \in DOMAIN manifest /\ manifest[p] \in ChunkSeq \cup {None}
      /\ IsFiniteSet(Places(manifest, c))
  BY DEF TypeInv, TypeOK, BackedInv, Counted
<1>2. DOMAIN manifest' = DOMAIN manifest /\ manifest'[p] = m
      /\ \A y \in DOMAIN manifest \ {p} : manifest'[y] = manifest[y]
  BY <1>1
<1>3. \A g : (/\ DOMAIN g = DOMAIN manifest /\ g[p] = m
              /\ \A y \in DOMAIN manifest \ {p} : g[y] = manifest[y]) => Changed(g)
  BY <1>1, PlacesChange
<1> QED
  BY <1>2, <1>3

\* A call that returns gives up its chunks, which stay referenced.
LEMMA BackedReturn ==
    ASSUME TypeInv, BackedInv, NEW t \in Tasks, got' = [got EXCEPT ![t] = <<>>],
           UNCHANGED <<refs, manifest, held>>
    PROVE  BackedInv'
<1> SUFFICES ASSUME NEW c \in Chunks
             PROVE  IsFiniteSet(Places(got', c)) /\ refs[c] >= Claims(c)'
  BY DEF BackedInv, Counted, ManifestBacked
<1>1. Cardinality(Spots(<<>>, c)) = 0
  BY NoSpots
<1>2. /\ IsFiniteSet(Places(got', c)) /\ Cardinality(Places(got', c)) \in Nat
      /\ Cardinality(Spots(got[t], c)) \in Nat
      /\ Cardinality(Places(got', c)) + Cardinality(Spots(got[t], c))
           = Cardinality(Places(got, c)) + Cardinality(Spots(<<>>, c))
  BY GotChange, EmptySeq
<1> QED
  BY <1>1, <1>2, ClaimsNat DEF Claims

LEMMA BackedPut ==
    ASSUME TypeInv, BackedInv, NEW t \in Tasks, PutChunk(t)
    PROVE  BackedInv'
<1> DEFINE d == data[path[t]][Len(got[t]) + 1]
<1>0. /\ UNCHANGED <<manifest, held>> /\ d \in Chunks
  <2>1. path[t] \in Paths
    BY DEF PutChunk, Chunking, TypeInv, TypeOK, InHand, AtPath
  <2>2. data[path[t]] \in Seq(Chunks) /\ Len(got[t]) + 1 \in 1..Len(data[path[t]])
    BY <2>1 DEF PutChunk, TypeInv, TypeOK, ChunkSeq
  <2> QED
    BY <2>2 DEF PutChunk
<1>1. CASE refs' = [refs EXCEPT ![d] = @ + 1] /\ got' = [got EXCEPT ![t] = Append(@, d)]
  <2> HIDE DEF d
  <2> SUFFICES ASSUME NEW c \in Chunks
               PROVE  IsFiniteSet(Places(got', c)) /\ refs'[c] >= Claims(c)'
    BY <1>0 DEF BackedInv, Counted, ManifestBacked
  <2>1. got[t] \in ChunkSeq
    BY DEF TypeInv, TypeOK
  <2>2. Append(got[t], d) \in ChunkSeq /\ got' = [got EXCEPT ![t] = Append(got[t], d)]
    BY <1>0, <1>1, <2>1, SeqAppend
  <2>3. Cardinality(Spots(Append(got[t], d), c))
          = Cardinality(Spots(got[t], c)) + (IF d = c THEN 1 ELSE 0)
    BY <1>0, <2>1, SpotsAppend
  <2>4. refs'[c] = refs[c] + (IF d = c THEN 1 ELSE 0)
    BY <1>0, <1>1 DEF TypeInv, TypeOK
  <2>5. /\ IsFiniteSet(Places(got', c)) /\ Cardinality(Places(got', c)) \in Nat
        /\ Cardinality(Spots(got[t], c)) \in Nat
        /\ Cardinality(Places(got', c)) + Cardinality(Spots(got[t], c))
             = Cardinality(Places(got, c)) + Cardinality(Spots(Append(got[t], d), c))
    BY <2>2, GotChange
  <2> QED
    BY <1>0, <2>3, <2>4, <2>5, ClaimsNat DEF Claims
<1>2. CASE got' = [got EXCEPT ![t] = <<>>] /\ UNCHANGED refs
  BY <1>0, <1>2, BackedReturn
<1> QED
  BY <1>1, <1>2 DEF PutChunk, Return

LEMMA BackedEnd ==
    ASSUME TypeInv, BackedInv, NEW t \in Tasks, EndOfFile(t)
    PROVE  BackedInv'
<1>1. CASE Goto(t, "commit") /\ UNCHANGED held
  BY <1>1, BackedFrame DEF EndOfFile, Goto
<1>2. CASE step[t] = "hold" /\ held' = [held EXCEPT ![t] = got[t]] /\ Return(t, missed)
  <2>1. held[t] = None /\ got[t] \in ChunkSeq /\ UNCHANGED <<refs, manifest>>
        /\ got' = [got EXCEPT ![t] = <<>>]
    BY <1>2 DEF TypeInv, TypeOK, InHand, EndOfFile, Return
  <2> SUFFICES ASSUME NEW c \in Chunks
               PROVE  /\ IsFiniteSet(Places(got', c)) /\ IsFiniteSet(Places(held', c))
                      /\ refs[c] >= Claims(c)'
    BY <2>1 DEF BackedInv, Counted, ManifestBacked
  <2>2. Cardinality(Spots(<<>>, c)) = 0 /\ Cardinality(Spots(None, c)) = 0
    BY NoSpots
  <2>3. /\ IsFiniteSet(Places(got', c)) /\ Cardinality(Places(got', c)) \in Nat
        /\ Cardinality(Places(got', c)) + Cardinality(Spots(got[t], c))
             = Cardinality(Places(got, c)) + Cardinality(Spots(<<>>, c))
    BY <2>1, GotChange, EmptySeq
  <2>4. /\ IsFiniteSet(Places(held', c)) /\ Cardinality(Places(held', c)) \in Nat
        /\ Cardinality(Spots(got[t], c)) \in Nat
        /\ Cardinality(Places(held', c)) + Cardinality(Spots(None, c))
             = Cardinality(Places(held, c)) + Cardinality(Spots(got[t], c))
    BY <1>2, <2>1, HeldChange
  <2> QED
    BY <2>1, <2>2, <2>3, <2>4, ClaimsNat DEF Claims
<1> QED
  BY <1>1, <1>2 DEF EndOfFile

LEMMA BackedCommit ==
    ASSUME TypeInv, BackedInv, NEW t \in Tasks, CommitManifest(t)
    PROVE  BackedInv'
<1>0. UNCHANGED <<refs, held>> /\ got' = [got EXCEPT ![t] = <<>>]
      /\ path[t] \in Paths /\ got[t] \in ChunkSeq
  BY DEF CommitManifest, Return, TypeInv, TypeOK, InHand, AtPath
<1>1. CASE manifest' = [manifest EXCEPT ![path[t]] = got[t]]
  <2> SUFFICES ASSUME NEW c \in Chunks
               PROVE  /\ IsFiniteSet(Places(got', c)) /\ IsFiniteSet(Places(manifest', c))
                      /\ refs[c] >= Claims(c)'
    BY <1>0 DEF BackedInv, Counted, ManifestBacked
  <2>2. Cardinality(Spots(<<>>, c)) = 0
    BY NoSpots
  <2>3. /\ IsFiniteSet(Places(got', c)) /\ Cardinality(Places(got', c)) \in Nat
        /\ Cardinality(Places(got', c)) + Cardinality(Spots(got[t], c))
             = Cardinality(Places(got, c)) + Cardinality(Spots(<<>>, c))
    BY <1>0, GotChange, EmptySeq
  <2>4. /\ IsFiniteSet(Places(manifest', c)) /\ Cardinality(Places(manifest', c)) \in Nat
        /\ Cardinality(Spots(got[t], c)) \in Nat
        /\ Cardinality(Spots(manifest[path[t]], c)) \in Nat
        /\ Cardinality(Places(manifest', c)) + Cardinality(Spots(manifest[path[t]], c))
             = Cardinality(Places(manifest, c)) + Cardinality(Spots(got[t], c))
    BY <1>0, <1>1, RowChange
  <2> QED
    BY <1>0, <2>2, <2>3, <2>4, ClaimsNat DEF Claims
<1>2. CASE UNCHANGED manifest
  BY <1>0, <1>2, BackedReturn
<1> QED
  BY <1>1, <1>2 DEF CommitManifest

LEMMA BackedRelease ==
    ASSUME TypeInv, BackedInv, NEW t \in Tasks, ReleaseChunk(t)
    PROVE  BackedInv'
<1>0. held[t] \in ChunkSeq /\ UNCHANGED <<manifest, got>>
  BY DEF ReleaseChunk, TypeInv, TypeOK, InHand
<1>1. CASE held' = [held EXCEPT ![t] = None] /\ UNCHANGED refs
  <2> SUFFICES ASSUME NEW c \in Chunks
               PROVE  IsFiniteSet(Places(held', c)) /\ refs[c] >= Claims(c)'
    BY <1>0, <1>1 DEF BackedInv, Counted, ManifestBacked
  <2>1. Cardinality(Spots(None, c)) = 0
    BY NoSpots
  <2>2. /\ IsFiniteSet(Places(held', c)) /\ Cardinality(Places(held', c)) \in Nat
        /\ Cardinality(Spots(held[t], c)) \in Nat
        /\ Cardinality(Places(held', c)) + Cardinality(Spots(held[t], c))
             = Cardinality(Places(held, c)) + Cardinality(Spots(None, c))
    BY <1>1, HeldChange
  <2> QED
    BY <1>0, <1>1, <2>1, <2>2, ClaimsNat DEF Claims
<1>2. CASE /\ held[t] # <<>>
           /\ refs[Head(held[t])] > 0
           /\ refs' = [refs EXCEPT ![Head(held[t])] = @ - 1]
           /\ held' = [held EXCEPT ![t] = Tail(@)]
  <2> SUFFICES ASSUME NEW c \in Chunks
               PROVE  IsFiniteSet(Places(held', c)) /\ refs'[c] >= Claims(c)'
    BY <1>0 DEF BackedInv, Counted, ManifestBacked
  <2>1. Tail(held[t]) \in ChunkSeq /\ Head(held[t]) \in Chunks
        /\ held' = [held EXCEPT ![t] = Tail(held[t])]
    BY <1>0, <1>2, SeqTail
  <2>2. Cardinality(Spots(held[t], c))
          = Cardinality(Spots(Tail(held[t]), c)) + (IF Head(held[t]) = c THEN 1 ELSE 0)
    BY <1>0, <1>2, SpotsTail
  <2>3. refs'[c] = refs[c] - (IF Head(held[t]) = c THEN 1 ELSE 0)
    BY <1>2, <2>1 DEF TypeInv, TypeOK
  <2>4. /\ IsFiniteSet(Places(held', c)) /\ Cardinality(Places(held', c)) \in Nat
        /\ Cardinality(Spots(Tail(held[t]), c)) \in Nat
        /\ Cardinality(Spots(held[t], c)) \in Nat
        /\ Cardinality(Places(held', c)) + Cardinality(Spots(held[t], c))
             = Cardinality(Places(held, c)) + Cardinality(Spots(Tail(held[t]), c))
    BY <2>1, HeldChange
  <2> QED
    BY <1>0, <2>2, <2>3, <2>4, ClaimsNat DEF Claims
<1> QED
  BY <1>1, <1>2 DEF ReleaseChunk

LEMMA BackedStep == TypeInv /\ BackedInv /\ [Next]_vars => BackedInv'
<1> SUFFICES ASSUME TypeInv, BackedInv, [Next]_vars PROVE BackedInv'
  OBVIOUS
<1>1. ASSUME NEW p \in Paths, Save(p) PROVE BackedInv'
  BY <1>1, BackedFrame DEF Save
<1>2. CASE Receive
  BY <1>2, BackedFrame DEF Receive
<1>3. ASSUME NEW t \in Callers, NEW op, NEW d \in BOOLEAN,
             Ingest(t) \/ Borrow(t) \/ Release(t) \/ ChangeFolder(t, op, d)
      PROVE  BackedInv'
  BY <1>3, BackedFrame DEF Ingest, Borrow, Release, ChangeFolder
<1>4. ASSUME NEW t \in Tasks, ListCached(t) \/ ListFill(t) PROVE BackedInv'
  <2>1. UNCHANGED <<refs, manifest, held>> /\ \E d : Decide(t, d)
    BY <1>4 DEF ListCached, ListFill
  <2>2. Listing(t)
    BY <1>4 DEF ListCached, ListFill, TypeInv, InHand
  <2>3. CASE UNCHANGED got
    BY <2>1, <2>3, BackedFrame
  <2>4. CASE got' = [got EXCEPT ![t] = <<>>]
    BY <2>1, <2>4, BackedReturn
  <2> QED
    BY <2>1, <2>2, <2>3, <2>4, Decided DEF Goto, Return
<1>5. ASSUME NEW t \in Tasks, ListRead(t) \/ Invalidate(t) PROVE BackedInv'
  BY <1>5, BackedFrame DEF ListRead, Invalidate
<1>6. ASSUME NEW t \in Tasks, Work(t) PROVE BackedInv'
  BY <1>4, <1>5, <1>6, BackedPut, BackedEnd, BackedCommit, BackedRelease DEF Work
<1>7. CASE Crash
  <2>1. UNCHANGED <<refs, manifest>>
        /\ \A f \in {held', got'} : \A x \in DOMAIN f : f[x] = None \/ f[x] = <<>>
    BY <1>7 DEF Crash
  <2> SUFFICES ASSUME NEW c \in Chunks
               PROVE  /\ IsFiniteSet(Places(got', c)) /\ IsFiniteSet(Places(held', c))
                      /\ refs[c] >= Claims(c)'
    BY <2>1 DEF BackedInv, Counted, ManifestBacked
  <2>2. \A f \in {held', got'} : IsFiniteSet(Places(f, c)) /\ Cardinality(Places(f, c)) = 0
    BY <2>1, NoPlaces
  <2> QED
    BY <2>1, <2>2, ClaimsNat DEF Claims
<1>8. CASE UNCHANGED vars
  BY <1>8, BackedFrame DEF vars
<1> QED
  BY <1>1, <1>2, <1>3, <1>6, <1>7, <1>8 DEF Next

LEMMA BackedInvariant == Spec => [](TypeInv /\ BackedInv)
BY TypeInit, TypeStep, BackedInit, BackedStep, PTL DEF Spec

\* Sharing is safe for any number of files, chunks and tasks: a chunk has at
\* least one reference for every place in a manifest that names it, whatever
\* ingests fail, manifests are released or overwritten, and crashes happen.
THEOREM SharingIsSafe == Spec => []ManifestBacked
<1>1. BackedInv => ManifestBacked
  BY DEF BackedInv
<1> QED
  BY BackedInvariant, <1>1, PTL

\* A manifest that is being released names only chunks with a reference:
\* Deduplicator::release of ingest_file's manifest never meets a chunk whose
\* refcount is gone, so it fails only when the store does.
ReleaseFindsChunks ==
    \A t \in Tasks : step[t] = "release" /\ held[t] # <<>> => refs[Head(held[t])] > 0

THEOREM ReleaseFinds == Spec => []ReleaseFindsChunks
<1>1. TypeInv /\ BackedInv => ReleaseFindsChunks
  <2> SUFFICES ASSUME TypeInv, BackedInv, NEW t \in Tasks, step[t] = "release",
                      held[t] # <<>>
               PROVE  refs[Head(held[t])] > 0
    BY DEF ReleaseFindsChunks
  <2>1. held[t] \in ChunkSeq /\ t \in DOMAIN held
    BY DEF TypeInv, TypeOK, InHand
  <2>2. Head(held[t]) \in Chunks /\ held[t] # None
    BY <2>1, SeqTail, EmptySeq
  <2> DEFINE c == Head(held[t])
  <2>3. 1 \in Spots(held[t], c)
    BY <2>1, <2>2 DEF Spots, ChunkSeq
  <2>4. Places(held, c) # {}
    <3>1. \E i \in Spots(held[t], c) : <<t, 1>> = <<t, i>>
      BY <2>3
    <3> HIDE DEF c
    <3>2. <<t, 1>> \in Places(held, c)
      BY <2>1, <3>1, PlacesAre
    <3> QED
      BY <3>2
  <2>5. Cardinality(Places(held, c)) > 0
    BY <2>2, <2>4, ClaimsNat, FS_EmptySet DEF BackedInv, Counted
  <2> QED
    BY <2>2, <2>5, ClaimsNat
<1> QED
  BY BackedInvariant, <1>1, PTL

-----------------------------------------------------------------------------
(* Manifests are up to date.                                               *)

\* A task is ingesting a file: from the event or the call to the row.
Busy(t, p) == path[t] = p /\ step[t] \in {"under", "config", "stats", "chunk", "commit"}

\* What was read so far agrees with a file of content d.
Agrees(s, d) == Len(s) <= Len(d) /\ \A i \in 1..Len(s) : s[i] = d[i]

\* Nothing is known of what a task that is ingesting p has read when a newer
\* event of p waits, another task is at p, or a write of p was not reported.
Doubtful == pending \cup clashed \cup unseen

Tracked ==
    \A p \in Stored \ (missed \cup clashed \cup unseen) :
        p \in pending \/ (\E t \in Tasks : Busy(t, p)) \/ manifest[p] = data[p]

FreshRead ==
    \A p \in Paths \ Doubtful, t \in Tasks : Busy(t, p) =>
        Agrees(got[t], data[p]) /\ (step[t] = "commit" => got[t] = data[p])

TrackInv == Tracked /\ FreshRead

LEMMA TrackInit == Init => TrackInv
<1> SUFFICES ASSUME Init PROVE TrackInv
  OBVIOUS
<1>1. Stored = {}
  BY DEF Init, Stored
<1>2. \A t \in Tasks, p \in Paths : ~Busy(t, p)
  BY DEF Init, Busy
<1> QED
  BY <1>1, <1>2 DEF TrackInv, Tracked, FreshRead

\* Nothing an ingest has read or written changes.
LEMMA TrackFrame ==
    ASSUME TrackInv, UNCHANGED <<data, pending, manifest, got, missed, clashed, unseen>>,
           \A t \in Tasks, p \in Paths : Busy(t, p)' <=> Busy(t, p),
           \A t \in Tasks, p \in Paths : Busy(t, p) => step'[t] = step[t]
    PROVE  TrackInv'
<1>1. Tracked'
  <2> SUFFICES ASSUME NEW p \in Stored \ (missed \cup clashed \cup unseen)
               PROVE  p \in pending \/ (\E t \in Tasks : Busy(t, p)') \/ manifest[p] = data[p]
    BY DEF Tracked, Stored
  <2> QED
    BY DEF TrackInv, Tracked, Stored
<1>2. FreshRead'
  <2> SUFFICES ASSUME NEW p \in Paths \ Doubtful, NEW t \in Tasks, Busy(t, p)'
               PROVE  Agrees(got[t], data[p]) /\ (step'[t] = "commit" => got[t] = data[p])
    BY DEF FreshRead, Doubtful, Agrees
  <2>1. Busy(t, p) /\ step'[t] = step[t]
    OBVIOUS
  <2> QED
    BY <2>1 DEF TrackInv, FreshRead
<1> QED
  BY <1>1, <1>2 DEF TrackInv

\* An ingest goes on; it ends only when all of the file was read.
LEMMA TrackGoto ==
    ASSUME TypeInv, TrackInv, NEW t \in Tasks,
           step[t] \in {"under", "config", "stats", "chunk"},
           NEW s \in {"config", "stats", "chunk", "commit"}, Goto(t, s),
           s = "commit" => Len(got[t]) >= Len(data[path[t]]),
           UNCHANGED <<data, pending, manifest, clashed, unseen>>
    PROVE  TrackInv'
<1>1. /\ UNCHANGED <<path, got, missed>>
      /\ \A u \in Tasks : step'[u] = IF u = t THEN s ELSE step[u]
  BY DEF Goto, TypeInv, TypeOK
<1>2. \A u \in Tasks, p \in Paths : Busy(u, p)' <=> Busy(u, p)
  BY <1>1 DEF Busy
<1>3. Tracked'
  BY <1>1, <1>2 DEF TrackInv, Tracked, Stored
<1>4. FreshRead'
  <2> SUFFICES ASSUME NEW p \in Paths \ Doubtful, NEW u \in Tasks, Busy(u, p)
               PROVE  Agrees(got[u], data[p]) /\ (step'[u] = "commit" => got[u] = data[p])
    BY <1>1, <1>2 DEF FreshRead, Doubtful, Agrees
  <2>1. Agrees(got[u], data[p]) /\ (step[u] = "commit" => got[u] = data[p])
    BY DEF TrackInv, FreshRead
  <2>2. CASE u = t /\ s = "commit"
    <3>1. path[u] = p /\ Len(got[u]) >= Len(data[p])
      BY <2>2 DEF Busy
    <3>2. got[u] \in Seq(Chunks) /\ data[p] \in Seq(Chunks)
      BY DEF TypeInv, TypeOK, ChunkSeq
    <3>3. Len(got[u]) = Len(data[p]) /\ \A i \in 1..Len(got[u]) : got[u][i] = data[p][i]
      BY <2>1, <3>1, <3>2 DEF Agrees
    <3>4. got[u] = data[p]
      BY <3>2, <3>3
    <3> QED
      BY <2>1, <3>4
  <2>3. CASE ~(u = t /\ s = "commit")
    BY <1>1, <2>1, <2>3
  <2> QED
    BY <2>2, <2>3
<1> QED
  BY <1>3, <1>4 DEF TrackInv

\* An ingest that gives up leaves its path among the misses.
LEMMA TrackReturn ==
    ASSUME TypeInv, TrackInv, NEW t \in Tasks, NEW m, Return(t, m),
           missed \subseteq m, \A p \in Paths : Busy(t, p) => p \in m,
           UNCHANGED <<data, pending, manifest, clashed, unseen>>
    PROVE  TrackInv'
<1>1. /\ missed' = m
      /\ \A u \in Tasks : u # t => /\ step'[u] = step[u]
                                   /\ path'[u] = path[u]
                                   /\ got'[u] = got[u]
      /\ step'[t] = "idle"
  BY DEF Return, TypeInv, TypeOK
<1>2. \A u \in Tasks, p \in Paths : Busy(u, p)' <=> u # t /\ Busy(u, p)
  BY <1>1 DEF Busy
<1>3. Tracked'
  <2> SUFFICES ASSUME NEW p \in Stored \ (m \cup clashed \cup unseen)
               PROVE  p \in pending \/ (\E u \in Tasks : Busy(u, p)') \/ manifest[p] = data[p]
    BY <1>1 DEF Tracked, Stored
  <2>1. p \in Paths /\ ~Busy(t, p)
    BY DEF Stored
  <2>2. p \in pending \/ (\E u \in Tasks : Busy(u, p)) \/ manifest[p] = data[p]
    BY DEF TrackInv, Tracked
  <2> QED
    BY <1>2, <2>1, <2>2
<1>4. FreshRead'
  <2> SUFFICES ASSUME NEW p \in Paths \ Doubtful, NEW u \in Tasks, Busy(u, p)'
               PROVE  Agrees(got'[u], data[p]) /\ (step'[u] = "commit" => got'[u] = data[p])
    BY DEF FreshRead, Doubtful, Agrees
  <2>1. Busy(u, p) /\ step'[u] = step[u] /\ got'[u] = got[u]
    BY <1>1, <1>2
  <2> QED
    BY <2>1 DEF TrackInv, FreshRead
<1> QED
  BY <1>3, <1>4 DEF TrackInv

\* An ingest begins: it will read what the file holds now.
LEMMA TrackBegin ==
    ASSUME TypeInv, TrackInv, NEW t \in Tasks, NEW p \in Paths,
           NEW s \in {"under", "config"}, BeginAt(t, p, s),
           pending' \subseteq pending, pending \subseteq pending' \cup {p},
           UNCHANGED <<data, manifest, got, missed>>
    PROVE  TrackInv'
<1>1. /\ step[t] = "idle" /\ step'[t] = s /\ path'[t] = p /\ got[t] = <<>>
      /\ \A u \in Tasks : u # t => step'[u] = step[u] /\ path'[u] = path[u]
  BY DEF BeginAt, TypeInv, TypeOK, InHand
<1>2. /\ clashed \subseteq clashed' /\ clashed' \subseteq clashed \cup {p}
      /\ (\E u \in Tasks : path[u] = p) => p \in clashed'
      /\ unseen' = unseen \ {p}
  BY DEF BeginAt, Ingesting
<1>3. \A u \in Tasks, q \in Paths : Busy(u, q)' <=> Busy(u, q) \/ (u = t /\ q = p)
  BY <1>1 DEF Busy
<1>4. Tracked'
  <2> SUFFICES ASSUME NEW q \in Stored \ (missed \cup clashed' \cup unseen')
               PROVE  q \in pending' \/ (\E u \in Tasks : Busy(u, q)') \/ manifest[q] = data[q]
    BY DEF Tracked, Stored
  <2>1. q \in Paths
    BY DEF Stored
  <2>2. CASE q = p
    BY <1>3, <2>1, <2>2
  <2>3. CASE q # p
    <3>1. q \in pending \/ (\E u \in Tasks : Busy(u, q)) \/ manifest[q] = data[q]
      BY <1>2, <2>3 DEF TrackInv, Tracked
    <3> QED
      BY <1>3, <2>1, <2>3, <3>1
  <2> QED
    BY <2>2, <2>3
<1>5. FreshRead'
  <2> SUFFICES ASSUME NEW q \in Paths \ Doubtful', NEW u \in Tasks, Busy(u, q)'
               PROVE  Agrees(got[u], data[q]) /\ (step'[u] = "commit" => got[u] = data[q])
    BY DEF FreshRead, Agrees
  <2>1. CASE q = p
    <3>1. path[u] # p
      BY <1>2, <2>1 DEF Doubtful
    <3>2. u = t
      BY <1>3, <2>1, <3>1 DEF Busy
    <3>3. data[q] \in Seq(Chunks)
      BY DEF TypeInv, TypeOK, ChunkSeq
    <3> QED
      BY <1>1, <3>2, <3>3 DEF Agrees
  <2>2. CASE q # p
    <3>1. q \notin Doubtful /\ Busy(u, q) /\ u # t
      BY <1>1, <1>2, <1>3, <2>2 DEF Doubtful, Busy
    <3> QED
      BY <1>1, <3>1 DEF TrackInv, FreshRead
  <2> QED
    BY <2>1, <2>2
<1> QED
  BY <1>4, <1>5 DEF TrackInv

LEMMA TrackSave ==
    ASSUME TypeInv, TrackInv, NEW p \in Paths, Save(p)
    PROVE  TrackInv'
<1>1. /\ UNCHANGED <<manifest, step, path, got, missed, clashed>>
      /\ \A q \in Paths : q # p => data'[q] = data[q]
      /\ pending \subseteq pending' /\ unseen \subseteq unseen'
      /\ p \in pending' \/ p \in unseen'
      /\ \A q \in Paths : q # p => (q \in pending' <=> q \in pending)
                                   /\ (q \in unseen' <=> q \in unseen)
  BY DEF Save, TypeInv, TypeOK
<1>2. \A u \in Tasks, q \in Paths : Busy(u, q)' <=> Busy(u, q)
  BY <1>1 DEF Busy
<1>3. Tracked'
  <2> SUFFICES ASSUME NEW q \in Paths, q \in Stored', q \notin missed \cup clashed \cup unseen'
               PROVE  q \in pending' \/ (\E u \in Tasks : Busy(u, q)) \/ manifest[q] = data'[q]
    BY <1>1, <1>2 DEF Tracked, Stored
  <2>1. CASE q = p
    BY <1>1, <2>1
  <2>2. CASE q # p
    <3>1. q \in Stored \ (missed \cup clashed \cup unseen) /\ data'[q] = data[q]
      BY <1>1, <2>2 DEF Stored
    <3> QED
      BY <1>1, <2>2, <3>1 DEF TrackInv, Tracked
  <2> QED
    BY <2>1, <2>2
<1>4. FreshRead'
  <2> SUFFICES ASSUME NEW q \in Paths \ Doubtful', NEW u \in Tasks, Busy(u, q)
               PROVE  Agrees(got[u], data'[q]) /\ (step[u] = "commit" => got[u] = data'[q])
    BY <1>1, <1>2 DEF FreshRead, Agrees
  <2>1. q # p /\ q \notin Doubtful /\ data'[q] = data[q]
    BY <1>1 DEF Doubtful
  <2> QED
    BY <2>1 DEF TrackInv, FreshRead
<1> QED
  BY <1>3, <1>4 DEF TrackInv

\* A chunk is read and put: it is the next one of the file, unless the file
\* has changed since.
LEMMA TrackPut ==
    ASSUME TypeInv, TrackInv, NEW t \in Tasks, PutChunk(t)
    PROVE  TrackInv'
<1>0. UNCHANGED <<data, pending, manifest, clashed, unseen>>
  BY DEF PutChunk, files
<1>1. CASE Return(t, IF step[t] = "chunk" THEN Missed(t) ELSE missed)
  <2>1. \A p \in Paths : Busy(t, p) => step[t] = "chunk" /\ p \in Missed(t)
    BY DEF Busy, Missed, PutChunk, Chunking
  <2> DEFINE m == IF step[t] = "chunk" THEN Missed(t) ELSE missed
  <2>2. missed \subseteq m /\ \A p \in Paths : Busy(t, p) => p \in m
    BY <2>1 DEF Missed
  <2> HIDE DEF m
  <2> QED
    BY <1>0, <1>1, <2>2, TrackReturn DEF m
<1>2. ASSUME got' = [got EXCEPT ![t] = Append(@, data[path[t]][Len(got[t]) + 1])],
             Len(got[t]) + 1 <= Len(data[path[t]]), UNCHANGED <<step, path, missed>>
      PROVE  TrackInv'
  <2>1. \A u \in Tasks, p \in Paths : Busy(u, p)' <=> Busy(u, p)
    BY <1>2 DEF Busy
  <2>2. Tracked'
    BY <1>0, <1>2, <2>1 DEF TrackInv, Tracked, Stored
  <2>3. FreshRead'
    <3> SUFFICES ASSUME NEW p \in Paths \ Doubtful, NEW u \in Tasks, Busy(u, p)
                 PROVE  Agrees(got'[u], data[p]) /\ (step[u] = "commit" => got'[u] = data[p])
      BY <1>0, <1>2, <2>1 DEF FreshRead, Doubtful, Agrees
    <3>1. Agrees(got[u], data[p]) /\ (step[u] = "commit" => got[u] = data[p])
      BY DEF TrackInv, FreshRead
    <3>2. CASE u = t
      <4>1. path[t] = p /\ step[t] # "commit"
        BY <3>2 DEF Busy, PutChunk, Chunking
      <4>2. got[t] \in Seq(Chunks) /\ data[p] \in Seq(Chunks) /\ t \in DOMAIN got
        BY DEF TypeInv, TypeOK, ChunkSeq
      <4> DEFINE n == Len(got[t]) + 1
      <4>3. data[p][n] \in Chunks
        BY <1>2, <4>1, <4>2
      <4>4. got'[t] = Append(got[t], data[p][n])
        BY <1>2, <4>1, <4>2
      <4>5. /\ Len(got'[t]) = n
            /\ \A i \in 1..n : got'[t][i] = IF i = n THEN data[p][n] ELSE got[t][i]
        BY <4>2, <4>3, <4>4
      <4>6. Agrees(got'[t], data[p])
        BY <1>2, <3>1, <3>2, <4>1, <4>2, <4>5 DEF Agrees
      <4> QED
        BY <3>2, <4>1, <4>6
    <3>3. CASE u # t
      <4>1. got'[u] = got[u]
        BY <1>2, <3>3 DEF TypeInv, TypeOK
      <4> QED
        BY <3>1, <4>1
    <3> QED
      BY <3>2, <3>3
  <2> QED
    BY <2>2, <2>3 DEF TrackInv
<1> QED
  BY <1>1, <1>2 DEF PutChunk

LEMMA TrackCommit ==
    ASSUME TypeInv, TrackInv, NEW t \in Tasks, CommitManifest(t)
    PROVE  TrackInv'
<1>0. UNCHANGED <<data, pending, clashed, unseen>> /\ step[t] = "commit" /\ path[t] \in Paths
  BY DEF CommitManifest, files, TypeInv, TypeOK, InHand, AtPath
<1>1. CASE Return(t, Missed(t)) /\ UNCHANGED manifest
  BY <1>0, <1>1, TrackReturn DEF Missed, Busy
<1>2. CASE manifest' = [manifest EXCEPT ![path[t]] = got[t]] /\ Return(t, Served(t))
  <2>1. /\ missed' = missed \ {path[t]}
        /\ \A u \in Tasks : u # t => /\ step'[u] = step[u]
                                     /\ path'[u] = path[u]
                                     /\ got'[u] = got[u]
        /\ step'[t] = "idle"
    BY <1>2 DEF Return, Served, TypeInv, TypeOK
  <2>2. \A u \in Tasks, p \in Paths : Busy(u, p)' <=> u # t /\ Busy(u, p)
    BY <2>1 DEF Busy
  <2>3. Tracked'
    <3> SUFFICES ASSUME NEW p \in Stored, p \notin missed' \cup clashed \cup unseen
                 PROVE  p \in pending \/ (\E u \in Tasks : Busy(u, p)') \/ manifest'[p] = data[p]
      BY <1>0 DEF Tracked, Stored
    <3>0. p \in Paths
      BY DEF Stored
    <3>1. CASE p = path[t] /\ p \notin pending
      <4>1. got[t] = data[p]
        BY <1>0, <3>0, <3>1 DEF TrackInv, FreshRead, Doubtful, Busy
      <4> QED
        BY <1>2, <3>0, <3>1, <4>1 DEF TypeInv, TypeOK
    <3>2. CASE p # path[t]
      <4>1. p \in pending \/ (\E u \in Tasks : Busy(u, p)) \/ manifest[p] = data[p]
        BY <2>1, <3>2 DEF TrackInv, Tracked
      <4>2. manifest'[p] = manifest[p] /\ ~Busy(t, p)
        BY <1>2, <3>0, <3>2 DEF TypeInv, TypeOK, Busy
      <4> QED
        BY <2>2, <3>0, <4>1, <4>2
    <3> QED
      BY <3>1, <3>2
  <2>4. FreshRead'
    <3> SUFFICES ASSUME NEW p \in Paths \ Doubtful, NEW u \in Tasks, Busy(u, p)'
                 PROVE  Agrees(got'[u], data[p]) /\ (step'[u] = "commit" => got'[u] = data[p])
      BY <1>0 DEF FreshRead, Doubtful, Agrees
    <3>1. Busy(u, p) /\ step'[u] = step[u] /\ got'[u] = got[u]
      BY <2>1, <2>2
    <3> QED
      BY <3>1 DEF TrackInv, FreshRead
  <2> QED
    BY <2>3, <2>4 DEF TrackInv
<1> QED
  BY <1>1, <1>2 DEF CommitManifest

LEMMA TrackStep == TypeInv /\ TrackInv /\ [Next]_vars => TrackInv'
<1> SUFFICES ASSUME TypeInv, TrackInv, [Next]_vars PROVE TrackInv'
  OBVIOUS
<1>1. ASSUME NEW p \in Paths, Save(p) PROVE TrackInv'
  BY <1>1, TrackSave
<1>2. CASE Receive
  <2>1. PICK p \in pending : BeginAt(Loop, p, "under") /\ pending' = pending \ {p}
    BY <1>2 DEF Receive
  <2>2. p \in Paths /\ Loop \in Tasks /\ UNCHANGED <<data, manifest, got, missed>>
    BY <1>2, <2>1 DEF TypeInv, TypeOK, Tasks, Receive
  <2> QED
    BY <2>1, <2>2, TrackBegin
<1>3. ASSUME NEW t \in Callers, Ingest(t) PROVE TrackInv'
  <2>1. PICK p \in Stored : BeginAt(t, p, "config")
    BY <1>3 DEF Ingest
  <2>2. p \in Paths /\ t \in Tasks /\ UNCHANGED <<data, pending, manifest, got, missed>>
    BY <1>3 DEF Stored, Tasks, Ingest, files
  <2> QED
    BY <2>1, <2>2, TrackBegin
<1>4. ASSUME NEW t \in Callers, NEW op, NEW d \in BOOLEAN,
             Borrow(t) \/ Release(t) \/ ChangeFolder(t, op, d)
      PROVE  TrackInv'
  <2>1. /\ UNCHANGED <<data, pending, manifest, got, missed, clashed, unseen>>
        /\ t \in Tasks /\ step[t] = "idle"
        /\ step'[t] \in {"hold", "release", "invalidate"}
        /\ \A u \in Tasks : u # t => step'[u] = step[u] /\ path'[u] = path[u]
    BY <1>4 DEF Borrow, Release, ChangeFolder, Tasks, files, TypeInv, TypeOK
  <2> QED
    BY <2>1, TrackFrame DEF Busy
<1>5. ASSUME NEW t \in Tasks, ListCached(t) \/ ListFill(t) PROVE TrackInv'
  <2>1. Listing(t) /\ UNCHANGED <<data, pending, manifest, clashed, unseen>>
        /\ \E d : Decide(t, d)
    BY <1>5 DEF ListCached, ListFill, files, TypeInv, InHand
  <2>2. ASSUME NEW s \in {"config", "stats", "chunk"}, Goto(t, s) PROVE TrackInv'
    BY <2>1, <2>2, TrackGoto DEF Listing
  <2>3. CASE Return(t, Missed(t))
    BY <2>1, <2>3, TrackReturn DEF Missed, Busy
  <2> QED
    BY <2>1, <2>2, <2>3, Decided
<1>6. ASSUME NEW t \in Tasks, ListRead(t) \/ Invalidate(t) \/ ReleaseChunk(t)
      PROVE  TrackInv'
  <2>1. /\ UNCHANGED <<data, pending, manifest, path, got, missed, clashed, unseen>>
        /\ \/ UNCHANGED step
           \/ /\ step[t] \in {"invalidate", "release"}
              /\ step' = [step EXCEPT ![t] = "idle"]
    BY <1>6 DEF ListRead, Invalidate, ReleaseChunk, files
  <2> QED
    BY <2>1, TrackFrame DEF Busy, TypeInv, TypeOK
<1>7. ASSUME NEW t \in Tasks, EndOfFile(t) PROVE TrackInv'
  <2>1. /\ UNCHANGED <<data, pending, manifest, clashed, unseen>>
        /\ Len(got[t]) >= Len(data[path[t]])
    BY <1>7 DEF EndOfFile, files
  <2>2. CASE step[t] = "chunk" /\ Goto(t, "commit")
    BY <2>1, <2>2, TrackGoto
  <2>3. CASE step[t] = "hold" /\ Return(t, missed)
    BY <2>1, <2>3, TrackReturn DEF Busy
  <2> QED
    BY <1>7, <2>2, <2>3 DEF EndOfFile
<1>8. ASSUME NEW t \in Tasks, Work(t) PROVE TrackInv'
  BY <1>5, <1>6, <1>7, <1>8, TrackPut, TrackCommit DEF Work
<1>9. CASE Crash
  <2>1. /\ UNCHANGED <<data, manifest, clashed, unseen>> /\ pending \subseteq missed'
        /\ missed \subseteq missed' /\ pending' = {}
        /\ \A t \in Tasks : path[t] # None => path[t] \in missed'
        /\ \A t \in Tasks : step'[t] = "idle"
    BY <1>9 DEF Crash
  <2>2. \A t \in Tasks, p \in Paths : ~Busy(t, p)' /\ (Busy(t, p) => p \in missed')
    BY <2>1, ManagedConstants DEF Busy
  <2>3. FreshRead'
    BY <2>2 DEF FreshRead
  <2>4. Tracked'
    <3> SUFFICES ASSUME NEW p \in Stored, p \notin missed' \cup clashed \cup unseen
                 PROVE  manifest[p] = data[p]
      BY <2>1 DEF Tracked, Stored
    <3>1. p \in Paths /\ p \notin pending /\ ~\E t \in Tasks : Busy(t, p)
      BY <2>1, <2>2 DEF Stored
    <3> QED
      BY <2>1, <3>1 DEF TrackInv, Tracked
  <2> QED
    BY <2>3, <2>4 DEF TrackInv
<1>10. CASE UNCHANGED vars
  BY <1>10, TrackFrame DEF vars, Busy
<1> QED
  BY <1>1, <1>2, <1>3, <1>4, <1>8, <1>9, <1>10 DEF Next

\* A file that no event waits for and no task is at has a manifest of exactly
\* its content, unless its last ingest was refused or failed, two tasks were
\* at it at once, or a write of it was not reported: whatever is rewritten
\* while ManagedFolderEngine::ingest reads it, the manifest written from a
\* half-changed file is never the last word.  ManifestCatchesUp adds that the
\* tasks get that far.
CaughtUp ==
    \A p \in Stored \ (missed \cup clashed \cup unseen \cup pending) :
        (\A t \in Tasks : ~Ingesting(t, p)) => manifest[p] = data[p]

THEOREM SettledIsCaughtUp == Spec => []CaughtUp
<1>1. TrackInv => CaughtUp
  BY DEF TrackInv, Tracked, CaughtUp, Busy, Ingesting
<1>2. Spec => []TrackInv
  BY TypeInit, TypeStep, TrackInit, TrackStep, PTL DEF Spec
<1> QED
  BY <1>1, <1>2, PTL

(* HardLinks: type correctness.                                            *)

LEMMA LinkTypeInit == LinkInit => LinkTypes
<1> SUFFICES ASSUME LinkInit PROVE LinkTypes
  OBVIOUS
<1>1. acts \in 0..MaxActs
  BY LinkConstants DEF LinkInit
<1>2. disturbed \in BOOLEAN
  BY DEF LinkInit
<1> QED
  BY <1>1, <1>2 DEF LinkInit, LinkTypes, Stages, Name, Content

\* What the user does keeps the types.
LEMMA LinkTypeUser ==
    ASSUME LinkTypes, NEW p \in Paths,
           Delete(p) \/ \E c \in Hashes : WriteInPlace(p, c) \/ SaveNew(p, c)
    PROVE  LinkTypes'
<1>a. PICK ps : UserActs(ps)
  BY DEF WriteInPlace, SaveNew, Delete
<1>b. disturbed' \in BOOLEAN
  BY <1>a, Zenon DEF UserActs
<1>c. acts' \in 0..MaxActs
  BY <1>a, LinkConstants DEF UserActs, LinkTypes
<1>d. UNCHANGED <<row, stage, local, hash, left, other>>
  BY <1>a DEF UserActs, work
<1>1. ASSUME NEW c \in Hashes, WriteInPlace(p, c) PROVE LinkTypes'
  BY <1>1, <1>b, <1>c, <1>d DEF WriteInPlace, LinkTypes, Name, Content
<1>2. ASSUME NEW c \in Hashes, SaveNew(p, c) PROVE LinkTypes'
  BY <1>2, <1>b, <1>c, <1>d DEF SaveNew, LinkTypes, Name, Content, Free
<1>3. CASE Delete(p)
  BY <1>3, <1>b, <1>c, <1>d DEF Delete, LinkTypes, Name, Content
<1> QED
  BY <1>1, <1>2, <1>3

\* Giving up or finishing an attempt keeps the types.
LEMMA LinkTypeDone ==
    ASSUME LinkTypes, NEW t \in Linkers, Done(t),
           UNCHANGED <<bytes, row, acts, want, disturbed, stranded>>,
           dir' \in [Paths -> Name], aside' \in [Paths -> Name]
    PROVE  LinkTypes'
BY LinkConstants DEF LinkTypes, Done, Stages, Content

\* A step of a task keeps the types.
LEMMA LinkTypeLink ==
    ASSUME LinkTypes, NEW t \in Linkers, Link(t)
    PROVE  LinkTypes'
<1> USE DEF Advance, names
<1>1. CASE Match(t)
  <2>1. CASE Done(t)
    BY <1>1, <2>1, LinkTypeDone DEF Match, LinkTypes
  <2>2. CASE Advance(t, "siblings") /\ UNCHANGED <<local, hash, left, other>>
    BY <1>1, <2>2 DEF Match, LinkTypes, Stages
  <2> QED
    BY <1>1, <2>1, <2>2 DEF Match
<1>2. CASE WholeFileSiblings(t)
  BY <1>2 DEF WholeFileSiblings, LinkTypes, Stages
<1>3. CASE TrySibling(t)
  <2>1. CASE Done(t)
    BY <1>3, <2>1, LinkTypeDone DEF TrySibling, LinkTypes
  <2>2. CASE \E q \in left[t] :
               /\ left' = [left EXCEPT ![t] = @ \ {q}]
               /\ other' = [other EXCEPT ![t] = q]
               /\ Advance(t, IF Read(dir[q]) = hash[t] THEN "check" ELSE "try")
               /\ UNCHANGED <<local, hash>>
    BY <1>3, <2>2 DEF TrySibling, LinkTypes, Stages
  <2> QED
    BY <1>3, <2>1, <2>2 DEF TrySibling
<1>4. CASE Check(t)
  <2>1. CASE Done(t)
    BY <1>4, <2>1, LinkTypeDone DEF Check, LinkTypes
  <2>2. CASE (Advance(t, "try") \/ Advance(t, "rename")) /\ UNCHANGED <<local, hash, left, other>>
    BY <1>4, <2>2 DEF Check, LinkTypes, Stages
  <2> QED
    BY <1>4, <2>1, <2>2 DEF Check
<1>5. CASE RenameAside(t)
  BY <1>5, LinkConstants DEF RenameAside, LinkTypes, Stages, Name
<1>6. CASE HardLink(t)
  BY <1>6 DEF HardLink, LinkTypes, Stages, Name
<1>7. CASE RemoveAside(t)
  <2>1. aside' \in [Paths -> Name]
    BY <1>7 DEF RemoveAside, LinkTypes, Name
  <2> QED
    BY <1>7, <2>1, LinkTypeDone DEF RemoveAside, LinkTypes
<1>8. CASE Restore(t)
  BY <1>8 DEF Restore, LinkTypes, Stages, Name
<1> QED
  BY <1>1, <1>2, <1>3, <1>4, <1>5, <1>6, <1>7, <1>8 DEF Link

LEMMA LinkTypeStep == LinkTypes /\ [LinkNext]_linkVars => LinkTypes'
<1> SUFFICES ASSUME LinkTypes, [LinkNext]_linkVars PROVE LinkTypes'
  OBVIOUS
<1>1. ASSUME NEW p \in Paths, NEW c \in Hashes, WriteInPlace(p, c) \/ SaveNew(p, c)
      PROVE  LinkTypes'
  BY <1>1, LinkTypeUser
<1>2. ASSUME NEW p \in Paths, Delete(p) PROVE LinkTypes'
  BY <1>2, LinkTypeUser
<1>3. ASSUME NEW t \in Linkers, NEW p \in Paths, Ingested(t, p) PROVE LinkTypes'
  <2>1. Read(dir[p]) \in Content
    BY DEF LinkTypes, Read, Name, Content
  <2>2. disturbed' \in BOOLEAN
    BY <1>3, Zenon DEF Ingested
  <2>3. stage[t] = "idle" /\ local' = [local EXCEPT ![t] = p]
        /\ stage' = [stage EXCEPT ![t] = "match"] /\ UNCHANGED <<left, other>>
    BY <1>3 DEF Ingested, Advance
  <2>4. \A u \in Linkers :
          /\ local'[u] = None <=> stage'[u] = "idle"
          /\ local'[u] \notin left'[u]
    BY <2>3, LinkConstants DEF LinkTypes
  <2> QED
    BY <1>3, <2>1, <2>2, <2>4, LinkConstants DEF LinkTypes, Ingested, Advance, Stages, names
<1>4. ASSUME NEW t \in Linkers, Link(t) PROVE LinkTypes'
  BY <1>4, LinkTypeLink
<1>5. CASE Die
  BY <1>5 DEF LinkTypes, Die, Stages, names, Content
<1>6. CASE UNCHANGED linkVars
  BY <1>6 DEF LinkTypes, linkVars
<1> QED
  BY <1>1, <1>2, <1>3, <1>4, <1>5, <1>6 DEF LinkNext

\* Every step of the user, of an ingest and of a crash keeps the types, and a
\* task never tries to link a path to itself (whole_file_siblings).
THEOREM LinksTyped == LinkSpec => []LinkTypes
BY LinkTypeInit, LinkTypeStep, PTL DEF LinkSpec

-----------------------------------------------------------------------------
(* The invariant behind BytesKept and NameKept.                            *)

\* Every name leads to a file, and a task works for a content.
Named ==
    /\ \A p \in Paths : dir[p] # None => bytes[dir[p]] \in Hashes
    /\ \A p \in Paths : aside[p] # None => bytes[aside[p]] \in Hashes
    /\ \A t \in Linkers : stage[t] # "idle" => hash[t] \in Hashes

\* One ingest per path.
Alone ==
    \A t, u \in Linkers : t # u /\ local[t] = local[u] => local[t] = None

\* A path has its file; without a name it has it aside.
Kept ==
    /\ \A p \in Paths : dir[p] # None => want[p] = bytes[dir[p]]
    /\ \A p \in Paths : dir[p] = None /\ want[p] # None =>
                         aside[p] # None /\ want[p] = bytes[aside[p]]

\* The comparisons still hold.
Compared ==
    /\ \A t \in Linkers : Linking(t) => want[local[t]] = hash[t]
    /\ \A t \in Linkers : stage[t] \in {"check", "rename", "link"} =>
                         want[other[t]] = hash[t]

\* Where the name of a path is while it is linked.
Away ==
    /\ \A t \in Linkers : stage[t] \in {"link", "restore"} => dir[local[t]] = None
    /\ \A t \in Linkers : stage[t] = "remove" => dir[local[t]] # None
    /\ \A p \in Paths : dir[p] = None /\ want[p] # None =>
          \/ p \in stranded
          \/ \E t \in Linkers : local[t] = p /\ stage[t] \in {"link", "restore"}

LinkInv ==
    /\ LinkTypes
    /\ Named
    /\ ~disturbed => Alone /\ Kept /\ Compared /\ Away

LEMMA InvInit == LinkInit => LinkInv
<1> SUFFICES ASSUME LinkInit PROVE LinkInv
  OBVIOUS
<1>1. LinkTypes
  BY LinkTypeInit
<1>2. Named
  BY DEF LinkInit, Named
<1>3. Alone /\ Kept /\ Compared /\ Away
  BY DEF LinkInit, Alone, Kept, Compared, Away, Linking
<1> QED
  BY <1>1, <1>2, <1>3 DEF LinkInv

\* An action of the user on the paths ps that does not disturb a link leaves
\* the paths of every task that is linking alone.
LEMMA Undisturbed ==
    ASSUME NEW ps, UserActs(ps), ~disturbed'
    PROVE  /\ ~disturbed
           /\ \A t \in Linkers : Linking(t) => local[t] \notin ps /\ other[t] \notin ps
           /\ UNCHANGED <<row, stage, local, hash, left, other>>
<1>1. ~disturbed /\ ~\E t \in Linkers : Linking(t) /\ {local[t], other[t]} \cap ps # {}
  BY Zenon DEF UserActs
<1> QED
  BY <1>1 DEF UserActs, work

\* An in-place write.
LEMMA LinkWrite ==
    ASSUME LinkInv, NEW p \in Paths, NEW c \in Hashes, WriteInPlace(p, c)
    PROVE  LinkInv'
<1> DEFINE shared == {q \in Paths : want[q] # None /\ Holds(q) = dir[p]}
<1>1. LinkTypes'
  BY LinkTypeUser DEF LinkInv
<1>2. /\ dir[p] \in Inodes /\ bytes' = [bytes EXCEPT ![dir[p]] = c]
      /\ dir' = dir /\ aside' = aside /\ stranded' = stranded
      /\ UserActs(shared)
      /\ want' = [q \in Paths |-> IF q \in shared THEN c ELSE want[q]]
  BY DEF WriteInPlace, LinkInv, LinkTypes, Name
<1>3. UNCHANGED <<stage, local, hash, left, other>>
  BY <1>2 DEF UserActs, work
<1>4. Named'
  BY <1>2, <1>3 DEF LinkInv, Named, LinkTypes, Name
<1>5. ASSUME ~disturbed' PROVE Alone' /\ Kept' /\ Compared' /\ Away'
  <2>1. /\ ~disturbed
        /\ \A t \in Linkers : Linking(t) => local[t] \notin shared /\ other[t] \notin shared
    BY <1>2, <1>5, Undisturbed
  <2>2. Alone /\ Kept /\ Compared /\ Away
    BY <2>1 DEF LinkInv
  <2>3. Alone'
    BY <1>3, <2>2 DEF Alone
  <2>4. Kept'
    <3>1. ASSUME NEW q \in Paths, dir[q] # None PROVE want'[q] = bytes'[dir[q]]
      <4>1. want[q] # None /\ want[q] = bytes[dir[q]] /\ dir[q] \in Inodes
        BY <2>2, <3>1, LinkConstants DEF Kept, LinkInv, Named, LinkTypes, Name
      <4> QED
        BY <1>2, <3>1, <4>1 DEF Holds, LinkInv, LinkTypes
    <3>2. ASSUME NEW q \in Paths, dir[q] = None, want'[q] # None
          PROVE  aside[q] # None /\ want'[q] = bytes'[aside[q]]
      <4>1. want[q] # None
        BY <1>2, <3>2
      <4>2. aside[q] # None /\ want[q] = bytes[aside[q]] /\ aside[q] \in Inodes
        BY <2>2, <3>2, <4>1 DEF Kept, LinkInv, LinkTypes, Name
      <4> QED
        BY <1>2, <3>2, <4>1, <4>2 DEF Holds, LinkInv, LinkTypes
    <3> QED
      BY <1>2, <3>1, <3>2 DEF Kept
  <2>5. Compared'
    <3>1. ASSUME NEW t \in Linkers, Linking(t) PROVE want'[local[t]] = hash[t]
      BY <1>2, <2>1, <2>2, <3>1 DEF Compared, LinkInv, LinkTypes, Linking
    <3>2. ASSUME NEW t \in Linkers, stage[t] \in {"check", "rename", "link"}
          PROVE  want'[other[t]] = hash[t]
      <4>1. Linking(t)
        BY <3>2 DEF Linking
      <4> QED
        BY <1>2, <2>1, <2>2, <3>2, <4>1 DEF Compared, LinkInv, LinkTypes
    <3> QED
      BY <1>3, <3>1, <3>2 DEF Compared, Linking
  <2>6. Away'
    <3>1. \A q \in Paths : want'[q] # None => want[q] # None
      BY <1>2
    <3> QED
      BY <1>2, <1>3, <2>2, <3>1 DEF Away
  <2> QED
    BY <2>3, <2>4, <2>5, <2>6
<1> QED
  BY <1>1, <1>4, <1>5 DEF LinkInv

\* A new file under a path.
LEMMA LinkSave ==
    ASSUME LinkInv, NEW p \in Paths, NEW c \in Hashes, SaveNew(p, c)
    PROVE  LinkInv'
<1>1. LinkTypes'
  BY LinkTypeUser DEF LinkInv
<1>2. PICK i \in Inodes :
        /\ \A q \in Paths : dir[q] # i /\ aside[q] # i
        /\ dir' = [dir EXCEPT ![p] = i]
        /\ bytes' = [bytes EXCEPT ![i] = c]
  BY DEF SaveNew, Free
<1>3. /\ want' = [want EXCEPT ![p] = c] /\ stranded' = stranded \ {p}
      /\ aside' = aside /\ UserActs({p}) /\ i # None
  BY LinkConstants DEF SaveNew
<1>4. UNCHANGED <<stage, local, hash, left, other>>
  BY <1>3 DEF UserActs, work
<1>5. Named'
  BY <1>2, <1>3, <1>4 DEF LinkInv, Named, LinkTypes, Name
<1>6. ASSUME ~disturbed' PROVE Alone' /\ Kept' /\ Compared' /\ Away'
  <2>1. ~disturbed /\ \A t \in Linkers : Linking(t) => local[t] # p /\ other[t] # p
    BY <1>3, <1>6, Undisturbed
  <2>2. Alone /\ Kept /\ Compared /\ Away
    BY <2>1 DEF LinkInv
  <2>3. Alone'
    BY <1>4, <2>2 DEF Alone
  <2>4. Kept'
    BY <1>2, <1>3, <2>2 DEF Kept, LinkInv, LinkTypes, Name
  <2>5. Compared'
    BY <1>3, <1>4, <2>1, <2>2 DEF Compared, LinkInv, LinkTypes, Linking
  <2>6. Away'
    <3>1. \A t \in Linkers : stage[t] \in {"link", "restore", "remove"} => Linking(t)
      BY DEF Linking
    <3> QED
      BY <1>2, <1>3, <1>4, <2>1, <2>2, <3>1 DEF Away, LinkInv, LinkTypes
  <2> QED
    BY <2>3, <2>4, <2>5, <2>6
<1> QED
  BY <1>1, <1>5, <1>6 DEF LinkInv

\* A deleted file.
LEMMA LinkDelete ==
    ASSUME LinkInv, NEW p \in Paths, Delete(p)
    PROVE  LinkInv'
<1>1. LinkTypes'
  BY LinkTypeUser DEF LinkInv
<1>2. /\ dir' = [dir EXCEPT ![p] = None] /\ bytes' = bytes
      /\ want' = [want EXCEPT ![p] = None] /\ stranded' = stranded \ {p}
      /\ aside' = aside /\ UserActs({p})
  BY DEF Delete
<1>3. UNCHANGED <<stage, local, hash, left, other>>
  BY <1>2 DEF UserActs, work
<1>4. Named'
  BY <1>2, <1>3 DEF LinkInv, Named, LinkTypes
<1>5. ASSUME ~disturbed' PROVE Alone' /\ Kept' /\ Compared' /\ Away'
  <2>1. ~disturbed /\ \A t \in Linkers : Linking(t) => local[t] # p /\ other[t] # p
    BY <1>2, <1>5, Undisturbed
  <2>2. Alone /\ Kept /\ Compared /\ Away
    BY <2>1 DEF LinkInv
  <2>3. Alone' /\ Kept'
    BY <1>2, <1>3, <2>2 DEF Alone, Kept, LinkInv, LinkTypes
  <2>4. Compared'
    BY <1>2, <1>3, <2>1, <2>2 DEF Compared, LinkInv, LinkTypes, Linking
  <2>5. Away'
    <3>1. \A t \in Linkers : stage[t] \in {"link", "restore", "remove"} => Linking(t)
      BY DEF Linking
    <3> QED
      BY <1>2, <1>3, <2>1, <2>2, <3>1 DEF Away, LinkInv, LinkTypes
  <2> QED
    BY <2>3, <2>4, <2>5
<1> QED
  BY <1>1, <1>4, <1>5 DEF LinkInv

\* An ingest that finds another one on its path disturbs it.
LEMMA LinkIngest ==
    ASSUME LinkInv, NEW t \in Linkers, NEW p \in Paths, Ingested(t, p)
    PROVE  LinkInv'
<1>1. LinkTypes'
  <2>1. LinkNext
    BY DEF LinkNext
  <2> QED
    BY <2>1, LinkTypeStep DEF LinkInv
<1>2. /\ stage[t] = "idle" /\ dir[p] # None
      /\ local' = [local EXCEPT ![t] = p]
      /\ hash' = [hash EXCEPT ![t] = bytes[dir[p]]]
      /\ stage' = [stage EXCEPT ![t] = "match"]
      /\ UNCHANGED <<dir, aside, bytes, left, other, want, stranded>>
  BY DEF Ingested, Advance, names, Read
<1>3. Named'
  BY <1>2 DEF LinkInv, Named, LinkTypes
<1>4. ASSUME ~disturbed' PROVE Alone' /\ Kept' /\ Compared' /\ Away'
  <2>1. ~disturbed /\ ~\E u \in Linkers : local[u] = p
    BY <1>4, Zenon DEF Ingested
  <2>2. Alone /\ Kept /\ Compared /\ Away
    BY <2>1 DEF LinkInv
  <2>3. Alone'
    BY <1>2, <2>1, <2>2 DEF Alone, LinkInv, LinkTypes
  <2>4. Kept'
    BY <1>2, <2>2 DEF Kept
  <2>5. Compared'
    BY <1>2, <2>2 DEF Compared, LinkInv, LinkTypes, Linking
  <2>6. Away'
    BY <1>2, <2>1, <2>2 DEF Away, LinkInv, LinkTypes
  <2> QED
    BY <2>3, <2>4, <2>5, <2>6
<1> QED
  BY <1>1, <1>3, <1>4 DEF LinkInv

\* Ending an attempt that is not half way through.
LEMMA LinkDone ==
    ASSUME LinkInv, LinkTypes', NEW t \in Linkers, Done(t),
           stage[t] \notin {"link", "restore"},
           UNCHANGED <<dir, bytes, want, disturbed, stranded>>,
           \/ aside' = aside
           \/ aside' = [aside EXCEPT ![local[t]] = None] /\ stage[t] = "remove"
    PROVE  LinkInv'
<1>1. Named'
  BY DEF LinkInv, Named, LinkTypes, Done
<1>2. ASSUME ~disturbed' PROVE Alone' /\ Kept' /\ Compared' /\ Away'
  <2>1. Alone /\ Kept /\ Compared /\ Away
    BY <1>2 DEF LinkInv
  <2>2. Alone'
    BY <2>1 DEF Alone, LinkInv, LinkTypes, Done
  <2>3. Kept'
    BY <2>1 DEF Kept, Away, LinkInv, LinkTypes
  <2>4. Compared'
    BY <2>1 DEF Compared, LinkInv, LinkTypes, Linking, Done
  <2>5. Away'
    BY <2>1 DEF Away, LinkInv, LinkTypes, Done
  <2> QED
    BY <2>2, <2>3, <2>4, <2>5
<1> QED
  BY <1>1, <1>2 DEF LinkInv

\* A step that only moves a task on, with what it knows now.
LEMMA LinkMove ==
    ASSUME LinkInv, LinkTypes', NEW t \in Linkers, NEW s,
           stage' = [stage EXCEPT ![t] = s], stage[t] # "idle",
           stage[t] \notin {"link", "restore"},
           s \notin {"link", "restore", "remove"},
           UNCHANGED <<dir, aside, bytes, local, hash, want, disturbed, stranded>>,
           \A u \in Linkers \ {t} : other'[u] = other[u],
           ~disturbed => want[local[t]] = hash[t],
           ~disturbed /\ s \in {"check", "rename"} => want[other'[t]] = hash[t]
    PROVE  LinkInv'
<1>1. Named'
  BY DEF LinkInv, Named, LinkTypes
<1>2. ASSUME ~disturbed' PROVE Alone' /\ Kept' /\ Compared' /\ Away'
  <2>1. Alone /\ Kept /\ Compared /\ Away
    BY <1>2 DEF LinkInv
  <2>2. Alone' /\ Kept'
    BY <2>1 DEF Alone, Kept
  <2>3. Compared'
    BY <1>2, <2>1 DEF Compared, LinkInv, LinkTypes, Linking
  <2>4. Away'
    BY <2>1 DEF Away, LinkInv, LinkTypes
  <2> QED
    BY <2>2, <2>3, <2>4
<1> QED
  BY <1>1, <1>2 DEF LinkInv

\* The comparisons and the checks before the rename.
LEMMA LinkCompare ==
    ASSUME LinkInv, NEW t \in Linkers,
           Match(t) \/ WholeFileSiblings(t) \/ TrySibling(t) \/ Check(t)
    PROVE  LinkInv'
<1>a. LinkTypes'
  BY LinkTypeLink DEF LinkInv, Link
<1>b. LinkTypes /\ Named /\ (~disturbed => Kept /\ Compared)
  BY DEF LinkInv
<1>1. CASE Match(t)
  <2>1. stage[t] = "match" /\ UNCHANGED <<dir, aside, bytes, want, disturbed, stranded>>
    BY <1>1 DEF Match, names
  <2>2. CASE Done(t)
    BY <1>a, <2>1, <2>2, LinkDone
  <2>3. CASE /\ Read(dir[local[t]]) = hash[t] /\ Advance(t, "siblings")
             /\ UNCHANGED <<local, hash, left, other>>
    <3>1. hash[t] # None /\ local[t] \in Paths
      BY <1>b, <2>1, LinkConstants DEF Named, LinkTypes
    <3>2. ~disturbed => want[local[t]] = hash[t]
      BY <1>b, <2>3, <3>1 DEF Read, Kept
    <3> QED
      BY <1>a, <2>1, <2>3, <3>2, LinkMove DEF Advance
  <2> QED
    BY <1>1, <2>2, <2>3 DEF Match
<1>2. CASE WholeFileSiblings(t)
  <2>1. /\ stage[t] = "siblings" /\ stage' = [stage EXCEPT ![t] = "try"]
        /\ UNCHANGED <<dir, aside, bytes, local, hash, other, want, disturbed, stranded>>
    BY <1>2 DEF WholeFileSiblings, names, Advance
  <2>2. ~disturbed => want[local[t]] = hash[t]
    BY <1>b, <2>1 DEF Compared, Linking
  <2> QED
    BY <1>a, <2>1, <2>2, LinkMove
<1>3. CASE TrySibling(t)
  <2>1. stage[t] = "try" /\ UNCHANGED <<dir, aside, bytes, want, disturbed, stranded>>
    BY <1>3 DEF TrySibling, names
  <2>2. CASE Done(t)
    BY <1>a, <2>1, <2>2, LinkDone
  <2>3. ASSUME NEW q \in left[t], other' = [other EXCEPT ![t] = q],
               Advance(t, IF Read(dir[q]) = hash[t] THEN "check" ELSE "try"),
               UNCHANGED <<local, hash>>
        PROVE  LinkInv'
    <3>1. hash[t] # None /\ q \in Paths /\ other'[t] = q
      BY <1>b, <2>1, <2>3, LinkConstants DEF Named, LinkTypes
    <3>2. \A u \in Linkers \ {t} : other'[u] = other[u]
      BY <1>b, <2>3 DEF LinkTypes
    <3>3. ~disturbed => want[local[t]] = hash[t]
      BY <1>b, <2>1 DEF Compared, Linking
    <3>4. CASE Read(dir[q]) = hash[t]
      <4>1. ~disturbed => want[q] = hash[t]
        BY <1>b, <3>1, <3>4 DEF Read, Kept
      <4> QED
        BY <1>a, <2>1, <2>3, <3>1, <3>2, <3>3, <3>4, <4>1, LinkMove DEF Advance
    <3>5. CASE Read(dir[q]) # hash[t]
      BY <1>a, <2>1, <2>3, <3>2, <3>3, <3>5, LinkMove DEF Advance
    <3> QED
      BY <3>4, <3>5
  <2> QED
    BY <1>3, <2>2, <2>3 DEF TrySibling
<1>4. CASE Check(t)
  <2>1. stage[t] = "check" /\ UNCHANGED <<dir, aside, bytes, want, disturbed, stranded>>
    BY <1>4 DEF Check, names
  <2>2. CASE Done(t)
    BY <1>a, <2>1, <2>2, LinkDone
  <2>3. CASE (Advance(t, "try") \/ Advance(t, "rename")) /\ UNCHANGED <<local, hash, left, other>>
    <3>1. ~disturbed => want[local[t]] = hash[t] /\ want[other[t]] = hash[t]
      BY <1>b, <2>1 DEF Compared, Linking
    <3> QED
      BY <1>a, <2>1, <2>3, <3>1, LinkMove DEF Advance
  <2> QED
    BY <1>4, <2>2, <2>3 DEF Check
<1> QED
  BY <1>1, <1>2, <1>3, <1>4

\* rename(replace, tmp).
LEMMA LinkRename ==
    ASSUME LinkInv, NEW t \in Linkers, RenameAside(t)
    PROVE  LinkInv'
<1>a. LinkTypes'
  BY LinkTypeLink DEF LinkInv, Link
<1>1. /\ stage[t] = "rename" /\ local[t] \in Paths
      /\ UNCHANGED <<bytes, local, hash, left, other, want, disturbed, stranded>>
  BY LinkConstants DEF RenameAside, LinkInv, LinkTypes
<1>2. CASE Advance(t, "try") /\ UNCHANGED <<dir, aside>>
  <2>1. ~disturbed => want[local[t]] = hash[t]
    BY <1>1 DEF LinkInv, Compared, Linking
  <2> QED
    BY <1>a, <1>1, <1>2, <2>1, LinkMove DEF Advance
<1>3. CASE /\ dir[local[t]] # None
           /\ aside' = [aside EXCEPT ![local[t]] = dir[local[t]]]
           /\ dir' = [dir EXCEPT ![local[t]] = None]
           /\ Advance(t, "link")
  <2>1. stage' = [stage EXCEPT ![t] = "link"]
    BY <1>3 DEF Advance
  <2>2. Named'
    BY <1>1, <1>3, <2>1 DEF LinkInv, Named, LinkTypes
  <2>3. ASSUME ~disturbed' PROVE Alone' /\ Kept' /\ Compared' /\ Away'
    <3>1. Alone /\ Kept /\ Compared /\ Away
      BY <1>1, <2>3 DEF LinkInv
    <3>2. Alone'
      BY <1>1, <3>1 DEF Alone
    <3>3. Kept'
      BY <1>1, <1>3, <3>1 DEF Kept, LinkInv, LinkTypes
    <3>4. Compared'
      BY <1>1, <2>1, <3>1 DEF Compared, LinkInv, LinkTypes, Linking
    <3>5. Away'
      <4>1. \A u \in Linkers : u # t => local[u] # local[t]
        BY <1>1, <3>1, LinkConstants DEF Alone
      <4>2. /\ \A u \in Linkers : stage'[u] \in {"link", "restore"} => dir'[local'[u]] = None
            /\ \A u \in Linkers : stage'[u] = "remove" => dir'[local'[u]] # None
        BY <1>1, <1>3, <2>1, <3>1, <4>1 DEF Away, LinkInv, LinkTypes
      <4>3. \A p \in Paths : dir'[p] = None /\ want'[p] # None =>
              \/ p \in stranded'
              \/ \E u \in Linkers : local'[u] = p /\ stage'[u] \in {"link", "restore"}
        BY <1>1, <1>3, <2>1, <3>1 DEF Away, LinkInv, LinkTypes
      <4> QED
        BY <4>2, <4>3 DEF Away
    <3> QED
      BY <3>2, <3>3, <3>4, <3>5
  <2> QED
    BY <1>a, <2>2, <2>3 DEF LinkInv
<1> QED
  BY <1>2, <1>3 DEF RenameAside

\* hard_link(keep, replace).
LEMMA LinkHard ==
    ASSUME LinkInv, NEW t \in Linkers, HardLink(t)
    PROVE  LinkInv'
<1>a. LinkTypes'
  BY LinkTypeLink DEF LinkInv, Link
<1>1. /\ stage[t] = "link" /\ local[t] \in Paths /\ other[t] \in Paths
      /\ other[t] # local[t]
      /\ UNCHANGED <<aside, bytes, local, hash, left, other, want, disturbed, stranded>>
  BY LinkConstants DEF HardLink, LinkInv, LinkTypes
<1>2. CASE Advance(t, "restore") /\ UNCHANGED dir
  <2>1. stage' = [stage EXCEPT ![t] = "restore"]
    BY <1>2 DEF Advance
  <2>2. Named'
    BY <1>1, <1>2, <2>1 DEF LinkInv, Named, LinkTypes
  <2>3. ASSUME ~disturbed' PROVE Alone' /\ Kept' /\ Compared' /\ Away'
    <3>1. Alone /\ Kept /\ Compared /\ Away
      BY <1>1, <2>3 DEF LinkInv
    <3>2. Alone' /\ Kept'
      BY <1>1, <1>2, <3>1 DEF Alone, Kept
    <3>3. Compared'
      BY <1>1, <2>1, <3>1 DEF Compared, LinkInv, LinkTypes, Linking
    <3>4. Away'
      BY <1>1, <1>2, <2>1, <3>1 DEF Away, LinkInv, LinkTypes
    <3> QED
      BY <3>2, <3>3, <3>4
  <2> QED
    BY <1>a, <2>2, <2>3 DEF LinkInv
<1>3. CASE /\ dir[local[t]] = None /\ dir[other[t]] # None
           /\ dir' = [dir EXCEPT ![local[t]] = dir[other[t]]]
           /\ Advance(t, "remove")
  <2>1. stage' = [stage EXCEPT ![t] = "remove"]
    BY <1>3 DEF Advance
  <2>2. Named'
    BY <1>1, <1>3, <2>1 DEF LinkInv, Named, LinkTypes
  <2>3. ASSUME ~disturbed' PROVE Alone' /\ Kept' /\ Compared' /\ Away'
    <3>1. Alone /\ Kept /\ Compared /\ Away
      BY <1>1, <2>3 DEF LinkInv
    <3>2. Alone'
      BY <1>1, <3>1 DEF Alone
    <3>3. Kept'
      <4>1. want[local[t]] = bytes[dir[other[t]]]
        BY <1>1, <1>3, <3>1 DEF Kept, Compared, Linking
      <4> QED
        BY <1>1, <1>3, <3>1, <4>1 DEF Kept, LinkInv, LinkTypes
    <3>4. Compared'
      BY <1>1, <2>1, <3>1 DEF Compared, LinkInv, LinkTypes, Linking
    <3>5. Away'
      <4>1. \A u \in Linkers : u # t => local[u] # local[t]
        BY <1>1, <3>1, LinkConstants DEF Alone
      <4>2. /\ \A u \in Linkers : stage'[u] \in {"link", "restore"} => dir'[local'[u]] = None
            /\ \A u \in Linkers : stage'[u] = "remove" => dir'[local'[u]] # None
        BY <1>1, <1>3, <2>1, <3>1, <4>1 DEF Away, LinkInv, LinkTypes
      <4>3. \A p \in Paths : dir'[p] = None /\ want'[p] # None =>
              \/ p \in stranded'
              \/ \E u \in Linkers : local'[u] = p /\ stage'[u] \in {"link", "restore"}
        <5>1. SUFFICES ASSUME NEW p \in Paths, dir'[p] = None, want'[p] # None
                       PROVE  \/ p \in stranded'
                              \/ \E u \in Linkers : /\ local'[u] = p
                                                    /\ stage'[u] \in {"link", "restore"}
          OBVIOUS
        <5>2. p # local[t] /\ dir[p] = None
          BY <1>1, <1>3, <5>1 DEF LinkInv, LinkTypes
        <5> QED
          BY <1>1, <2>1, <3>1, <5>1, <5>2 DEF Away, LinkInv, LinkTypes
      <4> QED
        BY <4>2, <4>3 DEF Away
    <3> QED
      BY <3>2, <3>3, <3>4, <3>5
  <2> QED
    BY <1>a, <2>2, <2>3 DEF LinkInv
<1> QED
  BY <1>2, <1>3 DEF HardLink

\* rename(tmp, replace).
LEMMA LinkRestore ==
    ASSUME LinkInv, NEW t \in Linkers, Restore(t)
    PROVE  LinkInv'
<1>a. LinkTypes'
  BY LinkTypeLink DEF LinkInv, Link
<1>1. /\ stage[t] = "restore" /\ local[t] \in Paths
      /\ stage' = [stage EXCEPT ![t] = "try"]
      /\ UNCHANGED <<bytes, local, hash, left, other, want, disturbed>>
  BY LinkConstants DEF Restore, LinkInv, LinkTypes, Advance
<1>2. \/ /\ aside[local[t]] # None
         /\ dir' = [dir EXCEPT ![local[t]] = aside[local[t]]]
         /\ aside' = [aside EXCEPT ![local[t]] = None]
         /\ stranded' = stranded
      \/ stranded' = stranded \cup {local[t]} /\ dir' = dir /\ aside' = aside
  BY DEF Restore
<1>3. Named'
  BY <1>1, <1>2 DEF LinkInv, Named, LinkTypes
<1>4. ASSUME ~disturbed' PROVE Alone' /\ Kept' /\ Compared' /\ Away'
  <2>1. Alone /\ Kept /\ Compared /\ Away
    BY <1>1, <1>4 DEF LinkInv
  <2>2. Alone'
    BY <1>1, <2>1 DEF Alone
  <2>3. Kept'
    <3>1. /\ dir[local[t]] = None /\ want[local[t]] # None
          /\ want[local[t]] = bytes[aside[local[t]]]
      BY <1>1, <2>1, LinkConstants DEF Away, Compared, Kept, Linking, LinkInv, Named
    <3> QED
      BY <1>1, <1>2, <2>1, <3>1 DEF Kept, LinkInv, LinkTypes
  <2>4. Compared'
    BY <1>1, <2>1 DEF Compared, LinkInv, LinkTypes, Linking
  <2>5. Away'
    <3>1. \A u \in Linkers : u # t => local[u] # local[t]
      BY <1>1, <2>1, LinkConstants DEF Alone
    <3>2. /\ \A u \in Linkers : stage'[u] \in {"link", "restore"} => dir'[local'[u]] = None
          /\ \A u \in Linkers : stage'[u] = "remove" => dir'[local'[u]] # None
      BY <1>1, <1>2, <2>1, <3>1 DEF Away, LinkInv, LinkTypes
    <3>3. \A p \in Paths : dir'[p] = None /\ want'[p] # None =>
            \/ p \in stranded'
            \/ \E u \in Linkers : local'[u] = p /\ stage'[u] \in {"link", "restore"}
      <4>1. SUFFICES ASSUME NEW p \in Paths, dir'[p] = None, want'[p] # None,
                            p \notin stranded'
                     PROVE  \E u \in Linkers : /\ local'[u] = p
                                              /\ stage'[u] \in {"link", "restore"}
        OBVIOUS
      <4>2. p # local[t] /\ dir[p] = None /\ p \notin stranded
        BY <1>1, <1>2, <4>1 DEF LinkInv, LinkTypes
      <4> QED
        BY <1>1, <2>1, <4>1, <4>2 DEF Away, LinkInv, LinkTypes
    <3> QED
      BY <3>2, <3>3 DEF Away
  <2> QED
    BY <2>2, <2>3, <2>4, <2>5
<1> QED
  BY <1>a, <1>3, <1>4 DEF LinkInv

LEMMA LinkStep == LinkInv /\ [LinkNext]_linkVars => LinkInv'
<1> SUFFICES ASSUME LinkInv, [LinkNext]_linkVars PROVE LinkInv'
  OBVIOUS
<1>1. ASSUME NEW p \in Paths, NEW c \in Hashes, WriteInPlace(p, c) \/ SaveNew(p, c)
      PROVE  LinkInv'
  BY <1>1, LinkWrite, LinkSave
<1>2. ASSUME NEW p \in Paths, Delete(p) PROVE LinkInv'
  BY <1>2, LinkDelete
<1>3. ASSUME NEW t \in Linkers, NEW p \in Paths, Ingested(t, p) PROVE LinkInv'
  BY <1>3, LinkIngest
<1>4. ASSUME NEW t \in Linkers, Link(t) PROVE LinkInv'
  <2>1. CASE RemoveAside(t)
    <3>1. LinkTypes'
      BY <1>4, LinkTypeLink DEF LinkInv
    <3>2. /\ stage[t] = "remove" /\ Done(t)
          /\ UNCHANGED <<dir, bytes, want, disturbed, stranded>>
          /\ aside' = aside \/ aside' = [aside EXCEPT ![local[t]] = None]
      BY <2>1 DEF RemoveAside
    <3> QED
      BY <3>1, <3>2, LinkDone
  <2> QED
    BY <1>4, <2>1, LinkCompare, LinkRename, LinkHard, LinkRestore DEF Link
<1>5. CASE Die
  <2>1. LinkTypes'
    BY LinkTypeStep DEF LinkInv
  <2>2. /\ UNCHANGED <<dir, aside, bytes, want, disturbed>>
        /\ stage' = [t \in Linkers |-> "idle"] /\ local' = [t \in Linkers |-> None]
        /\ stranded' = stranded \cup
             {local[t] : t \in {u \in Linkers : stage[u] \in {"link", "restore"}}}
    BY <1>5 DEF Die, names
  <2>3. Named'
    BY <2>2 DEF LinkInv, Named
  <2>4. ASSUME ~disturbed' PROVE Alone' /\ Kept' /\ Compared' /\ Away'
    <3>1. Kept /\ Away
      BY <2>2, <2>4 DEF LinkInv
    <3>2. Alone' /\ Kept' /\ Compared'
      BY <2>2, <3>1 DEF Alone, Kept, Compared, Linking
    <3>3. Away'
      BY <2>2, <3>1 DEF Away
    <3> QED
      BY <3>2, <3>3
  <2> QED
    BY <2>1, <2>3, <2>4 DEF LinkInv
<1>6. CASE UNCHANGED linkVars
  BY <1>6 DEF LinkInv, LinkTypes, Named, Alone, Kept, Compared, Away, Linking, linkVars
<1> QED
  BY <1>1, <1>2, <1>3, <1>4, <1>5, <1>6 DEF LinkNext

\* Linking duplicates (link_duplicate) never loses what the user stored: for
\* any number of files, ingests, failing system calls and crashes it is under
\* its own name or under the .orchid-link name, as long as nobody changes a
\* file between the comparison and the end of its link.
THEOREM NoBytesLost == LinkSpec => []BytesKept
<1>1. LinkInv => BytesKept
  BY DEF LinkInv, Kept, BytesKept, Read
<1> QED
  BY <1>1, InvInit, LinkStep, PTL DEF LinkSpec

\* Under the same condition a file is away from its own name only while its
\* link is being made, or after a crash or a failed restore in that window.
THEOREM NamesKept == LinkSpec => []NameKept
<1>1. LinkInv => NameKept
  BY DEF LinkInv, Kept, Away, NameKept, Read
<1> QED
  BY <1>1, InvInit, LinkStep, PTL DEF LinkSpec
=============================================================================
