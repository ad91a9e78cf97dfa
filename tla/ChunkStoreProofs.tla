-------------------------- MODULE ChunkStoreProofs --------------------------
(***************************************************************************)
(* Proofs about ChunkStore, for any chunks, tasks, files and bounds.       *)
(***************************************************************************)
EXTENDS ChunkStore, FiniteSetTheorems, TLAPS

PutLabels == {"probe", "clone", "create", "write", "commit", "rename"}
GetLabels == {"check", "read", "touch"}

\* Where a task is says which operation it performs and what it holds.
Placed(t) ==
    /\ pc[t] \in PutLabels => op[t] = "put"
    /\ pc[t] \in GetLabels => op[t] = "get"
    /\ pc[t] \in {"drain", "flush"} => op[t] \in {"get", "flush"}
    /\ pc[t] \in {"release", "unlink"} => op[t] = "release"
    /\ pc[t] \in {"gcscan", "gcstat", "gcunlink"} => op[t] = "gc"
    /\ pc[t] # "idle" /\ op[t] \in {"put", "get", "release"} => arg[t] \in Chunks
    /\ pc[t] \in {"gcstat", "gcunlink"} => arg[t] \in Chunks
    /\ pc[t] = "write" => fd[t] \in Inodes

WellPlaced == \A t \in Tasks : Placed(t)

TypeInv == TypeOK /\ WellPlaced

-----------------------------------------------------------------------------
(* Type correctness.                                                       *)

LEMMA TypeInit == Init => TypeInv
<1> SUFFICES ASSUME Init PROVE TypeInv
  OBVIOUS
<1>1. 0 \in Times
  BY StoreParams DEF Times
<1>2. StoreOK
  BY <1>1 DEF Init, StoreOK, Untouched, NoRow, Never
<1>3. TasksOK
  BY <1>1 DEF Init, TasksOK, Untouched, Never, Labels, AllOps
<1>4. WellPlaced
  BY DEF Init, WellPlaced, Placed, PutLabels, GetLabels
<1> QED
  BY <1>2, <1>3, <1>4 DEF TypeInv, TypeOK

\* A step of put keeps the types.
LEMMA TypePut == ASSUME TypeInv, NEW t \in Tasks, Put(t) PROVE TypeInv'
<1> USE DEF TypeInv, TypeOK, WellPlaced, Placed, PutLabels, GetLabels, At, Goto,
            Finish, rows, files, world, frame, ghost
<1>1. CASE ProbeHit(t)
  <2>1. arg[t] \in Chunks /\ refs[arg[t]] \in Nat
    BY <1>1 DEF ProbeHit, StoreOK, TasksOK, Registered, NoRow
  <2> QED
    BY <1>1, <2>1 DEF ProbeHit, StoreOK, TasksOK, Labels, Never
<1>2. CASE ProbeHitFails(t)
  BY <1>2 DEF ProbeHitFails, StoreOK, TasksOK, Labels, Never
<1>3. CASE ProbeMiss(t)
  BY <1>3 DEF ProbeMiss, StoreOK, TasksOK, Labels, Never
<1>4. CASE CloneTmp(t)
  BY <1>4 DEF CloneTmp, StoreOK, TasksOK, Labels, Never
<1>5. CASE CloneRefuses(t)
  BY <1>5 DEF CloneRefuses, StoreOK, TasksOK, Labels, Never
<1>6. CASE CreateTmp(t)
  BY <1>6 DEF CreateTmp, StoreOK, TasksOK, Labels, Never
<1>7. CASE WriteTmp(t)
  BY <1>7 DEF WriteTmp, StoreOK, TasksOK, Labels, Never
<1>8. CASE WriteFails(t)
  BY <1>8 DEF WriteFails, StoreOK, TasksOK, Labels, Never
<1>9. CASE CommitRow(t)
  <2>1. arg[t] \in Chunks /\ BumpedRow(arg[t]) \in Nat
    BY <1>9 DEF CommitRow, StoreOK, TasksOK, Registered, NoRow, BumpedRow
  <2> QED
    BY <1>9, <2>1 DEF CommitRow, StoreOK, TasksOK, Labels
<1>10. CASE CommitFails(t)
  BY <1>10 DEF CommitFails, StoreOK, TasksOK, Labels, Never
<1>11. CASE Rename(t)
  BY <1>11 DEF Rename, StoreOK, TasksOK, Labels, Never
<1>12. CASE RenameFails(t)
  BY <1>12 DEF RenameFails, StoreOK, TasksOK, Labels, Never
<1> QED
  BY <1>1, <1>2, <1>3, <1>4, <1>5, <1>6, <1>7, <1>8, <1>9, <1>10, <1>11, <1>12 DEF Put

\* A step of get or of flush_access_times keeps the types.
LEMMA TypeRead == ASSUME TypeInv, NEW t \in Tasks, Read(t) PROVE TypeInv'
<1> USE DEF TypeInv, TypeOK, WellPlaced, Placed, PutLabels, GetLabels, At, Goto,
            Finish, rows, files, world, frame, ghost
<1>1. CASE GetCheck(t)
  <2>1. StoreOK'
    BY <1>1 DEF GetCheck, StoreOK
  <2>2. TasksOK'
    BY <1>1 DEF GetCheck, TasksOK, Labels, Never
  <2>3. WellPlaced'
    BY <1>1 DEF GetCheck, TasksOK
  <2> QED
    BY <2>1, <2>2, <2>3
<1>2. CASE GetRead(t)
  <2>1. CASE bin[arg[t]] \in whole
    <3>1. StoreOK'
      BY <1>2, <2>1 DEF GetRead, StoreOK, TasksOK, Never
    <3>2. TasksOK'
      BY <1>2, <2>1 DEF GetRead, StoreOK, TasksOK, Labels, Never
    <3>3. WellPlaced'
      BY <1>2, <2>1 DEF GetRead, TasksOK
    <3> QED
      BY <3>1, <3>2, <3>3
  <2>2. CASE bin[arg[t]] \notin whole
    <3>1. StoreOK'
      BY <1>2, <2>2 DEF GetRead, StoreOK, TasksOK, Never
    <3>2. TasksOK'
      BY <1>2, <2>2 DEF GetRead, StoreOK, TasksOK, Labels, Never
    <3>3. WellPlaced'
      BY <1>2, <2>2 DEF GetRead, TasksOK
    <3> QED
      BY <3>1, <3>2, <3>3
  <2> QED
    BY <2>1, <2>2
<1>3. CASE GetTouch(t)
  <2>1. CASE Goto(t, "drain") /\ UNCHANGED ok
    <3>1. StoreOK'
      BY <1>3, <2>1 DEF GetTouch, StoreOK, TasksOK, Never
    <3>2. TasksOK'
      BY <1>3, <2>1 DEF GetTouch, StoreOK, TasksOK, Labels, Never
    <3>3. WellPlaced'
      BY <1>3, <2>1 DEF GetTouch, TasksOK
    <3> QED
      BY <3>1, <3>2, <3>3
  <2>2. CASE Finish(t, TRUE)
    <3>1. StoreOK'
      BY <1>3, <2>2 DEF GetTouch, StoreOK, TasksOK, Never
    <3>2. TasksOK'
      BY <1>3, <2>2 DEF GetTouch, StoreOK, TasksOK, Labels, Never
    <3>3. WellPlaced'
      BY <1>3, <2>2 DEF GetTouch, TasksOK
    <3> QED
      BY <3>1, <3>2, <3>3
  <2> QED
    BY <1>3, <2>1, <2>2 DEF GetTouch
<1>4. CASE FlushDrain(t)
  <2>1. CASE Buffered(touched) = {}
    <3>1. StoreOK'
      BY <1>4, <2>1 DEF FlushDrain, StoreOK, TasksOK, Never, Untouched
    <3>2. TasksOK'
      BY <1>4, <2>1 DEF FlushDrain, TasksOK, Labels, Finish, Goto, frame
    <3>3. WellPlaced'
      BY <1>4, <2>1 DEF FlushDrain, TasksOK, Untouched
    <3> QED
      BY <3>1, <3>2, <3>3
  <2>2. CASE Buffered(touched) # {}
    <3>1. StoreOK'
      BY <1>4, <2>2 DEF FlushDrain, StoreOK, TasksOK, Never, Untouched
    <3>2. TasksOK'
      BY <1>4, <2>2 DEF FlushDrain, StoreOK, TasksOK, Labels, Never, Untouched
    <3>3. WellPlaced'
      BY <1>4, <2>2 DEF FlushDrain, TasksOK, Untouched
    <3> QED
      BY <3>1, <3>2, <3>3
  <2> QED
    BY <2>1, <2>2
<1>5. CASE FlushCommit(t)
  <2>1. \A c \in Chunks : Refreshed(c, batch[t]) \in Times
    BY <1>5 DEF FlushCommit, StoreOK, TasksOK, Refreshed, Never
  <2> QED
    BY <1>5, <2>1 DEF FlushCommit, StoreOK, TasksOK, Labels, Untouched, Never
<1>6. CASE FlushFails(t)
  BY <1>6 DEF FlushFails, StoreOK, TasksOK, Labels, Untouched, Never
<1> QED
  BY <1>1, <1>2, <1>3, <1>4, <1>5, <1>6 DEF Read

\* A step of release keeps the types.
LEMMA TypeRelease == ASSUME TypeInv, NEW t \in Tasks, Release(t) PROVE TypeInv'
<1> USE DEF TypeInv, TypeOK, WellPlaced, Placed, PutLabels, GetLabels, At, Goto,
            Finish, rows, files, world, frame, ghost
<1>1. CASE ReleaseRow(t) /\ Count(arg[t]) = 0
  <2>1. StoreOK'
    BY <1>1 DEF ReleaseRow, StoreOK
  <2>2. TasksOK'
    BY <1>1 DEF ReleaseRow, TasksOK, Labels
  <2>3. WellPlaced'
    BY <1>1 DEF ReleaseRow, TasksOK
  <2> QED
    BY <2>1, <2>2, <2>3
<1>2. CASE ReleaseFails(t)
  BY <1>2 DEF ReleaseFails, StoreOK, TasksOK, Labels, Never
<1>3. CASE ReleaseRow(t) /\ Count(arg[t]) # 0
  <2>1. arg[t] \in Chunks /\ refs[arg[t]] \in Nat \ {0}
    BY <1>3 DEF ReleaseRow, StoreOK, TasksOK, Count, Registered, NoRow
  <2>2. StoreOK'
    BY <1>3, <2>1 DEF ReleaseRow, StoreOK, NoRow
  <2>3. /\ At(t, "release")
        /\ (Goto(t, "unlink") /\ UNCHANGED ok) \/ Finish(t, TRUE)
        /\ UNCHANGED <<op, arg, at, fd, batch, seen>>
    BY <1>3 DEF ReleaseRow
  <2>4. TasksOK'
    BY <2>3 DEF TasksOK, Labels
  <2>5. WellPlaced'
    BY <2>3 DEF TasksOK
  <2> QED
    BY <2>2, <2>4, <2>5
<1>4. CASE Unlink(t)
  BY <1>4 DEF Unlink, StoreOK, TasksOK, Labels, Never
<1> QED
  BY <1>1, <1>2, <1>3, <1>4 DEF Release

\* A step of garbage_collect keeps the types.
LEMMA TypeCollect == ASSUME TypeInv, NEW t \in Tasks, Collect(t) PROVE TypeInv'
<1> USE DEF TypeInv, TypeOK, WellPlaced, Placed, PutLabels, GetLabels, At, Goto,
            Finish, rows, files, world, frame, ghost
<1>1. CASE GcVisit(t)
  <2> PICK c \in Chunks \ seen[t] :
          /\ seen' = [seen EXCEPT ![t] = @ \cup {c}]
          /\ \/ UNCHANGED <<pc, arg>>
             \/ Goto(t, "gcstat") /\ arg' = [arg EXCEPT ![t] = c]
    BY <1>1 DEF GcVisit
  <2>1. CASE UNCHANGED <<pc, arg>>
    <3>1. StoreOK'
      BY <1>1, <2>1 DEF GcVisit, StoreOK, TasksOK, Never
    <3>2. TasksOK'
      BY <1>1, <2>1 DEF GcVisit, StoreOK, TasksOK, Labels, Never
    <3>3. WellPlaced'
      BY <1>1, <2>1 DEF GcVisit, TasksOK
    <3> QED
      BY <3>1, <3>2, <3>3
  <2>2. CASE Goto(t, "gcstat") /\ arg' = [arg EXCEPT ![t] = c]
    <3>1. StoreOK'
      BY <1>1, <2>2 DEF GcVisit, StoreOK, TasksOK, Never
    <3>2. TasksOK'
      BY <1>1, <2>2 DEF GcVisit, StoreOK, TasksOK, Labels, Never
    <3>3. WellPlaced'
      BY <1>1, <2>2 DEF GcVisit, TasksOK
    <3> QED
      BY <3>1, <3>2, <3>3
  <2> QED
    BY <2>1, <2>2
<1>2. CASE GcStat(t)
  <2>1. StoreOK' /\ WellPlaced'
    BY <1>2 DEF GcStat, StoreOK, TasksOK, Labels
  <2>2. TasksOK'
    BY <1>2 DEF GcStat, TasksOK, Labels
  <2> QED
    BY <2>1, <2>2
<1>3. CASE GcUnlink(t)
  BY <1>3 DEF GcUnlink, StoreOK, TasksOK, Labels, Never
<1>4. CASE GcDone(t)
  BY <1>4 DEF GcDone, StoreOK, TasksOK, Labels, Never
<1> QED
  BY <1>1, <1>2, <1>3, <1>4 DEF Collect

\* The calls in progress that count a reference are finitely many tasks.
LEMMA InFlightFinite ==
    ASSUME NEW c \in Chunks
    PROVE  /\ IsFiniteSet(InFlight(c))
           /\ Cardinality(InFlight(c)) \in Nat
<1>1. InFlight(c) \subseteq Tasks
  BY DEF InFlight
<1>2. IsFiniteSet(InFlight(c))
  BY <1>1, StoreParams, FS_Subset
<1> QED
  BY <1>2, FS_CardinalityType

\* A step of the specification keeps the types.
LEMMA TypeStep == TypeInv /\ [Next]_vars => TypeInv'
<1> SUFFICES ASSUME TypeInv, [Next]_vars PROVE TypeInv'
  OBVIOUS
<1>1. ASSUME NEW t \in Tasks, Call(t) PROVE TypeInv'
  <2> PICK o \in Ops, c \in Chunks :
          /\ o = "release" => owned[c] > 0
          /\ pc' = [pc EXCEPT ![t] = Entry[o]]
          /\ op' = [op EXCEPT ![t] = o]
          /\ arg' = [arg EXCEPT ![t] = IF o \in {"flush", "gc"} THEN None ELSE c]
          /\ at' = [at EXCEPT ![t] = now]
          /\ seen' = [seen EXCEPT ![t] = {}]
          /\ owned' = IF o = "release" THEN [owned EXCEPT ![c] = @ - 1] ELSE owned
    BY <1>1 DEF Call, Goto
  <2>1. o \in AllOps
    BY StoreParams
  <2>2. /\ Entry[o] = "probe" <=> o = "put"
        /\ Entry[o] = "check" <=> o = "get"
        /\ Entry[o] = "release" <=> o = "release"
        /\ Entry[o] = "drain" <=> o = "flush"
        /\ Entry[o] = "gcscan" <=> o = "gc"
        /\ Entry[o] \in {"probe", "check", "release", "drain", "gcscan"}
    BY <2>1 DEF Entry, AllOps
  <2>3. StoreOK'
    BY <1>1 DEF Call, TypeInv, TypeOK, StoreOK, rows, files, world
  <2>4. TasksOK'
    BY <1>1, <2>1, <2>2 DEF Call, TypeInv, TypeOK, StoreOK, TasksOK, Labels
  <2>5. Placed(t)'
    BY <1>1, <2>1, <2>2
       DEF TypeInv, TypeOK, TasksOK, Placed, PutLabels, GetLabels, AllOps
  <2>6. ASSUME NEW u \in Tasks, u # t PROVE Placed(u)'
    <3>1. /\ pc'[u] = pc[u] /\ op'[u] = op[u] /\ arg'[u] = arg[u] /\ fd'[u] = fd[u]
      BY <1>1, <2>6 DEF Call, TypeInv, TypeOK, TasksOK
    <3> QED
      BY <3>1 DEF TypeInv, WellPlaced, Placed
  <2> QED
    BY <2>3, <2>4, <2>5, <2>6 DEF TypeInv, TypeOK, WellPlaced
<1>2. ASSUME NEW t \in Tasks, Return(t) PROVE TypeInv'
  <2>0. op[t] \in {"put", "release"} => arg[t] \in Chunks
    BY <1>2 DEF Return, At, TypeInv, WellPlaced, Placed
  <2>1. StoreOK'
    BY <1>2, <2>0 DEF Return, TypeInv, TypeOK, StoreOK, rows, files, world
  <2>2. TasksOK'
    BY <1>2 DEF Return, Goto, TypeInv, TypeOK, TasksOK, Labels
  <2>3. WellPlaced'
    BY <1>2 DEF Return, Goto, TypeInv, TypeOK, TasksOK, WellPlaced, Placed,
                PutLabels, GetLabels
  <2> QED
    BY <2>1, <2>2, <2>3 DEF TypeInv, TypeOK
<1>3. ASSUME NEW t \in Tasks, Step(t) PROVE TypeInv'
  BY <1>3, TypePut, TypeRead, TypeRelease, TypeCollect DEF Step
<1>4. CASE Tick
  <2>1. now' \in Times
    BY <1>4, StoreParams DEF Tick, TypeInv, TypeOK, StoreOK, Times
  <2> QED
    BY <1>4, <2>1 DEF Tick, TypeInv, TypeOK, StoreOK, TasksOK, WellPlaced, Placed,
                      rows, files, world, frame, ghost
<1>5. CASE Crash
  <2>1. \A c \in Chunks : lost[c] + Cardinality(InFlight(c)) \in Nat
    BY InFlightFinite DEF TypeInv, TypeOK, StoreOK
  <2>2. StoreOK'
    BY <1>5, <2>1 DEF Crash, TypeInv, TypeOK, StoreOK, Untouched, Never, rows, files
  <2>3. TasksOK'
    BY <1>5 DEF Crash, TypeInv, TypeOK, TasksOK, Untouched, Never, Labels
  <2>4. WellPlaced'
    BY <1>5 DEF Crash, WellPlaced, Placed, PutLabels, GetLabels
  <2> QED
    BY <2>2, <2>3, <2>4 DEF TypeInv, TypeOK
<1>6. CASE UNCHANGED vars
  BY <1>6 DEF vars, rows, files, world, frame, ghost, TypeInv, TypeOK, StoreOK, TasksOK,
              WellPlaced, Placed
<1> QED
  BY <1>1, <1>2, <1>3, <1>4, <1>5, <1>6 DEF Next

\* Every reachable state has the types that TypeOK gives the store's table,
\* files, buffers and calls.
THEOREM StoreTyped == Spec => []TypeOK
<1>1. Spec => []TypeInv
  BY TypeInit, TypeStep, PTL DEF Spec
<1>2. TypeInv => TypeOK
  BY DEF TypeInv
<1> QED
  BY <1>1, <1>2, PTL

-----------------------------------------------------------------------------
(* Reference accounting.                                                   *)

\* No task but t moves.
OthersStay(t) ==
    \A u \in Tasks \ {t} :
        /\ pc'[u] = pc[u] /\ op'[u] = op[u] /\ arg'[u] = arg[u]
        /\ u \in ok' <=> u \in ok

Bit(b) == IF b THEN 1 ELSE 0

\* What t's step adds to a row it adds to the references t, the callers and
\* the lost ones hold.
Balanced(t) ==
    \A c \in Chunks :
        Count(c)' - Count(c)
          = (owned'[c] - owned[c]) + (lost'[c] - lost[c])
              + (Bit(t \in InFlight(c)') - Bit(t \in InFlight(c)))

\* A step of one task changes the number of calls in flight by that task.
LEMMA InFlightMoves ==
    ASSUME NEW t \in Tasks, NEW c \in Chunks, OthersStay(t)
    PROVE  Cardinality(InFlight(c))' - Cardinality(InFlight(c))
              = Bit(t \in InFlight(c)') - Bit(t \in InFlight(c))
<1> DEFINE Rest == InFlight(c) \ {t}
<1>1. InFlight(c)' \ {t} = Rest
  BY DEF InFlight, OthersStay, At
<1>2. IsFiniteSet(InFlight(c)) /\ IsFiniteSet(Rest)
  BY InFlightFinite, FS_RemoveElement
<1>3. Cardinality(Rest) \in Nat
  BY <1>2, FS_CardinalityType
<1>4. Cardinality(Rest \cup {t}) = Cardinality(Rest) + 1
  BY <1>2, FS_AddElement
<1>5. InFlight(c) = IF t \in InFlight(c) THEN Rest \cup {t} ELSE Rest
  OBVIOUS
<1>6. InFlight(c)' = IF t \in InFlight(c)' THEN Rest \cup {t} ELSE Rest
  BY <1>1
<1> HIDE DEF Rest
<1>7. Cardinality(InFlight(c)) = Cardinality(Rest) + Bit(t \in InFlight(c))
  BY <1>3, <1>4, <1>5 DEF Bit
<1>8. Cardinality(InFlight(c)') = Cardinality(Rest) + Bit(t \in InFlight(c)')
  BY <1>3, <1>4, <1>6 DEF Bit
<1>9. Bit(t \in InFlight(c)) \in Int /\ Bit(t \in InFlight(c)') \in Int
  BY DEF Bit
<1> QED
  BY <1>3, <1>7, <1>8, <1>9

\* Balanced steps keep the accounts.
LEMMA BalanceKept ==
    ASSUME TypeInv, TypeInv', RefsAccounted,
           NEW t \in Tasks, OthersStay(t), Balanced(t)
    PROVE  RefsAccounted'
<1> SUFFICES ASSUME NEW c \in Chunks
             PROVE  Count(c)' = owned'[c] + lost'[c] + Cardinality(InFlight(c)')
  BY DEF RefsAccounted
<1> DEFINE n == Count(c)                     n2 == Count(c)'
           h == owned[c] + lost[c]           h2 == owned'[c] + lost'[c]
           k == Cardinality(InFlight(c))     k2 == Cardinality(InFlight(c)')
           b == Bit(t \in InFlight(c))       b2 == Bit(t \in InFlight(c)')
<1>1. n \in Int /\ n2 \in Int
  BY DEF TypeInv, TypeOK, StoreOK, Count, Registered, NoRow
<1>2. owned[c] \in Int /\ lost[c] \in Int /\ owned'[c] \in Int /\ lost'[c] \in Int
  BY DEF TypeInv, TypeOK, StoreOK
<1>3. k \in Int /\ k2 \in Int
  <2>1. InFlight(c)' \subseteq Tasks
    BY DEF InFlight
  <2>2. Cardinality(InFlight(c)') \in Nat
    BY <2>1, StoreParams, FS_Subset, FS_CardinalityType
  <2> QED
    BY <2>2, InFlightFinite
<1>4. n = h + k
  BY DEF RefsAccounted
<1>5. b \in Int /\ b2 \in Int
  BY DEF Bit
<1>6. k2 - k = b2 - b
  BY InFlightMoves
<1>7. n2 - n = (h2 - h) + (b2 - b)
  <2>1. n2 - n = (owned'[c] - owned[c]) + (lost'[c] - lost[c]) + (b2 - b)
    BY DEF Balanced
  <2> HIDE DEF n, n2, b, b2
  <2> QED
    BY <1>1, <1>2, <1>5, <2>1
<1>8. h \in Int /\ h2 \in Int
  BY <1>2
<1> HIDE DEF n, n2, h, h2, k, k2, b, b2
<1>9. n2 = h2 + k2
  BY <1>1, <1>3, <1>4, <1>5, <1>6, <1>7, <1>8
<1> QED
  BY <1>9 DEF n2, h2, k2

\* put takes the reference it counts.
LEMMA PutBalanced ==
    ASSUME TypeInv, NoZeroRow, NEW t \in Tasks, Put(t)
    PROVE  OthersStay(t) /\ Balanced(t) /\ NoZeroRow'
<1> USE DEF TypeInv, TypeOK, StoreOK, TasksOK, WellPlaced, Placed, PutLabels,
            GetLabels, OthersStay, At, Goto, Finish, rows, files, world, frame, ghost
<1>1. CASE ProbeHit(t)
  <2>1. OthersStay(t) /\ NoZeroRow'
    BY <1>1 DEF ProbeHit, NoZeroRow, NoRow, Registered
  <2>2. Balanced(t)
    BY <1>1 DEF ProbeHit, Balanced, Bit, InFlight, Count, Registered, NoRow, Registered
  <2> QED
    BY <2>1, <2>2
<1>2. CASE ProbeHitFails(t)
  <2>1. OthersStay(t) /\ NoZeroRow'
    BY <1>2 DEF ProbeHitFails, NoZeroRow
  <2>2. Balanced(t)
    BY <1>2 DEF ProbeHitFails, Balanced, Bit, InFlight, Count, Registered
  <2> QED
    BY <2>1, <2>2
<1>3. CASE ProbeMiss(t)
  <2>1. OthersStay(t) /\ NoZeroRow'
    BY <1>3 DEF ProbeMiss, NoZeroRow
  <2>2. Balanced(t)
    BY <1>3 DEF ProbeMiss, Balanced, Bit, InFlight, Count, Registered
  <2> QED
    BY <2>1, <2>2
<1>4. CASE CloneTmp(t)
  <2>1. OthersStay(t) /\ NoZeroRow'
    BY <1>4 DEF CloneTmp, NoZeroRow
  <2>2. Balanced(t)
    BY <1>4 DEF CloneTmp, Balanced, Bit, InFlight, Count, Registered
  <2> QED
    BY <2>1, <2>2
<1>5. CASE CloneRefuses(t)
  <2>1. OthersStay(t) /\ NoZeroRow'
    BY <1>5 DEF CloneRefuses, NoZeroRow
  <2>2. Balanced(t)
    BY <1>5 DEF CloneRefuses, Balanced, Bit, InFlight, Count, Registered
  <2> QED
    BY <2>1, <2>2
<1>6. CASE CreateTmp(t)
  <2>1. OthersStay(t) /\ NoZeroRow'
    BY <1>6 DEF CreateTmp, NoZeroRow
  <2>2. Balanced(t)
    BY <1>6 DEF CreateTmp, Balanced, Bit, InFlight, Count, Registered
  <2> QED
    BY <2>1, <2>2
<1>7. CASE WriteTmp(t)
  <2>1. OthersStay(t) /\ NoZeroRow'
    BY <1>7 DEF WriteTmp, NoZeroRow
  <2>2. Balanced(t)
    BY <1>7 DEF WriteTmp, Balanced, Bit, InFlight, Count, Registered
  <2> QED
    BY <2>1, <2>2
<1>8. CASE WriteFails(t)
  <2>1. OthersStay(t) /\ NoZeroRow'
    BY <1>8 DEF WriteFails, NoZeroRow
  <2>2. Balanced(t)
    BY <1>8 DEF WriteFails, Balanced, Bit, InFlight, Count, Registered
  <2> QED
    BY <2>1, <2>2
<1>9. CASE CommitRow(t)
  <2>1. OthersStay(t) /\ NoZeroRow'
    BY <1>9 DEF CommitRow, NoZeroRow, NoRow, BumpedRow, Registered
  <2>2. Balanced(t)
    BY <1>9 DEF CommitRow, Balanced, Bit, InFlight, Count, Registered, NoRow, BumpedRow, Registered
  <2> QED
    BY <2>1, <2>2
<1>10. CASE CommitFails(t)
  <2>1. OthersStay(t) /\ NoZeroRow'
    BY <1>10 DEF CommitFails, NoZeroRow
  <2>2. Balanced(t)
    BY <1>10 DEF CommitFails, Balanced, Bit, InFlight, Count, Registered
  <2> QED
    BY <2>1, <2>2
<1>11. CASE Rename(t)
  <2>1. OthersStay(t) /\ NoZeroRow'
    BY <1>11 DEF Rename, NoZeroRow
  <2>2. Balanced(t)
    BY <1>11 DEF Rename, Balanced, Bit, InFlight, Count, Registered
  <2> QED
    BY <2>1, <2>2
<1>12. CASE RenameFails(t)
  <2>1. OthersStay(t) /\ NoZeroRow'
    BY <1>12 DEF RenameFails, NoZeroRow
  <2>2. \A c \in Chunks : t \in InFlight(c) <=> c = arg[t]
    BY <1>12 DEF RenameFails, InFlight
  <2>3. \A c \in Chunks : t \notin InFlight(c)'
    BY <1>12 DEF RenameFails, InFlight
  <2>4. \A c \in Chunks : /\ Count(c)' - Count(c) = 0
                          /\ owned'[c] - owned[c] = 0
                          /\ lost'[c] - lost[c] = IF c = arg[t] THEN 1 ELSE 0
    BY <1>12 DEF RenameFails, Count, Registered, NoRow
  <2> QED
    BY <2>1, <2>2, <2>3, <2>4 DEF Balanced, Bit
<1> QED
  BY <1>1, <1>2, <1>3, <1>4, <1>5, <1>6, <1>7, <1>8, <1>9, <1>10, <1>11, <1>12 DEF Put

\* get and flush_access_times count nothing.
LEMMA ReadBalanced ==
    ASSUME TypeInv, NoZeroRow, NEW t \in Tasks, Read(t)
    PROVE  OthersStay(t) /\ Balanced(t) /\ NoZeroRow'
<1> USE DEF TypeInv, TypeOK, StoreOK, TasksOK, WellPlaced, Placed, PutLabels,
            GetLabels, OthersStay, At, Goto, Finish, rows, files, world, frame, ghost
<1>1. CASE GetCheck(t)
  <2>1. OthersStay(t) /\ NoZeroRow'
    BY <1>1 DEF GetCheck, NoZeroRow
  <2>2. Balanced(t)
    BY <1>1 DEF GetCheck, Balanced, Bit, InFlight, Count, Registered
  <2> QED
    BY <2>1, <2>2
<1>2. CASE GetRead(t)
  <2>1. OthersStay(t) /\ NoZeroRow'
    BY <1>2 DEF GetRead, NoZeroRow
  <2>2. Balanced(t)
    BY <1>2 DEF GetRead, Balanced, Bit, InFlight, Count, Registered
  <2> QED
    BY <2>1, <2>2
<1>3. CASE GetTouch(t)
  <2>1. OthersStay(t) /\ NoZeroRow'
    BY <1>3 DEF GetTouch, NoZeroRow
  <2>2. Balanced(t)
    BY <1>3 DEF GetTouch, Balanced, Bit, InFlight, Count, Registered
  <2> QED
    BY <2>1, <2>2
<1>4. CASE FlushDrain(t)
  <2>1. OthersStay(t) /\ NoZeroRow'
    BY <1>4 DEF FlushDrain, NoZeroRow
  <2>2. Balanced(t)
    <3>1. CASE Buffered(touched) = {}
      <4>1. /\ pc[t] = "drain" /\ op[t] \in {"get", "flush"}
            /\ pc' = [pc EXCEPT ![t] = "done"]
            /\ UNCHANGED <<refs, op, arg, owned, lost>>
        BY <1>4, <3>1 DEF FlushDrain
      <4> QED
        BY <4>1 DEF Balanced, Bit, InFlight, Count, Registered
    <3>2. CASE Buffered(touched) # {}
      BY <1>4, <3>2 DEF FlushDrain, Balanced, Bit, InFlight, Count, Registered
    <3> QED
      BY <3>1, <3>2
  <2> QED
    BY <2>1, <2>2
<1>5. CASE FlushCommit(t)
  <2>1. OthersStay(t) /\ NoZeroRow'
    BY <1>5 DEF FlushCommit, NoZeroRow
  <2>2. \A c \in Chunks : t \notin InFlight(c) /\ t \notin InFlight(c)'
    BY <1>5 DEF FlushCommit, InFlight
  <2>4. \A c \in Chunks : /\ Count(c)' - Count(c) = 0
                          /\ owned'[c] - owned[c] = 0
                          /\ lost'[c] - lost[c] = 0
    BY <1>5 DEF FlushCommit, Count, Registered, NoRow
  <2> QED
    BY <2>1, <2>2, <2>4 DEF Balanced, Bit
<1>6. CASE FlushFails(t)
  <2>1. OthersStay(t) /\ NoZeroRow'
    BY <1>6 DEF FlushFails, NoZeroRow
  <2>2. Balanced(t)
    BY <1>6 DEF FlushFails, Balanced, Bit, InFlight, Count, Registered
  <2> QED
    BY <2>1, <2>2
<1> QED
  BY <1>1, <1>2, <1>3, <1>4, <1>5, <1>6 DEF Read

\* release gives back the reference of its caller.
LEMMA ReleaseBalanced ==
    ASSUME TypeInv, NoZeroRow, NEW t \in Tasks, Release(t)
    PROVE  OthersStay(t) /\ Balanced(t) /\ NoZeroRow'
<1> USE DEF TypeInv, TypeOK, StoreOK, TasksOK, WellPlaced, Placed, PutLabels,
            GetLabels, OthersStay, At, Goto, Finish, rows, files, world, frame, ghost
<1>1. CASE ReleaseRow(t) /\ Count(arg[t]) = 0
  <2>1. OthersStay(t) /\ NoZeroRow'
    BY <1>1 DEF ReleaseRow, NoZeroRow
  <2>2. Balanced(t)
    BY <1>1 DEF ReleaseRow, Balanced, Bit, InFlight, Count, Registered
  <2> QED
    BY <2>1, <2>2
<1>2. CASE ReleaseFails(t)
  <2>1. OthersStay(t) /\ NoZeroRow'
    BY <1>2 DEF ReleaseFails, NoZeroRow
  <2>2. Balanced(t)
    BY <1>2 DEF ReleaseFails, Balanced, Bit, InFlight, Count, Registered
  <2> QED
    BY <2>1, <2>2
<1>3. CASE ReleaseRow(t) /\ Count(arg[t]) # 0
  <2>1. OthersStay(t) /\ NoZeroRow'
    BY <1>3 DEF ReleaseRow, NoZeroRow, NoRow, Count, Registered
  <2>2. Balanced(t)
    <3>1. arg[t] \in Chunks /\ refs[arg[t]] \in Nat \ {0} /\ arg' = arg
      BY <1>3 DEF ReleaseRow, Count, Registered, NoRow
    <3>2. \A c \in Chunks : t \in InFlight(c) <=> c = arg[t]
      BY <1>3 DEF ReleaseRow, InFlight
    <3>3. \A c \in Chunks : t \notin InFlight(c)'
      BY <1>3, <3>1 DEF ReleaseRow, InFlight
    <3>4. \A c \in Chunks :
              Count(c)' = IF c = arg[t] THEN Count(c) - 1 ELSE Count(c)
      BY <1>3, <3>1 DEF ReleaseRow, Count, Registered, NoRow
    <3>5. \A c \in Chunks : Count(c) \in Nat /\ owned'[c] = owned[c] /\ lost'[c] = lost[c]
      BY <1>3 DEF ReleaseRow, Count, Registered, NoRow
    <3> QED
      BY <3>2, <3>3, <3>4, <3>5 DEF Balanced, Bit
  <2> QED
    BY <2>1, <2>2
<1>4. CASE Unlink(t)
  <2>1. OthersStay(t) /\ NoZeroRow'
    BY <1>4 DEF Unlink, NoZeroRow
  <2>2. Balanced(t)
    BY <1>4 DEF Unlink, Balanced, Bit, InFlight, Count, Registered
  <2> QED
    BY <2>1, <2>2
<1> QED
  BY <1>1, <1>2, <1>3, <1>4 DEF Release

\* garbage_collect touches no count.
LEMMA CollectBalanced ==
    ASSUME TypeInv, NoZeroRow, NEW t \in Tasks, Collect(t)
    PROVE  OthersStay(t) /\ Balanced(t) /\ NoZeroRow'
<1> USE DEF TypeInv, TypeOK, StoreOK, TasksOK, WellPlaced, Placed, PutLabels,
            GetLabels, OthersStay, At, Goto, Finish, rows, files, world, frame, ghost
<1>1. CASE GcVisit(t)
  <2>1. OthersStay(t) /\ NoZeroRow'
    BY <1>1 DEF GcVisit, NoZeroRow
  <2>2. Balanced(t)
    BY <1>1 DEF GcVisit, Balanced, Bit, InFlight, Count, Registered
  <2> QED
    BY <2>1, <2>2
<1>2. CASE GcStat(t)
  <2>1. OthersStay(t) /\ NoZeroRow'
    BY <1>2 DEF GcStat, NoZeroRow
  <2>2. Balanced(t)
    BY <1>2 DEF GcStat, Balanced, Bit, InFlight, Count, Registered
  <2> QED
    BY <2>1, <2>2
<1>3. CASE GcUnlink(t)
  <2>1. OthersStay(t) /\ NoZeroRow'
    BY <1>3 DEF GcUnlink, NoZeroRow
  <2>2. Balanced(t)
    BY <1>3 DEF GcUnlink, Balanced, Bit, InFlight, Count, Registered
  <2> QED
    BY <2>1, <2>2
<1>4. CASE GcDone(t)
  <2>1. OthersStay(t) /\ NoZeroRow'
    BY <1>4 DEF GcDone, NoZeroRow
  <2>2. Balanced(t)
    BY <1>4 DEF GcDone, Balanced, Bit, InFlight, Count, Registered
  <2> QED
    BY <2>1, <2>2
<1> QED
  BY <1>1, <1>2, <1>3, <1>4 DEF Collect

\* A caller gives up a reference to release it, and gets one from put.
LEMMA CallerBalanced ==
    ASSUME TypeInv, NEW t \in Tasks, Call(t) \/ Return(t)
    PROVE  OthersStay(t) /\ Balanced(t) /\ refs' = refs
<1>1. CASE Call(t)
  <2> PICK o \in Ops, c \in Chunks :
          /\ o = "release" => owned[c] > 0
          /\ pc' = [pc EXCEPT ![t] = Entry[o]]
          /\ op' = [op EXCEPT ![t] = o]
          /\ arg' = [arg EXCEPT ![t] = IF o \in {"flush", "gc"} THEN None ELSE c]
          /\ owned' = IF o = "release" THEN [owned EXCEPT ![c] = @ - 1] ELSE owned
    BY <1>1 DEF Call, Goto
  <2>1. /\ pc[t] = "idle" /\ ok' = ok /\ lost' = lost /\ refs' = refs
    BY <1>1 DEF Call, At, rows
  <2>2. /\ o # "release" => pc'[t] \in {"probe", "check", "drain", "gcscan"}
        /\ o = "release" => pc'[t] = "release" /\ arg'[t] = c
    BY StoreParams DEF Entry, AllOps, TypeInv, TypeOK, TasksOK
  <2>3. OthersStay(t)
    BY <2>1 DEF OthersStay, TypeInv, TypeOK, TasksOK
  <2>4. Balanced(t)
    <3> SUFFICES ASSUME NEW d \in Chunks
                 PROVE  Count(d)' - Count(d)
                    = (owned'[d] - owned[d]) + (lost'[d] - lost[d])
                        + (Bit(t \in InFlight(d)') - Bit(t \in InFlight(d)))
      BY DEF Balanced
    <3>1. Count(d)' - Count(d) = 0 /\ lost'[d] - lost[d] = 0
      BY <2>1 DEF Count, Registered, TypeInv, TypeOK, StoreOK, NoRow
    <3>2. t \notin InFlight(d)
      BY <2>1 DEF InFlight, At
    <3>3. CASE o = "release" /\ d = c
      <4>1. t \in InFlight(d)'
        BY <2>2, <3>3 DEF InFlight, At
      <4>2. owned'[d] - owned[d] = -1
        BY <3>3 DEF TypeInv, TypeOK, StoreOK
      <4> QED
        BY <3>1, <3>2, <4>1, <4>2 DEF Bit
    <3>4. CASE ~(o = "release" /\ d = c)
      <4>1. t \notin InFlight(d)'
        BY <2>2, <3>4 DEF InFlight, At
      <4>2. owned'[d] - owned[d] = 0
        BY <3>4 DEF TypeInv, TypeOK, StoreOK
      <4> QED
        BY <3>1, <3>2, <4>1, <4>2 DEF Bit
    <3> QED
      BY <3>3, <3>4
  <2> QED
    BY <2>1, <2>3, <2>4
<1>2. CASE Return(t)
  <2>1. OthersStay(t) /\ refs' = refs
    BY <1>2 DEF Return, At, Goto, OthersStay, rows, TypeInv, TypeOK, TasksOK
  <2>2. op[t] \in {"put", "release"} => arg[t] \in Chunks
    BY <1>2 DEF Return, At, TypeInv, WellPlaced, Placed
  <2>3. \A d \in Chunks : t \notin InFlight(d)'
    BY <1>2 DEF Return, Goto, InFlight, At, TypeInv, TypeOK, TasksOK
  <2>4. \A d \in Chunks : t \in InFlight(d) <=>
            /\ d = arg[t]
            /\ \/ op[t] = "put" /\ t \in ok
               \/ op[t] = "release" /\ t \notin ok
    BY <1>2 DEF Return, InFlight, At
  <2>5. Balanced(t)
    BY <1>2, <2>1, <2>2, <2>3, <2>4
       DEF Return, Balanced, Bit, Count, Registered, NoRow, TypeInv, TypeOK, StoreOK
  <2> QED
    BY <2>1, <2>5
<1> QED
  BY <1>1, <1>2

AccountInv == TypeInv /\ RefsAccounted /\ NoZeroRow

LEMMA AccountInit == Init => AccountInv
<1> SUFFICES ASSUME Init PROVE AccountInv
  OBVIOUS
<1>1. \A c \in Chunks : InFlight(c) = {}
  BY DEF Init, InFlight, At
<1>2. RefsAccounted
  BY <1>1, FS_EmptySet DEF Init, RefsAccounted, Count, Registered
<1>3. NoZeroRow
  BY DEF Init, NoZeroRow, NoRow
<1> QED
  BY TypeInit, <1>2, <1>3 DEF AccountInv

LEMMA AccountStep == AccountInv /\ [Next]_vars => AccountInv'
<1> SUFFICES ASSUME AccountInv, [Next]_vars PROVE AccountInv'
  OBVIOUS
<1>1. TypeInv'
  BY TypeStep DEF AccountInv
<1>2. ASSUME NEW t \in Tasks, Call(t) \/ Return(t) PROVE AccountInv'
  BY <1>1, <1>2, CallerBalanced, BalanceKept DEF AccountInv, NoZeroRow
<1>3. ASSUME NEW t \in Tasks, Step(t) PROVE AccountInv'
  <2>1. OthersStay(t) /\ Balanced(t) /\ NoZeroRow'
    BY <1>3, PutBalanced, ReadBalanced, ReleaseBalanced, CollectBalanced
       DEF AccountInv, Step
  <2> QED
    BY <1>1, <2>1, BalanceKept DEF AccountInv
<1>4. CASE Crash
  <2>1. \A c \in Chunks : InFlight(c)' = {}
    BY <1>4 DEF Crash, InFlight, At
  <2>2. \A c \in Chunks : Cardinality(InFlight(c)') = 0
    BY <2>1, FS_EmptySet
  <2>3. \A c \in Chunks : /\ Count(c)' = Count(c)
                          /\ owned'[c] = owned[c]
                          /\ lost'[c] = lost[c] + Cardinality(InFlight(c))
    BY <1>4 DEF Crash, Count, Registered, rows
  <2>4. \A c \in Chunks : /\ owned[c] \in Nat /\ lost[c] \in Nat
                          /\ Cardinality(InFlight(c)) \in Nat
    BY InFlightFinite DEF AccountInv, TypeInv, TypeOK, StoreOK
  <2>5. RefsAccounted'
    BY <2>2, <2>3, <2>4 DEF AccountInv, RefsAccounted
  <2>6. NoZeroRow'
    BY <1>4 DEF Crash, rows, AccountInv, NoZeroRow
  <2> QED
    BY <1>1, <2>5, <2>6 DEF AccountInv
<1>5. CASE Tick \/ UNCHANGED vars
  <2>1. UNCHANGED <<refs, owned, lost, pc, op, arg, ok>>
    BY <1>5 DEF Tick, vars, rows, world, frame, ghost
  <2>2. \A c \in Chunks : InFlight(c)' = InFlight(c) /\ Count(c)' = Count(c)
    BY <2>1 DEF InFlight, Count, Registered, At
  <2>3. RefsAccounted' /\ NoZeroRow'
    BY <2>1, <2>2 DEF AccountInv, RefsAccounted, NoZeroRow
  <2> QED
    BY <1>1, <2>3 DEF AccountInv
<1> QED
  BY <1>2, <1>3, <1>4, <1>5 DEF Next

\* Whatever puts, releases and collections interleave, whichever of them fail
\* and wherever the process crashes, the refcount of a chunk is the number of
\* references callers hold, calls in progress hold, and failures have lost.
THEOREM ReferencesKept == Spec => []RefsAccounted
<1>1. Spec => []AccountInv
  BY AccountInit, AccountStep, PTL DEF Spec
<1>2. AccountInv => RefsAccounted
  BY DEF AccountInv
<1> QED
  BY <1>1, <1>2, PTL

\* release removes a row rather than store a zero, so its RefcountUnderflow
\* branch is never taken.
THEOREM NoUnderflow == Spec => []NoZeroRow
<1>1. Spec => []AccountInv
  BY AccountInit, AccountStep, PTL DEF Spec
<1>2. AccountInv => NoZeroRow
  BY DEF AccountInv
<1> QED
  BY <1>1, <1>2, PTL

-----------------------------------------------------------------------------
(* A blob in place has a row, as long as nothing is released.              *)

BlobInv ==
    /\ TypeInv
    /\ BlobHasRow
    /\ \A t \in Tasks : /\ pc[t] \notin {"release", "unlink"}
                        /\ pc[t] = "rename" => Registered(arg[t])

LEMMA BlobStep ==
    ASSUME "release" \notin Ops, BlobInv, [Next]_vars
    PROVE  BlobInv'
<1>1. TypeInv'
  BY TypeStep DEF BlobInv
<1> USE DEF BlobInv, TypeInv, TypeOK, StoreOK, TasksOK, WellPlaced, Placed,
            PutLabels, GetLabels, At, Goto, Finish, rows, files, world, frame, ghost,
            BlobHasRow, Registered, NoRow
<1>2. ASSUME NEW t \in Tasks, Call(t) PROVE BlobInv'
  <2> PICK o \in Ops : pc' = [pc EXCEPT ![t] = Entry[o]]
    BY <1>2 DEF Call
  <2>1. pc'[t] \in {"probe", "check", "drain", "gcscan"}
    BY StoreParams DEF Entry, AllOps
  <2>2. \A u \in Tasks \ {t} : pc'[u] = pc[u] /\ arg'[u] = arg[u]
    BY <1>2 DEF Call
  <2>3. refs' = refs /\ bin' = bin
    BY <1>2 DEF Call
  <2> QED
    BY <1>1, <2>1, <2>2, <2>3
<1>3. ASSUME NEW t \in Tasks, Return(t) PROVE BlobInv'
  BY <1>1, <1>3 DEF Return
<1>4. ASSUME NEW t \in Tasks, Put(t) PROVE BlobInv'
  <2>1. CASE ProbeHit(t)
    BY <1>1, <2>1 DEF ProbeHit
  <2>2. CASE ProbeHitFails(t) \/ ProbeMiss(t)
    BY <1>1, <2>2 DEF ProbeHitFails, ProbeMiss
  <2>3. CASE CloneTmp(t) \/ CloneRefuses(t)
    BY <1>1, <2>3 DEF CloneTmp, CloneRefuses
  <2>4. CASE CreateTmp(t) \/ WriteTmp(t) \/ WriteFails(t)
    BY <1>1, <2>4 DEF CreateTmp, WriteTmp, WriteFails
  <2>5. CASE CommitRow(t)
    BY <1>1, <2>5 DEF CommitRow, BumpedRow
  <2>6. CASE CommitFails(t) \/ RenameFails(t)
    BY <1>1, <2>6 DEF CommitFails, RenameFails
  <2>7. CASE Rename(t)
    BY <1>1, <2>7 DEF Rename
  <2> QED
    BY <1>4, <2>1, <2>2, <2>3, <2>4, <2>5, <2>6, <2>7 DEF Put
<1>5. ASSUME NEW t \in Tasks, Read(t) PROVE BlobInv'
  <2>1. /\ refs' = refs /\ bin' = bin /\ arg' = arg
        /\ \E l \in Labels \ {"rename", "release", "unlink"} : pc' = [pc EXCEPT ![t] = l]
    BY <1>5 DEF Read, GetCheck, GetRead, GetTouch, FlushDrain, FlushCommit, FlushFails,
                Labels
  <2> QED
    BY <1>1, <2>1
<1>6. ASSUME NEW t \in Tasks, Collect(t) PROVE BlobInv'
  <2>1. CASE GcVisit(t)
    BY <1>1, <2>1 DEF GcVisit
  <2>2. CASE GcStat(t) \/ GcDone(t)
    BY <1>1, <2>2 DEF GcStat, GcDone
  <2>3. CASE GcUnlink(t)
    BY <1>1, <2>3 DEF GcUnlink
  <2> QED
    BY <1>6, <2>1, <2>2, <2>3 DEF Collect
<1>7. ASSUME NEW t \in Tasks, Release(t) PROVE BlobInv'
  BY <1>7 DEF Release, ReleaseFails, ReleaseRow, Unlink
<1>8. CASE Crash
  BY <1>1, <1>8 DEF Crash
<1>9. CASE Tick \/ UNCHANGED vars
  BY <1>1, <1>9 DEF Tick, vars
<1> QED
  BY <1>2, <1>3, <1>4, <1>5, <1>6, <1>7, <1>8, <1>9 DEF Next, Step

\* While no chunk is released, concurrent puts, crashes and failures never
\* leave a blob without its row: the blob is renamed after the row commits,
\* so garbage_collect has nothing to take from a put in progress.
THEOREM BlobsRegistered ==
    ASSUME "release" \notin Ops PROVE Spec => []BlobHasRow
<1>1. Init => BlobInv
  <2>1. Init => TypeInv
    BY TypeInit
  <2> QED
    BY <2>1 DEF Init, BlobInv, BlobHasRow
<1>2. BlobInv /\ [Next]_vars => BlobInv'
  BY BlobStep
<1>3. BlobInv => BlobHasRow
  BY DEF BlobInv
<1> QED
  BY <1>1, <1>2, <1>3, PTL DEF Spec

-----------------------------------------------------------------------------
(* One call at a time: bytes survive crashes, owned chunks can be read and *)
(* released ones are gone.                                                 *)

OneTask == \A t, u \in Tasks : t = u

\* A file has one name.
OneName ==
    \A c, d \in Chunks :
        /\ bin[c] = bin[d] /\ bin[c] # None => c = d
        /\ tmp[c] = tmp[d] /\ tmp[c] # None => c = d
        /\ bin[c] # None => bin[c] # tmp[d]

\* What a call in progress relies on: what the probe or the walk found is
\* still so, and the temporary file is the one that was written.
Undisturbed ==
    \A t \in Tasks :
        /\ pc[t] \in {"clone", "create", "write", "commit", "unlink", "gcstat",
                      "gcunlink"} => ~Registered(arg[t])
        /\ pc[t] = "write" => fd[t] = tmp[arg[t]]
        /\ pc[t] \in {"commit", "rename"} => tmp[arg[t]] \in whole
        /\ pc[t] = "rename" => Registered(arg[t])

\* Without a crash row and blob come and go together, but for the step of a
\* call that changes the second of them, and no reference is lost.
InStep ==
    ~crashed => \A c \in Chunks :
        /\ lost[c] = 0
        /\ Registered(c) => \/ bin[c] \in whole
                            \/ \E t \in Tasks : pc[t] = "rename" /\ arg[t] = c
        /\ bin[c] # None => \/ Registered(c)
                            \/ \E t \in Tasks : pc[t] = "unlink" /\ arg[t] = c

SingleInv == OneName /\ Undisturbed /\ BytesSurvive /\ InStep

LEMMA SingleInit == Init => SingleInv
BY DEF Init, SingleInv, OneName, Undisturbed, BytesSurvive, InStep, Registered

LEMMA SinglePut ==
    ASSUME OneTask, AccountInv, SingleInv, NEW t \in Tasks, Put(t)
    PROVE  SingleInv'
<1>a. \A u \in Tasks : u = t
  BY DEF OneTask
<1> USE StoreParams, <1>a
    DEF AccountInv, TypeInv, TypeOK, StoreOK, TasksOK, WellPlaced, Placed, PutLabels,
        GetLabels, At, Goto, Finish, rows, files, world, frame, ghost, SingleInv,
        OneName, Undisturbed, BytesSurvive, InStep, Registered, NoRow
<1>1. CASE ProbeHit(t)
  BY <1>1 DEF ProbeHit
<1>2. CASE ProbeHitFails(t)
  BY <1>2 DEF ProbeHitFails
<1>3. CASE ProbeMiss(t)
  BY <1>3 DEF ProbeMiss
<1>4. CASE CloneTmp(t)
  BY <1>4 DEF CloneTmp, OpenTmp, Free
<1>5. CASE CloneRefuses(t)
  BY <1>5 DEF CloneRefuses
<1>6. CASE CreateTmp(t)
  BY <1>6 DEF CreateTmp, OpenTmp, Free
<1>7. CASE WriteTmp(t)
  BY <1>7 DEF WriteTmp
<1>8. CASE WriteFails(t)
  BY <1>8 DEF WriteFails
<1>9. CASE CommitRow(t)
  BY <1>9 DEF CommitRow, BumpedRow
<1>10. CASE CommitFails(t)
  BY <1>10 DEF CommitFails
<1>11. CASE Rename(t)
  BY <1>11 DEF Rename
<1>12. CASE RenameFails(t)
  BY <1>12 DEF RenameFails
<1> QED
  BY <1>1, <1>2, <1>3, <1>4, <1>5, <1>6, <1>7, <1>8, <1>9, <1>10, <1>11, <1>12 DEF Put

LEMMA SingleRead ==
    ASSUME OneTask, AccountInv, SingleInv, NEW t \in Tasks, Read(t)
    PROVE  SingleInv'
<1>1. /\ UNCHANGED <<refs, bin, tmp, whole, crashed, arg, fd, lost>>
      /\ \E l \in Labels : pc' = [pc EXCEPT ![t] = l]
            /\ l \in {"read", "touch", "drain", "flush", "done"}
      /\ pc[t] \in {"check", "read", "touch", "drain", "flush"}
  BY DEF Read, GetCheck, GetRead, GetTouch, FlushDrain, FlushCommit, FlushFails,
         Labels, At, Goto, Finish, rows, files, world, frame, ghost
<1> QED
  BY <1>1
  DEF OneTask, AccountInv, TypeInv, TypeOK, TasksOK, SingleInv, OneName, Undisturbed,
      BytesSurvive, InStep, Registered

LEMMA SingleRelease ==
    ASSUME OneTask, AccountInv, SingleInv, NEW t \in Tasks, Release(t)
    PROVE  SingleInv'
<1>a. \A u \in Tasks : u = t
  BY DEF OneTask
<1> USE StoreParams, <1>a
    DEF AccountInv, TypeInv, TypeOK, StoreOK, TasksOK, WellPlaced, Placed, PutLabels,
        GetLabels, At, Goto, Finish, rows, files, world, frame, ghost, SingleInv,
        OneName, Undisturbed, BytesSurvive, InStep, Registered, NoRow
<1>1. CASE ReleaseFails(t)
  BY <1>1 DEF ReleaseFails
<1>2. CASE ReleaseRow(t)
  BY <1>2 DEF ReleaseRow, Count, NoZeroRow
<1>3. CASE Unlink(t)
  BY <1>3 DEF Unlink
<1> QED
  BY <1>1, <1>2, <1>3 DEF Release

LEMMA SingleCollect ==
    ASSUME OneTask, AccountInv, SingleInv, NEW t \in Tasks, Collect(t)
    PROVE  SingleInv'
<1>a. \A u \in Tasks : u = t
  BY DEF OneTask
<1> USE StoreParams, <1>a
    DEF AccountInv, TypeInv, TypeOK, StoreOK, TasksOK, WellPlaced, Placed, PutLabels,
        GetLabels, At, Goto, Finish, rows, files, world, frame, ghost, SingleInv,
        OneName, Undisturbed, BytesSurvive, InStep, Registered, NoRow
<1>1. CASE GcVisit(t)
  BY <1>1 DEF GcVisit
<1>2. CASE GcStat(t)
  BY <1>2 DEF GcStat
<1>3. CASE GcUnlink(t)
  BY <1>3 DEF GcUnlink
<1>4. CASE GcDone(t)
  BY <1>4 DEF GcDone
<1> QED
  BY <1>1, <1>2, <1>3, <1>4 DEF Collect

LEMMA SingleStep ==
    ASSUME OneTask
    PROVE  AccountInv /\ SingleInv /\ [Next]_vars => SingleInv'
<1> SUFFICES ASSUME AccountInv, SingleInv, [Next]_vars PROVE SingleInv'
  OBVIOUS
<1> USE DEF SingleInv, OneName, Undisturbed, BytesSurvive, InStep, Registered
<1>1. ASSUME NEW t \in Tasks, Call(t) PROVE SingleInv'
  <2> PICK o \in Ops : pc' = [pc EXCEPT ![t] = Entry[o]]
    BY <1>1 DEF Call, Goto
  <2>1. Entry[o] \in {"probe", "check", "release", "drain", "gcscan"}
    BY StoreParams DEF Entry, AllOps
  <2>2. UNCHANGED <<refs, bin, tmp, whole, crashed, fd, lost>> /\ pc[t] = "idle"
    BY <1>1 DEF Call, At, rows, files, world
  <2>3. pc'[t] = Entry[o] /\ \A u \in Tasks : u = t
    BY DEF OneTask, AccountInv, TypeInv, TypeOK, TasksOK
  <2> QED
    BY <2>1, <2>2, <2>3
<1>2. ASSUME NEW t \in Tasks, Return(t) PROVE SingleInv'
  <2>1. UNCHANGED <<refs, bin, tmp, whole, crashed, fd, lost>>
        /\ pc[t] = "done" /\ pc'[t] = "idle"
    BY <1>2 DEF Return, At, Goto, rows, files, world, AccountInv, TypeInv, TypeOK, TasksOK
  <2> QED
    BY <2>1 DEF OneTask
<1>3. CASE Crash
  BY <1>3 DEF Crash, rows, files
<1>4. CASE Tick \/ UNCHANGED vars
  BY <1>4 DEF Tick, vars, rows, files, world, frame, ghost
<1>5. ASSUME NEW t \in Tasks, Step(t) PROVE SingleInv'
  BY <1>5, SinglePut, SingleRead, SingleRelease, SingleCollect DEF Step
<1> QED
  BY <1>1, <1>2, <1>3, <1>4, <1>5 DEF Next

LEMMA SingleInvariant ==
    ASSUME OneTask PROVE Spec => [](AccountInv /\ SingleInv)
<1>1. AccountInv /\ SingleInv /\ [Next]_vars => SingleInv'
  BY SingleStep
<1> QED
  BY AccountInit, AccountStep, SingleInit, <1>1, PTL DEF Spec

\* When no call is in progress, the references are those of the callers and
\* the lost ones.
LEMMA QuietCount ==
    ASSUME AccountInv, Quiet, NEW c \in Chunks
    PROVE  Count(c) = owned[c] + lost[c]
<1>1. InFlight(c) = {}
  BY DEF Quiet, InFlight, At
<1>2. Cardinality(InFlight(c)) = 0
  BY <1>1, FS_EmptySet
<1> QED
  BY <1>2 DEF AccountInv, RefsAccounted, TypeInv, TypeOK, StoreOK

\* With one call at a time, the bytes of a registered chunk are on disk
\* wherever the process dies: put_with_hash_from syncs the temporary file
\* before the row commits and renames it after.
THEOREM BytesOnDisk == ASSUME OneTask PROVE Spec => []BytesSurvive
<1>1. SingleInv => BytesSurvive
  BY DEF SingleInv
<1>2. Spec => [](AccountInv /\ SingleInv)
  BY SingleInvariant
<1> QED
  BY <1>1, <1>2, PTL

\* With one call at a time and no crash, a chunk that a caller owns can be
\* read, whatever writes and commits failed.
THEOREM OwnedIsReadable == ASSUME OneTask PROVE Spec => []OwnedReadable
<1>1. AccountInv /\ SingleInv => OwnedReadable
  <2> SUFFICES ASSUME AccountInv, SingleInv, Quiet, ~crashed,
                      NEW c \in Chunks, owned[c] > 0
               PROVE  bin[c] \in whole
    BY DEF OwnedReadable
  <2>1. Count(c) > 0
    BY QuietCount DEF AccountInv, TypeInv, TypeOK, StoreOK
  <2>2. Registered(c)
    BY <2>1 DEF Count
  <2> QED
    BY <2>2 DEF SingleInv, InStep, Quiet, At
<1>2. Spec => [](AccountInv /\ SingleInv)
  BY SingleInvariant
<1> QED
  BY <1>1, <1>2, PTL

\* With one call at a time and no crash, a chunk that nobody owns any more has
\* neither row nor blob: release deletes the blob with the last reference, and
\* no failing put leaves a reference behind.
THEOREM ReleasedLeavesNothing == ASSUME OneTask PROVE Spec => []ReleasedIsGone
<1>1. AccountInv /\ SingleInv => ReleasedIsGone
  <2> SUFFICES ASSUME AccountInv, SingleInv, Quiet, ~crashed,
                      NEW c \in Chunks, owned[c] = 0
               PROVE  ~Registered(c) /\ bin[c] = None
    BY DEF ReleasedIsGone
  <2>1. lost[c] = 0
    BY DEF SingleInv, InStep
  <2>2. Count(c) = 0
    BY <2>1, QuietCount
  <2>3. ~Registered(c)
    BY <2>2 DEF Count, AccountInv, NoZeroRow
  <2> QED
    BY <2>3 DEF SingleInv, InStep, Quiet, At
<1>2. Spec => [](AccountInv /\ SingleInv)
  BY SingleInvariant
<1> QED
  BY <1>1, <1>2, PTL

-----------------------------------------------------------------------------
(* Any number of puts at a time: owned chunks can be read.                 *)

\* A file with a name is whole, or a put is writing it.
Content ==
    \A c \in Chunks : \A i \in {bin[c], tmp[c]} \ {None} :
        i \in whole \/ \E t \in Tasks : pc[t] = "write" /\ fd[t] = i

\* A put that is past the creation of the temporary file finds it, or the blob
\* another put made of it, or is followed by the put that deleted it.
Remade ==
    \A c \in Chunks :
        (\E t \in Tasks : pc[t] \in {"write", "commit", "rename"} /\ arg[t] = c) =>
            \/ bin[c] # None \/ tmp[c] # None
            \/ \E t \in Tasks : pc[t] = "create" /\ arg[t] = c

\* A row has a blob, or a put that is about to make one.
Backed ==
    \A c \in Chunks : Registered(c) =>
        \/ bin[c] # None
        \/ \E t \in Tasks : /\ pc[t] \in {"create", "write", "commit", "rename"}
                            /\ arg[t] = c

PutsInv ==
    /\ \A t \in Tasks : pc[t] \notin {"gcstat", "gcunlink"}
    /\ ~crashed => OneName /\ Content /\ Remade /\ Backed

LEMMA PutsInit == Init => PutsInv
BY DEF Init, PutsInv, OneName, Content, Remade, Backed, Registered

\* A step that leaves rows and files alone, and every put where it is between
\* the creation of its temporary file and its end.
LEMMA PutsFrame ==
    ASSUME PutsInv, UNCHANGED <<bin, tmp, whole, crashed, fd>>,
           \A c \in Chunks : Registered(c)' => Registered(c),
           \A t \in Tasks :
              /\ pc[t] \in {"create", "write", "commit", "rename"} =>
                    pc'[t] = pc[t] /\ arg'[t] = arg[t]
              /\ pc'[t] \in {"write", "commit", "rename"} => pc'[t] = pc[t]
              /\ pc'[t] \notin {"gcstat", "gcunlink"}
    PROVE  PutsInv'
<1>1. OneName => OneName'
  BY DEF OneName
<1>2. Content => Content'
  BY DEF Content
<1>3. Remade => Remade'
  BY DEF Remade
<1>4. Backed => Backed'
  BY DEF Backed
<1> QED
  BY <1>1, <1>2, <1>3, <1>4 DEF PutsInv

\* A put that ends with the blob or the temporary file still there leaves the
\* others what they rely on.
LEMMA PutsRename ==
    ASSUME NEW t \in Tasks, pc \in [Tasks -> Labels], pc[t] = "rename",
           arg' = arg, pc' = [pc EXCEPT ![t] = "done"],
           \A c \in Chunks : bin[c] # None => bin'[c] # None,
           \A c \in Chunks : tmp[c] # None => bin'[c] # None \/ tmp'[c] # None
    PROVE  Remade => Remade'
<1>1. \A u \in Tasks \ {t} : pc'[u] = pc[u]
  OBVIOUS
<1>2. pc'[t] = "done"
  OBVIOUS
<1> QED
  BY <1>1, <1>2 DEF Remade

LEMMA PutsPut ==
    ASSUME Faults = {}, BlobInv, PutsInv, NEW t \in Tasks, Put(t)
    PROVE  PutsInv'
<1>0. pc \in [Tasks -> Labels]
  BY DEF BlobInv, TypeInv, TypeOK, TasksOK
<1> USE StoreParams
    DEF BlobInv, TypeInv, TypeOK, StoreOK, TasksOK, WellPlaced, Placed, PutLabels,
        GetLabels, At, Goto, Finish, rows, files, world, frame, ghost, PutsInv,
        Registered, NoRow
<1>1. CASE ProbeHit(t) \/ ProbeMiss(t)
  <2>1. UNCHANGED <<bin, tmp, whole, crashed, fd, arg>> /\ pc[t] = "probe"
        /\ \A c \in Chunks : Registered(c)' => Registered(c)
    BY <1>1 DEF ProbeHit, ProbeMiss
  <2>2. \E l \in {"done", "clone", "create"} : pc' = [pc EXCEPT ![t] = l]
    BY <1>1 DEF ProbeHit, ProbeMiss
  <2> QED
    BY <2>1, <2>2, PutsFrame
<1>2. CASE CloneTmp(t)
  <2>1. OneName /\ ~crashed' => OneName'
    BY <1>2 DEF CloneTmp, OpenTmp, Free, OneName
  <2>2. Content /\ ~crashed' => Content'
    BY <1>2 DEF CloneTmp, OpenTmp, Free, Content
  <2>3. Remade /\ Backed => Remade' /\ Backed'
    BY <1>2 DEF CloneTmp, Remade, Backed
  <2> QED
    BY <1>2, <2>1, <2>2, <2>3 DEF CloneTmp
<1>3. CASE CloneRefuses(t)
  BY <1>3 DEF CloneRefuses, OneName, Content, Remade, Backed
<1>4. CASE CreateTmp(t)
  <2>1. OneName => OneName'
    BY <1>4 DEF CreateTmp, OpenTmp, Free, OneName
  <2>2. Content => Content'
    BY <1>4 DEF CreateTmp, OpenTmp, Free, Content
  <2>3. Remade /\ Backed => Remade' /\ Backed'
    BY <1>4 DEF CreateTmp, Remade, Backed
  <2> QED
    BY <1>4, <2>1, <2>2, <2>3 DEF CreateTmp
<1>5. CASE WriteTmp(t)
  <2>1. OneName => OneName'
    BY <1>5 DEF WriteTmp, OneName
  <2>2. Content => Content'
    BY <1>5 DEF WriteTmp, Content
  <2>3. Remade => Remade'
    BY <1>5 DEF WriteTmp, Remade
  <2>4. Backed => Backed'
    BY <1>5 DEF WriteTmp, Backed
  <2> QED
    BY <1>5, <2>1, <2>2, <2>3, <2>4 DEF WriteTmp
<1>6. CASE CommitRow(t)
  BY <1>6 DEF CommitRow, BumpedRow, OneName, Content, Remade, Backed
<1>7. CASE Rename(t)
  <2>1. OneName => OneName'
    BY <1>7 DEF Rename, OneName
  <2>2. Content => Content'
    BY <1>7 DEF Rename, Content
  <2>3. /\ \A c \in Chunks : bin[c] # None => bin'[c] # None
        /\ \A c \in Chunks : tmp[c] # None => bin'[c] # None \/ tmp'[c] # None
        /\ \A c \in Chunks : Registered(c)' = Registered(c)
        /\ bin'[arg[t]] # None /\ arg' = arg /\ pc' = [pc EXCEPT ![t] = "done"]
        /\ pc[t] = "rename"
    BY <1>7 DEF Rename
  <2>4. Remade => Remade'
    BY <1>0, <2>3, PutsRename
  <2>5. Backed => Backed'
    BY <2>3 DEF Backed
  <2> QED
    BY <1>7, <2>1, <2>2, <2>4, <2>5 DEF Rename
<1>8. CASE RenameFails(t)
  <2>1. OneName => OneName'
    BY <1>8 DEF RenameFails, OneName
  <2>2. Content => Content'
    BY <1>8 DEF RenameFails, Content
  <2>3. UNCHANGED <<bin, tmp, refs, arg>> /\ pc' = [pc EXCEPT ![t] = "done"]
        /\ pc[t] = "rename" /\ tmp[arg[t]] = None
    BY <1>8 DEF RenameFails
  <2>4. Remade => Remade'
    BY <1>0, <2>3, PutsRename
  <2>5. Remade /\ Backed => Backed'
    BY <2>3 DEF Remade, Backed
  <2> QED
    BY <1>8, <2>1, <2>2, <2>4, <2>5 DEF RenameFails
<1> QED
  BY <1>1, <1>2, <1>3, <1>4, <1>5, <1>6, <1>7, <1>8
  DEF Put, ProbeHitFails, WriteFails, CommitFails

LEMMA PutsStep ==
    ASSUME "release" \notin Ops, Faults = {}
    PROVE  BlobInv /\ PutsInv /\ [Next]_vars => PutsInv'
<1> SUFFICES ASSUME BlobInv, PutsInv, [Next]_vars PROVE PutsInv'
  OBVIOUS
<1>0. TypeInv
  BY DEF BlobInv
<1>1. ASSUME NEW t \in Tasks, Call(t) PROVE PutsInv'
  <2> PICK o \in Ops : pc' = [pc EXCEPT ![t] = Entry[o]]
    BY <1>1 DEF Call, Goto
  <2>1. Entry[o] \in {"probe", "check", "release", "drain", "gcscan"}
    BY StoreParams DEF Entry, AllOps
  <2>2. UNCHANGED <<refs, bin, tmp, whole, crashed, fd>> /\ pc[t] = "idle"
        /\ \A u \in Tasks \ {t} : pc'[u] = pc[u] /\ arg'[u] = arg[u]
    BY <1>0, <1>1 DEF Call, At, rows, files, world, TypeInv, TypeOK, TasksOK
  <2>3. pc'[t] = Entry[o]
    BY <1>0 DEF TypeInv, TypeOK, TasksOK
  <2> QED
    BY <2>1, <2>2, <2>3, PutsFrame DEF PutsInv, Registered
<1>2. ASSUME NEW t \in Tasks, Return(t) PROVE PutsInv'
  <2>1. /\ UNCHANGED <<refs, bin, tmp, whole, crashed, fd>>
        /\ pc[t] = "done" /\ pc'[t] = "idle"
        /\ \A u \in Tasks \ {t} : pc'[u] = pc[u] /\ arg'[u] = arg[u]
    BY <1>0, <1>2 DEF Return, At, Goto, rows, files, world, TypeInv, TypeOK, TasksOK
  <2>2. \A c \in Chunks : Registered(c)' = Registered(c)
    BY <2>1 DEF Registered
  <2> QED
    BY <2>1, <2>2, PutsFrame DEF PutsInv
<1>3. ASSUME NEW t \in Tasks, Read(t) PROVE PutsInv'
  <2>1. /\ UNCHANGED <<refs, bin, tmp, whole, crashed, arg, fd>>
        /\ \E l \in {"read", "touch", "drain", "flush", "done"} :
              pc' = [pc EXCEPT ![t] = l]
        /\ pc[t] \in {"check", "read", "touch", "drain", "flush"}
    BY <1>3 DEF Read, GetCheck, GetRead, GetTouch, FlushDrain, FlushCommit, FlushFails,
                At, Goto, Finish, rows, files, world, frame
  <2>2. \A c \in Chunks : Registered(c)' = Registered(c)
    BY <2>1 DEF Registered
  <2>3. PICK l \in {"read", "touch", "drain", "flush", "done"} :
          pc' = [pc EXCEPT ![t] = l]
    BY <2>1
  <2>4. pc'[t] = l /\ \A u \in Tasks \ {t} : pc'[u] = pc[u]
    BY <1>0, <2>3 DEF TypeInv, TypeOK, TasksOK
  <2> QED
    BY <2>1, <2>2, <2>4, PutsFrame DEF PutsInv
<1>4. ASSUME NEW t \in Tasks, Collect(t) PROVE PutsInv'
  \* Every blob has its row: the walk only passes by.
  <2>1. /\ UNCHANGED <<refs, bin, tmp, whole, crashed, fd>>
        /\ \/ UNCHANGED <<pc, arg>>
           \/ arg' = arg /\ pc[t] = "gcscan" /\ pc' = [pc EXCEPT ![t] = "done"]
    BY <1>4 DEF Collect, GcVisit, GcStat, GcUnlink, GcDone, At, Goto, Finish, rows,
                files, world, frame, BlobInv, BlobHasRow, PutsInv, Registered
  <2> QED
    BY <1>0, <2>1, PutsFrame DEF TypeInv, TypeOK, TasksOK, PutsInv, Registered
<1>5. ASSUME NEW t \in Tasks, Release(t) PROVE PutsInv'
  BY <1>5 DEF Release, ReleaseFails, ReleaseRow, Unlink, At, BlobInv
<1>6. CASE Crash
  BY <1>6 DEF Crash, PutsInv
<1>7. CASE Tick \/ UNCHANGED vars
  <2>1. UNCHANGED <<refs, bin, tmp, whole, crashed, fd, pc, arg>>
    BY <1>7 DEF Tick, vars, rows, files, world, frame
  <2> QED
    BY <2>1, PutsFrame DEF PutsInv, Registered
<1> QED
  BY <1>1, <1>2, <1>3, <1>4, <1>5, <1>6, <1>7, PutsPut DEF Next, Step

\* With any number of concurrent puts, which all write one temporary name, and
\* with gets, flushes and collections among them, a chunk that a caller owns
\* can be read once the calls have returned, when nothing is released, no
\* write and no commit fails and the process has not died: the put that
\* deletes or renames the file of another one leaves, or makes, a whole blob.
THEOREM SharedTmpReadable ==
    ASSUME "release" \notin Ops, Faults = {}
    PROVE  Spec => []OwnedReadable
<1>1. Init => AccountInv /\ BlobInv /\ PutsInv
  <2>1. Init => TypeInv
    BY TypeInit
  <2>2. Init => BlobInv
    BY <2>1 DEF Init, BlobInv, BlobHasRow
  <2> QED
    BY <2>2, AccountInit, PutsInit
<1>2. BlobInv /\ PutsInv /\ [Next]_vars => BlobInv' /\ PutsInv'
  BY BlobStep, PutsStep
<1>3. AccountInv /\ PutsInv => OwnedReadable
  <2> SUFFICES ASSUME AccountInv, PutsInv, Quiet, ~crashed,
                      NEW c \in Chunks, owned[c] > 0
               PROVE  bin[c] \in whole
    BY DEF OwnedReadable
  <2>1. Count(c) > 0
    BY QuietCount DEF AccountInv, TypeInv, TypeOK, StoreOK
  <2>2. Registered(c)
    BY <2>1 DEF Count
  <2>3. bin[c] # None
    BY <2>2 DEF PutsInv, Backed, Quiet, At
  <2> QED
    BY <2>3 DEF PutsInv, Content, Quiet, At
<1> QED
  BY <1>1, <1>2, <1>3, AccountStep, PTL DEF Spec

=============================================================================
