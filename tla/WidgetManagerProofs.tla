------------------------- MODULE WidgetManagerProofs -------------------------
(***************************************************************************)
(* Proofs about WidgetManager, for any widgets, callers, flushers, faults, *)
(* layout versions and failed transactions.                                *)
(***************************************************************************)
EXTENDS WidgetManager, TLAPS

-----------------------------------------------------------------------------
(* Type correctness.  Only ids that create has drawn are anywhere.         *)

Known ==
    /\ \A t \in Tasks : step[t] # "idle" => on[t] \in born
    /\ dirty \subseteq born
    /\ \A f \in Flushers : taken[f] \subseteq born
    /\ \A f \in Flushers, w \in Widgets : batch[f][w] # None => w \in born
    /\ \A w \in Widgets : final[w] # None \/ row[w] # None => w \in born

Types == TypeOK /\ Known

LEMMA TypeInit == Init => Types
BY DEF Init, Types, TypeOK, Known, Phases, FlushSteps, CallSteps, NoRows, Row

\* What the types say of the store.
StoreOK ==
    /\ row \in [Widgets -> Row]
    /\ \A w \in Widgets : row[w] # None => w \in born
    /\ fails \in Nat
    /\ raced \cup overtaken \subseteq born

LEMMA StoreFails ==
    ASSUME Types, CommitFails, born' = born
    PROVE  StoreOK'
BY DEF Types, TypeOK, Known, StoreOK, CommitFails

LEMMA StoreRows ==
    ASSUME Types, NEW rows \in [Widgets -> Row], NEW b \in BOOLEAN,
           CommitRows(rows, b), born' = born,
           \A w \in Widgets : rows[w] # None => w \in born
    PROVE  StoreOK'
BY DEF Types, TypeOK, Known, StoreOK, CommitRows, Row

\* create.
LEMMA TypeCreate ==
    ASSUME Types, NEW t \in Tasks,
           Create(t) \/ CreatePersist(t) \/ CreateInsert(t)
    PROVE  Types'
<1> USE DEF Types, TypeOK, Known, Begin, Goto, Done, CallSteps, flushing, store
<1>1. CASE Create(t)
  BY <1>1 DEF Create, Row
<1>2. CASE CreatePersist(t)
  <2>1. CASE CommitFails /\ Done(t)
    BY <1>2, <2>1, StoreFails DEF CreatePersist, StoreOK, Row
  <2>2. CASE /\ row' = [row EXCEPT ![on[t]] = layout[on[t]]]
             /\ Goto(t, "insert")
             /\ UNCHANGED <<on, image, fails, raced, overtaken>>
    BY <1>2, <2>2 DEF CreatePersist, Row
  <2> QED
    BY <1>2, <2>1, <2>2 DEF CreatePersist
<1>3. CASE CreateInsert(t)
  BY <1>3 DEF CreateInsert, Row
<1> QED
  BY <1>1, <1>2, <1>3

\* close.
LEMMA TypeClose ==
    ASSUME Types, NEW t \in Tasks, Close(t) \/ CloseHook(t) \/ CloseDelete(t)
    PROVE  Types'
<1> USE DEF Types, TypeOK, Known, Begin, Goto, Done, CallSteps, flushing, store
<1>1. CASE Close(t)
  BY <1>1 DEF Close, Row
<1>2. CASE CloseHook(t)
  BY <1>2 DEF CloseHook, Row
<1>3. CASE CloseDelete(t)
  <2>1. CASE CommitFails /\ UNCHANGED closed
    BY <1>3, <2>1, StoreFails DEF CloseDelete, StoreOK, Row
  <2>2. CASE /\ row' = [row EXCEPT ![on[t]] = None]
             /\ closed' = closed \cup {on[t]}
             /\ UNCHANGED <<fails, raced, overtaken>>
    BY <1>3, <2>2 DEF CloseDelete, Row
  <2> QED
    BY <1>3, <2>1, <2>2 DEF CloseDelete
<1> QED
  BY <1>1, <1>2, <1>3

\* move_and_resize and set_window_placement.
LEMMA TypeMove ==
    ASSUME Types, NEW t \in Tasks,
           Move(t) \/ MoveWrite(t) \/ QueueLayoutSave(t) \/ EnsureLayoutFlusher(t)
    PROVE  Types'
<1> USE DEF Types, TypeOK, Known, Begin, Goto, Done, CallSteps, flushing, store
<1>1. CASE Move(t)
  BY <1>1 DEF Move, Row
<1>2. CASE MoveWrite(t)
  <2>1. layout' \in [Widgets -> Nat]
    BY <1>2 DEF MoveWrite
  <2>2. CASE Done(t)
    BY <1>2, <2>1, <2>2 DEF MoveWrite, Row
  <2>3. CASE Goto(t, "queue") /\ UNCHANGED <<on, image>>
    BY <1>2, <2>1, <2>3 DEF MoveWrite
  <2> QED
    BY <1>2, <2>2, <2>3 DEF MoveWrite
<1>3. CASE QueueLayoutSave(t)
  BY <1>3 DEF QueueLayoutSave
<1>4. CASE EnsureLayoutFlusher(t)
  BY <1>4 DEF EnsureLayoutFlusher, SpawnFlusher, FlushSteps, Row
<1> QED
  BY <1>1, <1>2, <1>3, <1>4

\* change_lifecycle and save_widget_state.
LEMMA TypeSave ==
    ASSUME Types, NEW t \in Tasks, Save(t) \/ SaveCollect(t) \/ SaveCommit(t)
    PROVE  Types'
<1> USE DEF Types, TypeOK, Known, Begin, Goto, Done, CallSteps, flushing, store
<1>1. CASE Save(t)
  BY <1>1 DEF Save, Row
<1>2. CASE SaveCollect(t)
  BY <1>2 DEF SaveCollect, Row
<1>3. CASE SaveCommit(t)
  <2> DEFINE rows == [NoRows EXCEPT ![on[t]] = image[t]]
  <2>1. rows \in [Widgets -> Row] /\ \A w \in Widgets : rows[w] # None => w \in born
    BY <1>3 DEF SaveCommit, NoRows, Row
  <2>2. StoreOK'
    <3> HIDE DEF rows
    <3> QED
      BY <1>3, <2>1, StoreFails, StoreRows DEF SaveCommit, rows
  <2> QED
    BY <1>3, <2>2 DEF SaveCommit, StoreOK, Row
<1> QED
  BY <1>1, <1>2, <1>3

LEMMA TypeFlush ==
    ASSUME Types, NEW f \in Flushers, Flush(f)
    PROVE  Types'
<1> USE DEF Types, TypeOK, Known, FlushGoto, FlushSteps, calls, store
<1>1. CASE FlushWake(f)
  BY <1>1 DEF FlushWake
<1>2. CASE FlushTake(f)
  BY <1>2 DEF FlushTake
<1>3. CASE FlushCollect(f)
  BY <1>3 DEF FlushCollect, Row
<1>4. CASE FlushCommit(f)
  <2>1. StoreOK'
    <3>1. batch[f] \in [Widgets -> Row]
          /\ \A w \in Widgets : batch[f][w] # None => w \in born
      OBVIOUS
    <3>2. CASE CommitRows(batch[f], FALSE)
      BY <1>4, <3>1, <3>2, StoreRows DEF FlushCommit
    <3>3. CASE CommitFails
      BY <1>4, <3>3, StoreFails DEF FlushCommit
    <3> QED
      BY <1>4, <3>2, <3>3 DEF FlushCommit
  <2>2. dirty' \subseteq born
    BY <1>4 DEF FlushCommit
  <2> QED
    BY <1>4, <2>1, <2>2 DEF FlushCommit, StoreOK, NoRows, Row
<1>5. CASE FlushUnslot(f)
  BY <1>5 DEF FlushUnslot
<1>6. CASE FlushRecheck(f)
  BY <1>6 DEF FlushRecheck
<1>7. CASE FlushRearm(f)
  BY <1>7 DEF FlushRearm, SpawnFlusher
<1> QED
  BY <1>1, <1>2, <1>3, <1>4, <1>5, <1>6, <1>7 DEF Flush

LEMMA TypeShutdown ==
    ASSUME Types,
           Shutdown \/ SnapshotCollect \/ SnapshotCommit \/ ShutdownClose
    PROVE  Types'
<1> USE DEF Types, TypeOK, Known, Phases, flushing, calls, store
<1>1. CASE Shutdown
  BY <1>1, WidgetConstants DEF Shutdown, FlushSteps
<1>2. CASE SnapshotCollect
  BY <1>2 DEF SnapshotCollect, Row
<1>3. CASE SnapshotCommit
  <2>1. StoreOK'
    BY <1>3, StoreFails, StoreRows DEF SnapshotCommit
  <2> QED
    BY <1>3, <2>1 DEF SnapshotCommit, StoreOK, NoRows, Row
<1>4. CASE ShutdownClose
  BY <1>4 DEF ShutdownClose
<1> QED
  BY <1>1, <1>2, <1>3, <1>4

LEMMA TypeProcess ==
    ASSUME Types, Crash \/ Restart
    PROVE  Types'
BY DEF Types, TypeOK, Known, Crash, Restart, FreshMemory, Phases, FlushSteps,
       CallSteps, NoRows, Row

LEMMA TypeStep == Types /\ [Next]_vars => Types'
<1> SUFFICES ASSUME Types, [Next]_vars PROVE Types'
  OBVIOUS
<1>1. CASE UNCHANGED vars
  BY <1>1 DEF vars, Types, TypeOK, Known
<1>2. CASE Next
  BY <1>2, TypeCreate, TypeClose, TypeMove, TypeSave, TypeFlush, TypeShutdown,
     TypeProcess
  DEF Next, Call
<1> QED
  BY <1>1, <1>2

\* Every step keeps the types: in memory and in the store there are only ids
\* that create drew.
THEOREM Typed == Spec => []TypeOK
<1>1. Types => TypeOK
  BY DEF Types
<1> QED
  BY TypeInit, TypeStep, <1>1, PTL DEF Spec

-----------------------------------------------------------------------------
(* The flusher.                                                            *)

\* A flusher holds ids and rows only inside flush_layout_saves.
FlushShape ==
    \A f \in Flushers :
        /\ taken[f] # {} => fpc[f] = "collect"
        /\ (\E w \in Widgets : batch[f][w] # None) =>
                fpc[f] \in {"collect", "commit"}

\* While the manager is up, the flusher that is asleep or flushes is the one
\* in the slot.
OneFlusher ==
    phase = "up" =>
        \A f \in Flushers :
            fpc[f] \in {"sleep", "take", "collect", "commit", "unslot"} =>
                slot = f

FlusherInv == FlushShape /\ OneFlusher

LEMMA FlusherInit == Init => FlusherInv
BY DEF Init, FlusherInv, FlushShape, OneFlusher, NoRows

\* A step that leaves the flushers alone.
LEMMA FlusherFrame ==
    ASSUME FlusherInv, UNCHANGED <<phase, flushing>>
    PROVE  FlusherInv'
BY DEF FlusherInv, FlushShape, OneFlusher, flushing

\* A flusher is spawned when none is in the slot.
LEMMA FlusherSpawn ==
    ASSUME Types, FlusherInv, NEW f \in Flushers, slot = None, SpawnFlusher(f),
           fpc[f] \in {"idle", "rearm"}, UNCHANGED <<phase, taken, batch>>
    PROVE  FlusherInv'
BY WidgetConstants
DEF Types, TypeOK, FlusherInv, FlushShape, OneFlusher, SpawnFlusher

\* The callers: only ensure_layout_flusher touches the slot.
LEMMA FlusherCall ==
    ASSUME Types, FlusherInv, NEW t \in Tasks,
           Create(t) \/ Close(t) \/ Move(t) \/ Save(t) \/ Call(t)
    PROVE  FlusherInv'
<1>1. CASE EnsureLayoutFlusher(t)
  <2>1. CASE slot # None /\ UNCHANGED <<slot, fpc>>
    BY <1>1, <2>1, FlusherFrame DEF EnsureLayoutFlusher, flushing
  <2>2. CASE slot = None /\ \E f \in Flushers : fpc[f] = "idle" /\ SpawnFlusher(f)
    BY <1>1, <2>2, FlusherSpawn DEF EnsureLayoutFlusher
  <2> QED
    BY <1>1, <2>1, <2>2 DEF EnsureLayoutFlusher
<1>2. CASE ~EnsureLayoutFlusher(t)
  <2>1. UNCHANGED <<phase, flushing>>
    BY <1>2
    DEF Create, Close, Move, Save, Call, CreatePersist, CreateInsert,
        CloseHook, CloseDelete, MoveWrite, QueueLayoutSave, SaveCollect, SaveCommit
  <2> QED
    BY <2>1, FlusherFrame
<1> QED
  BY <1>1, <1>2

LEMMA FlusherFlush ==
    ASSUME Types, FlusherInv, NEW f \in Flushers, Flush(f)
    PROVE  FlusherInv'
<1> USE DEF Types, TypeOK, FlusherInv, FlushShape, OneFlusher, FlushGoto
<1>1. CASE FlushWake(f)
  BY <1>1 DEF FlushWake
<1>2. CASE FlushTake(f)
  BY <1>2 DEF FlushTake
<1>3. CASE FlushCollect(f)
  BY <1>3 DEF FlushCollect
<1>4. CASE FlushCommit(f)
  BY <1>4 DEF FlushCommit, NoRows
<1>5. CASE FlushUnslot(f)
  BY <1>5 DEF FlushUnslot
<1>6. CASE FlushRecheck(f)
  BY <1>6 DEF FlushRecheck
<1>7. CASE FlushRearm(f)
  <2>1. CASE slot # None /\ FlushGoto(f, "idle") /\ UNCHANGED slot
    BY <1>7, <2>1 DEF FlushRearm
  <2>2. CASE slot = None /\ SpawnFlusher(f)
    BY <1>7, <2>2, FlusherSpawn DEF FlushRearm
  <2> QED
    BY <1>7, <2>1, <2>2 DEF FlushRearm
<1> QED
  BY <1>1, <1>2, <1>3, <1>4, <1>5, <1>6, <1>7 DEF Flush

LEMMA FlusherProcess ==
    ASSUME Types, FlusherInv,
           \/ Shutdown \/ SnapshotCollect \/ SnapshotCommit \/ ShutdownClose
           \/ Crash \/ Restart
    PROVE  FlusherInv'
<1> USE DEF Types, TypeOK, FlusherInv, FlushShape, OneFlusher
<1>1. CASE Shutdown
  BY <1>1, WidgetConstants DEF Shutdown
<1>2. CASE SnapshotCollect \/ SnapshotCommit \/ ShutdownClose
  BY <1>2 DEF SnapshotCollect, SnapshotCommit, ShutdownClose, flushing
<1>3. CASE Crash \/ Restart
  BY <1>3 DEF Crash, Restart, FreshMemory, NoRows
<1> QED
  BY <1>1, <1>2, <1>3

LEMMA FlusherStep == Types /\ FlusherInv /\ [Next]_vars => FlusherInv'
<1> SUFFICES ASSUME Types, FlusherInv, [Next]_vars PROVE FlusherInv'
  OBVIOUS
<1>1. CASE UNCHANGED vars
  BY <1>1, FlusherFrame DEF vars, flushing
<1>2. CASE Next
  BY <1>2, FlusherCall, FlusherFlush, FlusherProcess DEF Next
<1> QED
  BY <1>1, <1>2

-----------------------------------------------------------------------------
(* Marked layouts have a flusher.                                          *)

LEMMA ArmedInit == Init => FlushArmed
BY DEF Init, FlushArmed

LEMMA ArmedCall ==
    ASSUME Types, FlushArmed, NEW t \in Tasks,
           Create(t) \/ Close(t) \/ Move(t) \/ Save(t) \/ Call(t)
    PROVE  FlushArmed'
<1> USE DEF Types, TypeOK, FlushArmed, Begin, Goto, Done, flushing
<1>1. CASE \/ Create(t) \/ Close(t) \/ Move(t) \/ Save(t)
  BY <1>1 DEF Create, Close, Move, Save
<1>2. CASE CreatePersist(t) \/ CreateInsert(t) \/ SaveCollect(t) \/ SaveCommit(t)
  BY <1>2 DEF CreatePersist, CreateInsert, SaveCollect, SaveCommit
<1>3. CASE CloseHook(t) \/ CloseDelete(t)
  BY <1>3 DEF CloseHook, CloseDelete
<1>4. CASE MoveWrite(t)
  BY <1>4 DEF MoveWrite
<1>5. CASE QueueLayoutSave(t)
  BY <1>5 DEF QueueLayoutSave
<1>6. CASE EnsureLayoutFlusher(t)
  BY <1>6, WidgetConstants DEF EnsureLayoutFlusher, SpawnFlusher
<1> QED
  BY <1>1, <1>2, <1>3, <1>4, <1>5, <1>6 DEF Call

LEMMA ArmedFlush ==
    ASSUME Types, FlusherInv, FlushArmed, NEW f \in Flushers, Flush(f)
    PROVE  FlushArmed'
<1> USE WidgetConstants
    DEF Types, TypeOK, FlusherInv, OneFlusher, FlushArmed, FlushGoto, calls
<1>1. CASE FlushWake(f)
  BY <1>1 DEF FlushWake
<1>2. CASE FlushTake(f)
  BY <1>2 DEF FlushTake
<1>3. CASE FlushCollect(f)
  BY <1>3 DEF FlushCollect
<1>4. CASE FlushCommit(f)
  BY <1>4 DEF FlushCommit
<1>5. CASE FlushUnslot(f)
  BY <1>5 DEF FlushUnslot
<1>6. CASE FlushRecheck(f)
  BY <1>6 DEF FlushRecheck
<1>7. CASE FlushRearm(f)
  BY <1>7 DEF FlushRearm, SpawnFlusher
<1> QED
  BY <1>1, <1>2, <1>3, <1>4, <1>5, <1>6, <1>7 DEF Flush

LEMMA ArmedStep == Types /\ FlusherInv /\ FlushArmed /\ [Next]_vars => FlushArmed'
<1> SUFFICES ASSUME Types, FlusherInv, FlushArmed, [Next]_vars
             PROVE  FlushArmed'
  OBVIOUS
<1>1. CASE UNCHANGED vars
  BY <1>1 DEF vars, FlushArmed
<1>2. CASE \/ Shutdown \/ SnapshotCollect \/ SnapshotCommit \/ ShutdownClose
           \/ Crash \/ Restart
  BY <1>2
  DEF FlushArmed, Shutdown, SnapshotCollect, SnapshotCommit, ShutdownClose,
      Crash, Restart, FreshMemory
<1>3. CASE Next
  BY <1>2, <1>3, ArmedCall, ArmedFlush DEF Next
<1> QED
  BY <1>1, <1>3

\* While the manager is up, a marked layout has somebody who will see to it:
\* the flusher in the slot, one that empties the slot before it looks at
\* layout_dirty again, or a caller on its way to ensure_layout_flusher.
THEOREM MarkedAreArmed == Spec => []FlushArmed
BY TypeInit, TypeStep, FlusherInit, FlusherStep, ArmedInit, ArmedStep, PTL
DEF Spec

-----------------------------------------------------------------------------
(* Open and closed widgets.                                                *)

\* A widget that is being created is in the hands of create alone.
Creating ==
    \A t \in Tasks : step[t] \in {"persist", "insert"} =>
        /\ on[t] \notin instances \cup closed \cup dirty
        /\ \A f \in Flushers : on[t] \notin taken[f] /\ batch[f][on[t]] = None
        /\ final[on[t]] = None
        /\ \A u \in Tasks : u # t /\ step[u] # "idle" => on[u] # on[t]
        /\ step[t] = "insert" => row[on[t]] = layout[on[t]]

\* A widget that is being closed has left the map.
ClosingOut ==
    \A t \in Tasks : step[t] \in {"hook", "delete"} => on[t] \notin instances

\* So has a closed one, unless a late row brought it back.
ClosedOut == (closed \ raced) \cap instances = {}

\* The life of a widget: created, open, closed, with its row.
LifeInv == Creating /\ ClosingOut /\ ClosedOut /\ OpenHasRow /\ ClosedGone

LEMMA LifeInit == Init => LifeInv
BY DEF Init, LifeInv, Creating, ClosingOut, ClosedOut, OpenHasRow, ClosedGone

\* A row that is written has its widget in the map or counts as raced.
LEMMA LifeRows ==
    ASSUME Types, LifeInv, NEW rows \in [Widgets -> Row], NEW b \in BOOLEAN,
           CommitRows(rows, b), UNCHANGED <<instances, closed>>,
           phase # "down"
    PROVE  /\ ClosedOut' /\ ClosedGone'
           /\ \A w \in instances : row'[w] # None
BY DEF Types, TypeOK, LifeInv, ClosedOut, OpenHasRow, ClosedGone, CommitRows

LEMMA LifeCreate ==
    ASSUME Types, LifeInv, NEW t \in Tasks,
           Create(t) \/ (phase # "down" /\ (CreatePersist(t) \/ CreateInsert(t)))
    PROVE  LifeInv'
<1> USE WidgetConstants
    DEF Types, TypeOK, Known, LifeInv, Begin, Goto, Done, flushing, store
<1>1. CASE Create(t)
  <2>1. Creating'
    BY <1>1 DEF Create, Creating
  <2>2. (ClosingOut /\ ClosedOut /\ OpenHasRow /\ ClosedGone)'
    BY <1>1 DEF Create, ClosingOut, ClosedOut, OpenHasRow, ClosedGone
  <2> QED
    BY <2>1, <2>2
<1>2. CASE CreatePersist(t)
  <2>1. CASE CommitFails /\ Done(t)
    BY <1>2, <2>1
    DEF CreatePersist, CommitFails, Creating, ClosingOut, ClosedOut, OpenHasRow,
        ClosedGone
  <2>2. CASE /\ row' = [row EXCEPT ![on[t]] = layout[on[t]]]
             /\ Goto(t, "insert")
             /\ UNCHANGED <<on, image, fails, raced, overtaken>>
    <3>1. Creating'
      BY <1>2, <2>2 DEF CreatePersist, Creating
    <3>2. (ClosingOut /\ ClosedOut /\ OpenHasRow /\ ClosedGone)'
      BY <1>2, <2>2
      DEF CreatePersist, Creating, ClosingOut, ClosedOut, OpenHasRow, ClosedGone
    <3> QED
      BY <3>1, <3>2
  <2> QED
    BY <1>2, <2>1, <2>2 DEF CreatePersist
<1>3. CASE CreateInsert(t)
  <2>1. Creating'
    BY <1>3 DEF CreateInsert, Creating
  <2>2. (ClosingOut /\ ClosedOut /\ OpenHasRow /\ ClosedGone)'
    BY <1>3
    DEF CreateInsert, Creating, ClosingOut, ClosedOut, OpenHasRow, ClosedGone
  <2> QED
    BY <2>1, <2>2
<1> QED
  BY <1>1, <1>2, <1>3

LEMMA LifeClose ==
    ASSUME Types, LifeInv, NEW t \in Tasks,
           Close(t) \/ (phase # "down" /\ (CloseHook(t) \/ CloseDelete(t)))
    PROVE  LifeInv'
<1> USE DEF Types, TypeOK, Known, LifeInv, Begin, Goto, Done, flushing, store
<1>1. CASE Close(t)
  <2>1. Creating'
    BY <1>1 DEF Close, Creating
  <2>2. (ClosingOut /\ ClosedOut /\ OpenHasRow /\ ClosedGone)'
    BY <1>1 DEF Close, ClosingOut, ClosedOut, OpenHasRow, ClosedGone
  <2> QED
    BY <2>1, <2>2
<1>2. CASE CloseHook(t)
  <2>1. Creating'
    BY <1>2 DEF CloseHook, Creating
  <2>2. (ClosingOut /\ ClosedOut /\ OpenHasRow /\ ClosedGone)'
    BY <1>2 DEF CloseHook, ClosingOut, ClosedOut, OpenHasRow, ClosedGone
  <2> QED
    BY <2>1, <2>2
<1>3. CASE CloseDelete(t)
  <2>1. Creating'
    BY <1>3 DEF CloseDelete, CommitFails, Creating
  <2>2. (ClosingOut /\ ClosedOut /\ OpenHasRow /\ ClosedGone)'
    BY <1>3
    DEF CloseDelete, CommitFails, ClosingOut, ClosedOut, OpenHasRow, ClosedGone
  <2> QED
    BY <2>1, <2>2
<1> QED
  BY <1>1, <1>2, <1>3

LEMMA LifeMove ==
    ASSUME Types, LifeInv, NEW t \in Tasks,
           \/ Move(t)
           \/ phase # "down" /\ (MoveWrite(t) \/ QueueLayoutSave(t)
                                 \/ EnsureLayoutFlusher(t))
    PROVE  LifeInv'
<1> USE DEF Types, TypeOK, Known, LifeInv, Begin, Goto, Done, flushing, store
<1>r. UNCHANGED <<phase, instances, closed, raced, row>>
  BY DEF Move, MoveWrite, QueueLayoutSave, EnsureLayoutFlusher
<1>o. (ClosedOut /\ OpenHasRow /\ ClosedGone)'
  BY <1>r DEF ClosedOut, OpenHasRow, ClosedGone
<1>1. CASE Move(t)
  BY <1>1, <1>o DEF Move, Creating, ClosingOut
<1>2. CASE MoveWrite(t)
  <2>1. \A w \in Widgets : w # on[t] => layout'[w] = layout[w]
    BY <1>2 DEF MoveWrite
  <2>2. \A u \in Tasks : step'[u] # "idle" =>
          on'[u] = on[u] /\ (u = t \/ step'[u] = step[u])
    BY <1>2 DEF MoveWrite
  <2>3. step[t] = "write" /\ step'[t] \in {"idle", "queue"}
    BY <1>2 DEF MoveWrite
  <2>4. UNCHANGED <<dirty, taken, batch, final>>
    BY <1>2 DEF MoveWrite
  <2>5. Creating'
    <3> SUFFICES ASSUME NEW u \in Tasks, step'[u] \in {"persist", "insert"}
                 PROVE  Creating!(u)'
      BY DEF Creating
    <3>1. u # t /\ step'[u] = step[u] /\ on'[u] = on[u] /\ on[t] # on[u]
      BY <2>2, <2>3 DEF Creating
    <3>2. layout'[on[u]] = layout[on[u]]
      BY <2>1, <3>1
    <3> QED
      BY <1>r, <2>2, <2>4, <3>1, <3>2 DEF Creating
  <2>6. ClosingOut'
    BY <1>r, <2>2, <2>3 DEF ClosingOut
  <2> QED
    BY <1>o, <2>5, <2>6
<1>3. CASE QueueLayoutSave(t)
  BY <1>3, <1>o DEF QueueLayoutSave, Creating, ClosingOut
<1>4. CASE EnsureLayoutFlusher(t)
  BY <1>4, <1>o DEF EnsureLayoutFlusher, Creating, ClosingOut
<1> QED
  BY <1>1, <1>2, <1>3, <1>4

LEMMA LifeSave ==
    ASSUME Types, LifeInv, NEW t \in Tasks,
           Save(t) \/ (phase # "down" /\ (SaveCollect(t) \/ SaveCommit(t)))
    PROVE  LifeInv'
<1> USE DEF Types, TypeOK, Known, LifeInv, Begin, Goto, Done, flushing, store
<1>1. CASE Save(t)
  BY <1>1 DEF Save, Creating, ClosingOut, ClosedOut, OpenHasRow, ClosedGone
<1>2. CASE SaveCollect(t)
  <2>1. \A u \in Tasks : step'[u] # "idle" =>
          on'[u] = on[u] /\ (u = t \/ step'[u] = step[u])
    BY <1>2 DEF SaveCollect
  <2>2. step[t] = "collect" /\ step'[t] \in {"idle", "commit"}
    BY <1>2 DEF SaveCollect
  <2>3. (Creating /\ ClosingOut)'
    BY <1>2, <2>1, <2>2 DEF SaveCollect, Creating, ClosingOut
  <2> QED
    BY <1>2, <2>3 DEF SaveCollect, ClosedOut, OpenHasRow, ClosedGone
<1>3. CASE SaveCommit(t)
  <2> DEFINE rows == [NoRows EXCEPT ![on[t]] = image[t]]
  <2>1. CASE CommitFails
    BY <1>3, <2>1
    DEF SaveCommit, CommitFails, Creating, ClosingOut, ClosedOut, OpenHasRow,
        ClosedGone
  <2>2. CASE CommitRows(rows, TRUE)
    <3>1. rows \in [Widgets -> Row]
      BY DEF NoRows, Row
    <3>2. (ClosedOut /\ ClosedGone)' /\ \A w \in instances : row'[w] # None
      <4>1. phase # "down" /\ UNCHANGED <<instances, closed>>
        BY <1>3 DEF SaveCommit, Save
      <4> HIDE DEF rows
      <4> QED
        BY <2>2, <3>1, <4>1, LifeRows
    <3>3. \A w \in Widgets : w # on[t] => row'[w] = row[w]
      BY <2>2 DEF CommitRows, NoRows
    <3>4. (Creating /\ ClosingOut /\ OpenHasRow)'
      BY <1>3, <3>2, <3>3 DEF SaveCommit, Creating, ClosingOut, OpenHasRow
    <3> QED
      BY <3>2, <3>4
  <2> QED
    BY <1>3, <2>1, <2>2 DEF SaveCommit
<1> QED
  BY <1>1, <1>2, <1>3

LEMMA LifeFlush ==
    ASSUME Types, LifeInv, NEW f \in Flushers, Flush(f)
    PROVE  LifeInv'
<1> USE DEF Types, TypeOK, Known, LifeInv, FlushGoto, calls, store
<1>1. CASE FlushWake(f) \/ FlushUnslot(f) \/ FlushRecheck(f) \/ FlushRearm(f)
  BY <1>1
  DEF FlushWake, FlushUnslot, FlushRecheck, FlushRearm, Creating, ClosingOut,
      ClosedOut, OpenHasRow, ClosedGone
<1>2. CASE FlushTake(f)
  BY <1>2 DEF FlushTake, Creating, ClosingOut, ClosedOut, OpenHasRow, ClosedGone
<1>3. CASE FlushCollect(f)
  <2>1. Creating'
    BY <1>3 DEF FlushCollect, Creating
  <2> QED
    BY <1>3, <2>1 DEF FlushCollect, ClosingOut, ClosedOut, OpenHasRow, ClosedGone
<1>4. CASE FlushCommit(f)
  <2>1. CASE CommitRows(batch[f], FALSE) /\ UNCHANGED dirty
    <3>1. batch[f] \in [Widgets -> Row]
      OBVIOUS
    <3>2. (ClosedOut /\ ClosedGone)' /\ \A w \in instances : row'[w] # None
      BY <1>4, <2>1, <3>1, LifeRows DEF FlushCommit, Flush
    <3>3. Creating'
      BY <1>4, <2>1 DEF FlushCommit, CommitRows, Creating, NoRows
    <3>4. (ClosingOut /\ OpenHasRow)'
      BY <1>4, <3>2 DEF FlushCommit, ClosingOut, OpenHasRow
    <3> QED
      BY <3>2, <3>3, <3>4
  <2>2. CASE /\ batch[f] # NoRows
             /\ CommitFails
             /\ dirty' = dirty \cup {w \in Widgets : batch[f][w] # None}
    BY <1>4, <2>2
    DEF FlushCommit, CommitFails, Creating, ClosingOut, ClosedOut, OpenHasRow,
        ClosedGone, NoRows
  <2> QED
    BY <1>4, <2>1, <2>2 DEF FlushCommit
<1> QED
  BY <1>1, <1>2, <1>3, <1>4 DEF Flush

LEMMA LifeShutdown ==
    ASSUME Types, LifeInv,
           Shutdown \/ SnapshotCollect \/ SnapshotCommit \/ ShutdownClose
    PROVE  LifeInv'
<1> USE DEF Types, TypeOK, Known, LifeInv, flushing, calls, store
<1>1. CASE Shutdown
  BY <1>1 DEF Shutdown, Creating, ClosingOut, ClosedOut, OpenHasRow, ClosedGone
<1>2. CASE SnapshotCollect
  BY <1>2
  DEF SnapshotCollect, Creating, ClosingOut, ClosedOut, OpenHasRow, ClosedGone
<1>3. CASE SnapshotCommit
  <2>1. CASE CommitRows(final, TRUE)
    <3>1. (ClosedOut /\ ClosedGone)' /\ \A w \in instances : row'[w] # None
      BY <1>3, <2>1, LifeRows DEF SnapshotCommit
    <3>2. Creating'
      BY <1>3, <2>1 DEF SnapshotCommit, CommitRows, Creating, NoRows
    <3> QED
      BY <1>3, <3>1, <3>2 DEF SnapshotCommit, ClosingOut, OpenHasRow
  <2>2. CASE CommitFails
    BY <1>3, <2>2
    DEF SnapshotCommit, CommitFails, Creating, ClosingOut, ClosedOut,
        OpenHasRow, ClosedGone, NoRows
  <2> QED
    BY <1>3, <2>1, <2>2 DEF SnapshotCommit
<1>4. CASE ShutdownClose
  BY <1>4
  DEF ShutdownClose, Creating, ClosingOut, ClosedOut, OpenHasRow, ClosedGone
<1> QED
  BY <1>1, <1>2, <1>3, <1>4

\* A new process opens what has a row.
LEMMA LifeProcess ==
    ASSUME Types, LifeInv, Crash \/ Restart
    PROVE  LifeInv'
<1> USE DEF Types, TypeOK, LifeInv, FreshMemory
<1>1. CASE Crash
  BY <1>1 DEF Crash, Creating, ClosingOut, ClosedOut, OpenHasRow, ClosedGone
<1>2. CASE Restart
  BY <1>2 DEF Restart, Creating, ClosingOut, ClosedOut, OpenHasRow, ClosedGone
<1> QED
  BY <1>1, <1>2

LEMMA LifeStep == Types /\ LifeInv /\ [Next]_vars => LifeInv'
<1> SUFFICES ASSUME Types, LifeInv, [Next]_vars PROVE LifeInv'
  OBVIOUS
<1>1. CASE UNCHANGED vars
  BY <1>1
  DEF vars, LifeInv, Creating, ClosingOut, ClosedOut, OpenHasRow, ClosedGone
<1>2. CASE Next
  BY <1>2, LifeCreate, LifeClose, LifeMove, LifeSave, LifeFlush, LifeShutdown,
     LifeProcess
  DEF Next, Call
<1> QED
  BY <1>1, <1>2

LEMMA LifeInvariant == Spec => [](Types /\ LifeInv)
BY TypeInit, TypeStep, LifeInit, LifeStep, PTL DEF Spec

\* Whatever fails and whenever the process dies, an open widget has its row:
\* create persists before it inserts, close_locked takes the instance out
\* before it deletes, and no other writer removes a row.
THEOREM OpenIsStored == Spec => []OpenHasRow
<1>1. LifeInv => OpenHasRow
  BY DEF LifeInv
<1> QED
  BY LifeInvariant, <1>1, PTL

\* A widget whose close returned Ok has no row and does not come back, unless
\* a row collected while it was open was committed after it left the map.
THEOREM ClosedStaysGone == Spec => []ClosedGone
<1>1. LifeInv => ClosedGone
  BY DEF LifeInv
<1> QED
  BY LifeInvariant, <1>1, PTL

-----------------------------------------------------------------------------
(* Layout changes.                                                         *)

\* A collected row is the current layout, or the widget is marked again.
BatchCurrent ==
    phase = "up" =>
        \A f \in Flushers : \A w \in instances :
            batch[f][w] \notin {None, layout[w]} =>
                w \in dirty \/ AboutToQueue(w)

TrackInv == BatchCurrent /\ LayoutTracked

LEMMA TrackInit == Init => TrackInv
BY DEF Init, TrackInv, BatchCurrent, LayoutTracked

\* Where a layout change may be while its row is behind.
Tracked(w) == w \in dirty \/ InFlush(w) \/ AboutToQueue(w)

\* A step that neither commits nor changes a layout keeps the invariant when
\* it takes no mark from an open widget.
LEMMA TrackFrame ==
    ASSUME Types, TrackInv, UNCHANGED <<phase, layout, row, overtaken, batch>>,
           instances' \subseteq instances,
           \A w \in instances' :
              /\ w \in dirty \/ AboutToQueue(w) => w \in dirty' \/ AboutToQueue(w)'
              /\ Tracked(w) => Tracked(w)'
    PROVE  TrackInv'
BY DEF Types, TypeOK, TrackInv, BatchCurrent, LayoutTracked, Tracked

\* create.
LEMMA TrackCreate ==
    ASSUME Types, LifeInv, TrackInv, NEW t \in Tasks,
           Create(t) \/ CreatePersist(t) \/ CreateInsert(t)
    PROVE  TrackInv'
<1> USE DEF Types, TypeOK, Known, Begin, Goto, Done, flushing, store
<1>q. \A w \in Widgets : AboutToQueue(w)' <=> AboutToQueue(w)
  BY DEF Create, CreatePersist, CreateInsert, AboutToQueue
<1>f. \A w \in Widgets : InFlush(w)' <=> InFlush(w)
  BY DEF Create, CreatePersist, CreateInsert, InFlush
<1>1. CASE Create(t)
  BY <1>1, <1>q, <1>f, TrackFrame DEF Create, Tracked
<1>2. CASE CreatePersist(t)
  <2>1. on[t] \notin instances /\ \A w \in Widgets : w # on[t] => row'[w] = row[w]
    BY <1>2 DEF CreatePersist, CommitFails, LifeInv, Creating
  <2>2. UNCHANGED <<phase, instances, layout, dirty, batch, overtaken>>
    BY <1>2 DEF CreatePersist, CommitFails
  <2> QED
    BY <1>q, <1>f, <2>1, <2>2 DEF TrackInv, BatchCurrent, LayoutTracked
<1>3. CASE CreateInsert(t)
  <2>1. /\ row[on[t]] = layout[on[t]]
        /\ \A f \in Flushers : batch[f][on[t]] = None
    BY <1>3 DEF CreateInsert, LifeInv, Creating
  <2>2. UNCHANGED <<phase, layout, row, dirty, batch, overtaken>>
        /\ instances' = instances \cup {on[t]}
    BY <1>3 DEF CreateInsert
  <2> QED
    BY <1>q, <1>f, <2>1, <2>2 DEF TrackInv, BatchCurrent, LayoutTracked
<1> QED
  BY <1>1, <1>2, <1>3

\* close: the mark it clears is of a widget that has left the map.
LEMMA TrackClose ==
    ASSUME Types, LifeInv, TrackInv, NEW t \in Tasks,
           Close(t) \/ CloseHook(t) \/ CloseDelete(t)
    PROVE  TrackInv'
<1> USE DEF Types, TypeOK, Known, Begin, Goto, Done, flushing, store
<1>q. \A w \in Widgets : AboutToQueue(w)' <=> AboutToQueue(w)
  BY DEF Close, CloseHook, CloseDelete, AboutToQueue
<1>f. \A w \in Widgets : InFlush(w)' <=> InFlush(w)
  BY DEF Close, CloseHook, CloseDelete, InFlush
<1>1. CASE Close(t)
  BY <1>1, <1>q, <1>f, TrackFrame DEF Close, Tracked
<1>2. CASE CloseHook(t)
  <2>1. on[t] \notin instances /\ instances' = instances
        /\ dirty' \in {dirty, dirty \ {on[t]}}
    BY <1>2 DEF CloseHook, LifeInv, ClosingOut
  <2>2. UNCHANGED <<phase, layout, row, overtaken, batch>>
    BY <1>2 DEF CloseHook
  <2> QED
    BY <1>q, <1>f, <2>1, <2>2, TrackFrame DEF Tracked
<1>3. CASE CloseDelete(t)
  <2>1. on[t] \notin instances /\ \A w \in Widgets : w # on[t] => row'[w] = row[w]
    BY <1>3 DEF CloseDelete, CommitFails, LifeInv, ClosingOut
  <2>2. UNCHANGED <<phase, instances, layout, dirty, batch, overtaken>>
    BY <1>3 DEF CloseDelete, CommitFails
  <2> QED
    BY <1>q, <1>f, <2>1, <2>2 DEF TrackInv, BatchCurrent, LayoutTracked
<1> QED
  BY <1>1, <1>2, <1>3

\* A change is tracked from the write of the layout on.
LEMMA TrackMove ==
    ASSUME Types, TrackInv, NEW t \in Tasks,
           Move(t) \/ MoveWrite(t) \/ QueueLayoutSave(t) \/ EnsureLayoutFlusher(t)
    PROVE  TrackInv'
<1> USE DEF Types, TypeOK, Known, Begin, Goto, Done, flushing, store
<1>f. \A w \in Widgets : InFlush(w)' <=> InFlush(w)
  BY DEF Move, MoveWrite, QueueLayoutSave, EnsureLayoutFlusher, InFlush
<1>1. CASE Move(t)
  <2>1. \A w \in Widgets : AboutToQueue(w)' <=> AboutToQueue(w)
    BY <1>1 DEF Move, AboutToQueue
  <2> QED
    BY <1>1, <1>f, <2>1, TrackFrame DEF Move, Tracked
<1>2. CASE MoveWrite(t)
  <2>1. \A w \in Widgets : AboutToQueue(w) => AboutToQueue(w)'
    BY <1>2 DEF MoveWrite, AboutToQueue
  <2>2. \A w \in Widgets : layout'[w] = layout[w] \/ AboutToQueue(w)'
    BY <1>2 DEF MoveWrite, AboutToQueue
  <2>3. UNCHANGED <<phase, instances, row, dirty, batch, overtaken>>
    BY <1>2 DEF MoveWrite
  <2> QED
    BY <1>f, <2>1, <2>2, <2>3 DEF TrackInv, BatchCurrent, LayoutTracked
<1>3. CASE QueueLayoutSave(t)
  <2>1. \A w \in Widgets : w \in dirty \/ AboutToQueue(w) =>
          w \in dirty' \/ AboutToQueue(w)'
    BY <1>3 DEF QueueLayoutSave, AboutToQueue
  <2>2. UNCHANGED <<phase, instances, layout, row, overtaken, batch>>
    BY <1>3 DEF QueueLayoutSave
  <2> QED
    BY <1>f, <2>1, <2>2, TrackFrame DEF Tracked
<1>4. CASE EnsureLayoutFlusher(t)
  <2>1. \A w \in Widgets : AboutToQueue(w)' <=> AboutToQueue(w)
    BY <1>4 DEF EnsureLayoutFlusher, AboutToQueue
  <2>2. UNCHANGED <<phase, instances, layout, row, dirty, overtaken, batch>>
    BY <1>4 DEF EnsureLayoutFlusher
  <2> QED
    BY <1>f, <2>1, <2>2, TrackFrame DEF Tracked
<1> QED
  BY <1>1, <1>2, <1>3, <1>4

\* A save writes the current layout, or overtakes it.
LEMMA TrackSave ==
    ASSUME Types, TrackInv, NEW t \in Tasks,
           Save(t) \/ SaveCollect(t) \/ SaveCommit(t)
    PROVE  TrackInv'
<1> USE DEF Types, TypeOK, Known, Begin, Goto, Done, flushing, store
<1>q. \A w \in Widgets : AboutToQueue(w)' <=> AboutToQueue(w)
  BY DEF Save, SaveCollect, SaveCommit, AboutToQueue
<1>f. \A w \in Widgets : InFlush(w)' <=> InFlush(w)
  BY DEF Save, SaveCollect, SaveCommit, InFlush
<1>u. UNCHANGED <<phase, instances, layout, dirty, batch>>
  BY DEF Save, SaveCollect, SaveCommit
<1>1. CASE UNCHANGED <<row, overtaken>>
  BY <1>1, <1>q, <1>f, <1>u, TrackFrame DEF Tracked
<1>2. CASE SaveCommit(t) /\ CommitRows([NoRows EXCEPT ![on[t]] = image[t]], TRUE)
  <2>1. on[t] \in Widgets
    BY <1>2 DEF SaveCommit
  <2>2. \A w \in Widgets : w # on[t] =>
          row'[w] = row[w] /\ (w \in overtaken => w \in overtaken')
    BY <1>2, <2>1 DEF CommitRows, NoRows
  <2>3. \/ row'[on[t]] = row[on[t]] /\ (on[t] \in overtaken => on[t] \in overtaken')
        \/ row'[on[t]] = layout[on[t]] \/ on[t] \in overtaken'
    BY <1>2, <2>1 DEF CommitRows, NoRows
  <2> QED
    BY <1>q, <1>f, <1>u, <2>2, <2>3 DEF TrackInv, BatchCurrent, LayoutTracked
<1> QED
  BY <1>1, <1>2 DEF Save, SaveCollect, SaveCommit, CommitFails

LEMMA TrackFlush ==
    ASSUME Types, FlusherInv, TrackInv, NEW f \in Flushers, Flush(f)
    PROVE  TrackInv'
<1> USE DEF Types, TypeOK, Known, FlushGoto, calls, store
<1>q. \A w \in Widgets : AboutToQueue(w)' <=> AboutToQueue(w)
  BY DEF Flush, FlushWake, FlushTake, FlushCollect, FlushCommit, FlushUnslot,
         FlushRecheck, FlushRearm, AboutToQueue
<1>1. CASE FlushWake(f) \/ FlushUnslot(f) \/ FlushRecheck(f) \/ FlushRearm(f)
  <2>1. UNCHANGED <<phase, instances, layout, row, dirty, overtaken, taken, batch>>
    BY <1>1 DEF FlushWake, FlushUnslot, FlushRecheck, FlushRearm
  <2>2. \A w \in Widgets : InFlush(w)' <=> InFlush(w)
    BY <2>1 DEF InFlush
  <2> QED
    BY <1>q, <2>1, <2>2, TrackFrame DEF Tracked
<1>2. CASE FlushTake(f)
  <2>1. UNCHANGED <<phase, instances, layout, row, overtaken, batch>>
        /\ taken'[f] = dirty
    BY <1>2 DEF FlushTake
  <2>2. phase = "up" => \A g \in Flushers, w \in Widgets : batch[g][w] = None
    BY <1>2, WidgetConstants DEF FlushTake, FlusherInv, OneFlusher, FlushShape
  <2>3. \A w \in Widgets : InFlush(w) => InFlush(w)'
    BY <1>2 DEF FlushTake, FlusherInv, FlushShape, InFlush
  <2>4. \A w \in dirty : InFlush(w)'
    BY <2>1 DEF InFlush
  <2> QED
    BY <1>q, <2>1, <2>2, <2>3, <2>4 DEF TrackInv, BatchCurrent, LayoutTracked
<1>3. CASE FlushCollect(f)
  <2>1. PICK v \in taken[f] :
          /\ batch' = IF v \in instances
                      THEN [batch EXCEPT ![f][v] = layout[v]] ELSE batch
          /\ taken' = [taken EXCEPT ![f] = @ \ {v}]
    BY <1>3 DEF FlushCollect
  <2>2. UNCHANGED <<phase, instances, layout, row, dirty, overtaken>>
    BY <1>3 DEF FlushCollect
  <2>3. \A g \in Flushers : \A w \in instances :
          batch'[g][w] \in {batch[g][w], layout[w]}
    BY <2>1
  <2>4. \A w \in instances : InFlush(w) => InFlush(w)'
    <3> SUFFICES ASSUME NEW w \in instances, InFlush(w) PROVE InFlush(w)'
      OBVIOUS
    <3>1. PICK g \in Flushers : w \in taken[g] \/ batch[g][w] # None
      BY DEF InFlush
    <3>2. CASE w = v /\ g = f
      <4>1. batch'[f][w] = layout[w]
        BY <2>1, <3>2
      <4> QED
        BY <4>1, WidgetConstants DEF InFlush
    <3>3. CASE w # v \/ g # f
      <4>1. w \in taken[g] => w \in taken'[g]
        BY <2>1, <3>3
      <4>2. batch[g][w] # None => batch'[g][w] # None
        BY <2>1, <2>3, WidgetConstants
      <4> QED
        BY <3>1, <4>1, <4>2 DEF InFlush
    <3> QED
      BY <3>2, <3>3
  <2> QED
    BY <1>q, <2>2, <2>3, <2>4 DEF TrackInv, BatchCurrent, LayoutTracked
<1>4. CASE FlushCommit(f)
  <2>1. UNCHANGED <<phase, instances, layout, taken>>
        /\ batch' = [batch EXCEPT ![f] = NoRows]
    BY <1>4 DEF FlushCommit
  <2>2. \A g \in Flushers, w \in Widgets : batch'[g][w] \in {batch[g][w], None}
    BY <2>1 DEF NoRows
  <2>3. \A w \in Widgets : InFlush(w) => InFlush(w)' \/ batch[f][w] # None
    BY <2>1 DEF InFlush
  <2>4. CASE CommitRows(batch[f], FALSE) /\ UNCHANGED dirty
    <3>1. \A w \in Widgets :
            \/ batch[f][w] = None /\ row'[w] = row[w] /\ (w \in overtaken => w \in overtaken')
            \/ batch[f][w] # None /\ row'[w] = batch[f][w]
      BY <2>4 DEF CommitRows
    <3>2. BatchCurrent'
      BY <1>q, <2>1, <2>2, <2>4 DEF TrackInv, BatchCurrent
    <3>3. LayoutTracked'
      BY <1>q, <2>1, <2>3, <2>4, <3>1 DEF TrackInv, BatchCurrent, LayoutTracked
    <3> QED
      BY <3>2, <3>3 DEF TrackInv
  <2>5. CASE /\ batch[f] # NoRows
             /\ CommitFails
             /\ dirty' = dirty \cup {w \in Widgets : batch[f][w] # None}
    <3>1. UNCHANGED <<row, overtaken>>
      BY <2>5 DEF CommitFails
    <3> QED
      BY <1>q, <2>1, <2>2, <2>3, <2>5, <3>1
      DEF TrackInv, BatchCurrent, LayoutTracked
  <2> QED
    BY <1>4, <2>4, <2>5 DEF FlushCommit
<1> QED
  BY <1>1, <1>2, <1>3, <1>4 DEF Flush

LEMMA TrackStep ==
    Types /\ FlusherInv /\ LifeInv /\ TrackInv /\ [Next]_vars => TrackInv'
<1> SUFFICES ASSUME Types, FlusherInv, LifeInv, TrackInv, [Next]_vars
             PROVE  TrackInv'
  OBVIOUS
<1>1. CASE UNCHANGED vars
  BY <1>1
  DEF vars, TrackInv, BatchCurrent, LayoutTracked, InFlush, AboutToQueue
<1>2. CASE \/ Shutdown \/ SnapshotCollect \/ SnapshotCommit \/ ShutdownClose
           \/ Crash
  BY <1>2
  DEF Shutdown, SnapshotCollect, SnapshotCommit, ShutdownClose, Crash,
      TrackInv, BatchCurrent, LayoutTracked
<1>3. CASE Restart
  BY <1>3
  DEF Restart, FreshMemory, NoRows, Types, TypeOK, TrackInv, BatchCurrent,
      LayoutTracked
<1>4. CASE Next
  BY <1>2, <1>3, <1>4, TrackCreate, TrackClose, TrackMove, TrackSave, TrackFlush
  DEF Next, Call
<1> QED
  BY <1>1, <1>4

\* While the manager is up no layout change of an open widget is forgotten:
\* move_and_resize writes the layout before it marks it, one flusher at a time
\* takes the marks, a failed batch is marked again, and close clears only the
\* mark of a widget that has left the map.
THEOREM ChangesTracked == Spec => []LayoutTracked
<1>1. TrackInv => LayoutTracked
  BY DEF TrackInv
<1> QED
  BY TypeInit, TypeStep, FlusherInit, FlusherStep, LifeInit, LifeStep,
     TrackInit, TrackStep, <1>1, PTL
  DEF Spec

-----------------------------------------------------------------------------
(* A quiet shutdown.                                                       *)

\* After a quiet shutdown no layout changes: whoever still writes, the late
\* flusher or the snapshot, writes the last one.
Calm ==
    kept # {} =>
        /\ phase # "up"
        /\ \A t \in Tasks : step[t] = "idle"
        /\ \A f \in Flushers, w \in Widgets : batch[f][w] \in {None, layout[w]}
        /\ phase = "snapshot" => kept \subseteq instances
        /\ phase = "commit" => \A w \in kept : final[w] = layout[w]
        /\ phase \in {"closing", "down"} => \A w \in kept : row[w] = layout[w]

LEMMA CalmInit == Init => Calm
BY DEF Init, Calm

\* No call begins once the manager is no longer up, and none is under way.
LEMMA CalmCall ==
    ASSUME Types, Calm, NEW t \in Tasks,
           Create(t) \/ Close(t) \/ Move(t) \/ Save(t) \/ Call(t)
    PROVE  Calm'
<1>1. step[t] # "idle" \/ phase = "up"
  BY DEF Create, Close, Move, Save, Begin, Call, CreatePersist, CreateInsert,
         CloseHook, CloseDelete, MoveWrite, QueueLayoutSave,
         EnsureLayoutFlusher, SaveCollect, SaveCommit
<1>2. kept' = kept
  BY DEF Create, Close, Move, Save, Call, CreatePersist, CreateInsert,
         CloseHook, CloseDelete, MoveWrite, QueueLayoutSave,
         EnsureLayoutFlusher, SaveCollect, SaveCommit
<1> QED
  BY <1>1, <1>2 DEF Calm

LEMMA CalmFlush ==
    ASSUME Types, Calm, NEW f \in Flushers, Flush(f)
    PROVE  Calm'
<1> USE DEF Types, TypeOK, Known, FlushGoto, calls, store
<1>u. UNCHANGED <<phase, instances, layout, step, final, kept>>
  BY DEF Flush, FlushWake, FlushTake, FlushCollect, FlushCommit, FlushUnslot,
         FlushRecheck, FlushRearm
<1>1. CASE UNCHANGED <<batch, row>>
  BY <1>1, <1>u DEF Calm
<1>2. CASE FlushCollect(f)
  <2>1. \A g \in Flushers, w \in Widgets : batch'[g][w] \in {batch[g][w], layout[w]}
    BY <1>2 DEF FlushCollect
  <2>2. row' = row
    BY <1>2 DEF FlushCollect
  <2> QED
    BY <1>u, <2>1, <2>2 DEF Calm
<1>3. CASE FlushCommit(f)
  <2>1. \A g \in Flushers, w \in Widgets : batch'[g][w] \in {batch[g][w], None}
    BY <1>3 DEF FlushCommit, NoRows
  <2>2. \A w \in Widgets :
          row'[w] = row[w] \/ (batch[f][w] # None /\ row'[w] = batch[f][w])
    BY <1>3 DEF FlushCommit, CommitRows, CommitFails
  <2> QED
    BY <1>u, <2>1, <2>2 DEF Calm
<1> QED
  BY <1>1, <1>2, <1>3
  DEF Flush, FlushWake, FlushTake, FlushUnslot, FlushRecheck, FlushRearm

LEMMA CalmShutdown ==
    ASSUME Types, FlusherInv, Calm,
           Shutdown \/ SnapshotCollect \/ SnapshotCommit \/ ShutdownClose
    PROVE  Calm'
<1> USE DEF Types, TypeOK, Known, calls, flushing, store
<1>1. CASE Shutdown
  <2>1. kept' # {} => Quiet /\ kept' = instances
    BY <1>1 DEF Shutdown
  <2>2. Quiet => \A f \in Flushers, w \in Widgets : batch[f][w] = None
    BY DEF Quiet, FlusherInv, FlushShape
  <2>3. phase' = "snapshot" /\ UNCHANGED <<instances, layout, batch, step>>
    BY <1>1 DEF Shutdown
  <2> QED
    BY <2>1, <2>2, <2>3 DEF Calm, Quiet
<1>2. CASE SnapshotCollect
  BY <1>2 DEF SnapshotCollect, Calm
<1>3. CASE SnapshotCommit
  <2>1. CASE CommitRows(final, TRUE) /\ UNCHANGED kept
    <3>1. \A w \in Widgets : final[w] # None => row'[w] = final[w]
      BY <2>1 DEF CommitRows
    <3>2. kept # {} => \A w \in kept : row'[w] = layout[w]
      BY <1>3, <3>1, WidgetConstants DEF SnapshotCommit, Calm
    <3> QED
      BY <1>3, <2>1, <3>2 DEF SnapshotCommit, Calm
  <2>2. CASE kept' = {}
    BY <2>2 DEF Calm
  <2> QED
    BY <1>3, <2>1, <2>2 DEF SnapshotCommit
<1>4. CASE ShutdownClose
  BY <1>4 DEF ShutdownClose, Calm
<1> QED
  BY <1>1, <1>2, <1>3, <1>4

LEMMA CalmStep == Types /\ FlusherInv /\ Calm /\ [Next]_vars => Calm'
<1> SUFFICES ASSUME Types, FlusherInv, Calm, [Next]_vars PROVE Calm'
  OBVIOUS
<1>1. CASE UNCHANGED vars
  BY <1>1 DEF vars, Calm
<1>2. CASE Crash \/ Restart
  BY <1>2 DEF Crash, Restart, FreshMemory, Calm
<1>3. CASE Next
  BY <1>2, <1>3, CalmCall, CalmFlush, CalmShutdown DEF Next
<1> QED
  BY <1>1, <1>3

\* After a shutdown that interrupted nothing and whose snapshot was written,
\* every widget that was open has its last layout in the store, also when a
\* flusher that was not in the slot any more spawned another one meanwhile.
THEOREM QuietShutdownSaves == Spec => []QuietShutdownKeeps
<1>1. Calm => QuietShutdownKeeps
  BY DEF Calm, QuietShutdownKeeps
<1> QED
  BY TypeInit, TypeStep, FlusherInit, FlusherStep, CalmInit, CalmStep, <1>1, PTL
  DEF Spec

=============================================================================
