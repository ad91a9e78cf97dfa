---------------------------- MODULE WidgetManager ----------------------------
(***************************************************************************)
(* The widget manager of crates/orchid-widgets: the instances in memory,   *)
(* their rows in the state store, and the debounced flusher that writes    *)
(* layout changes back.                                                    *)
(*                                                                         *)
(* A widget's position, size and placement are one layout version: every   *)
(* change makes a new one.  The rest of a row (configuration, lifecycle)   *)
(* is written together with the layout by the same calls and is left out.  *)
(* Callers are tokio tasks that run on several threads, so every lock that *)
(* is taken and released, and every await, ends a step.                    *)
(***************************************************************************)
EXTENDS Naturals, FiniteSets

CONSTANTS
    Widgets,     \* instance ids; create draws a fresh one
    Tasks,       \* tasks that call the manager
    Flushers,    \* layout flusher tasks that may be alive at once
    None,        \* no row, no flusher in the slot
    Ops,         \* operations the tasks call
    Faults,      \* what may fail: "store", "hook", "restore"
    MaxLayout,   \* bound: layout versions of a widget
    MaxFails     \* bound: failed transactions

ASSUME WidgetConstants ==
    /\ None \notin Flushers
    /\ None \notin Nat
    /\ MaxLayout \in Nat
    /\ MaxFails \in Nat

VARIABLES
    phase,       \* "up", the stages of shutdown, "down"
    instances,   \* WidgetManagerInner::instances
    born,        \* ids create has drawn
    layout,      \* the runtimes' current layout
    row,         \* the state store: layout of the persisted row, or None
    dirty,       \* layout_dirty
    slot,        \* layout_flush: the flusher whose handle it holds, or None
    fpc,         \* flusher tasks: next step
    taken,       \* flusher tasks: ids taken from layout_dirty
    batch,       \* flusher tasks: rows collected
    step,        \* callers: next step
    on,          \* callers: the widget of the call
    image,       \* callers: the row a save has collected
    final,       \* shutdown: rows collected by the last snapshot
    fails,       \* failed transactions so far
    closed,      \* ghost: closes that returned Ok
    raced,       \* ghost: a row was committed after its widget left instances
    overtaken,   \* ghost: a save committed an older layout than the current one
    kept         \* ghost: open widgets a quiet shutdown has to preserve

store == <<row, fails, raced, overtaken>>
flushing == <<fpc, taken, batch, slot>>
calls == <<step, on, image>>
vars == <<phase, instances, born, layout, row, dirty, slot, fpc, taken, batch,
          step, on, image, final, fails, closed, raced, overtaken, kept>>

FlushSteps == {"idle", "sleep", "take", "collect", "commit", "unslot",
               "recheck", "rearm"}
CallSteps == {"idle", "persist", "insert", "hook", "delete", "write", "queue",
              "ensure", "collect", "commit"}
Phases == {"up", "snapshot", "commit", "closing", "down"}

NoRows == [w \in Widgets |-> None]

Init ==
    /\ phase = "up"
    /\ instances = {}
    /\ born = {}
    /\ layout = [w \in Widgets |-> 0]
    /\ row = NoRows
    /\ dirty = {}
    /\ slot = None
    /\ fpc = [f \in Flushers |-> "idle"]
    /\ taken = [f \in Flushers |-> {}]
    /\ batch = [f \in Flushers |-> NoRows]
    /\ step = [t \in Tasks |-> "idle"]
    /\ on = [t \in Tasks |-> None]
    /\ image = [t \in Tasks |-> None]
    /\ final = NoRows
    /\ fails = 0
    /\ closed = {}
    /\ raced = {}
    /\ overtaken = {}
    /\ kept = {}

-----------------------------------------------------------------------------
(* The state store.  A batch is one redb transaction: all rows or none.    *)

\* A transaction that fails changes nothing (storage.write, put or commit).
CommitFails ==
    /\ "store" \in Faults
    /\ fails < MaxFails
    /\ fails' = fails + 1
    /\ UNCHANGED <<row, raced, overtaken>>

\* save_instances_batch.  bySave: the rows come from save_instance, not from
\* the flusher.
CommitRows(rows, bySave) ==
    LET written == {w \in Widgets : rows[w] # None} IN
    /\ row' = [w \in Widgets |-> IF w \in written THEN rows[w] ELSE row[w]]
    /\ raced' = raced \cup (written \ instances)
    /\ overtaken' = (overtaken \ written) \cup
                    {w \in written : bySave /\ rows[w] # layout[w]}
    /\ UNCHANGED fails

-----------------------------------------------------------------------------
(* Calls.  begin looks the instance up; Goto and Done move the caller.     *)

Goto(t, s) == step' = [step EXCEPT ![t] = s]

Done(t) ==
    /\ step' = [step EXCEPT ![t] = "idle"]
    /\ on' = [on EXCEPT ![t] = None]
    /\ image' = [image EXCEPT ![t] = None]

Begin(t, op, w, s) ==
    /\ phase = "up"
    /\ op \in Ops
    /\ step[t] = "idle"
    /\ step' = [step EXCEPT ![t] = s]
    /\ on' = [on EXCEPT ![t] = w]
    /\ UNCHANGED image

\* create: the factory and the hooks run before anything is visible.
Create(t) ==
    /\ \E w \in Widgets \ born :
        /\ Begin(t, "create", w, "persist")
        /\ born' = born \cup {w}
    /\ UNCHANGED <<phase, instances, layout, dirty, flushing, final, store,
                   closed, kept>>

\* Mutant: the error of save_instance is ignored.
CreatePersist_Ignored(t) ==
    /\ step[t] = "persist"
    /\ \/ CommitFails
       \/ /\ row' = [row EXCEPT ![on[t]] = layout[on[t]]]
          /\ UNCHANGED <<fails, raced, overtaken>>
    /\ Goto(t, "insert")
    /\ UNCHANGED <<phase, instances, born, layout, dirty, flushing, on, image,
                   final, closed, kept>>

\* create persists the row first; an error returns before the insert.
CreatePersist(t) ==
    /\ step[t] = "persist"
    /\ \/ /\ CommitFails
          /\ Done(t)
       \/ /\ row' = [row EXCEPT ![on[t]] = layout[on[t]]]
          /\ Goto(t, "insert")
          /\ UNCHANGED <<on, image, fails, raced, overtaken>>
    /\ UNCHANGED <<phase, instances, born, layout, dirty, flushing, final,
                   closed, kept>>

CreateInsert(t) ==
    /\ step[t] = "insert"
    /\ instances' = instances \cup {on[t]}
    /\ Done(t)
    /\ UNCHANGED <<phase, born, layout, dirty, flushing, final, store, closed,
                   kept>>

\* close_locked(id, true): the instance leaves the map before on_close runs.
Close(t) ==
    /\ \E w \in instances :
        /\ Begin(t, "close", w, "hook")
        /\ instances' = instances \ {w}
    /\ UNCHANGED <<phase, born, layout, dirty, flushing, final, store, closed,
                   kept>>

\* on_close; its error returns early and leaves the row and the dirty mark.
CloseHook(t) ==
    /\ step[t] = "hook"
    /\ \/ /\ "hook" \in Faults
          /\ Done(t)
          /\ UNCHANGED dirty
       \/ /\ dirty' = dirty \ {on[t]}
          /\ Goto(t, "delete")
          /\ UNCHANGED <<on, image>>
    /\ UNCHANGED <<phase, instances, born, layout, flushing, final, store,
                   closed, kept>>

\* Mutant: close leaves the row, as shutdown does.
CloseDelete_KeepsRow(t) ==
    /\ step[t] = "delete"
    /\ closed' = closed \cup {on[t]}
    /\ Done(t)
    /\ UNCHANGED <<phase, instances, born, layout, dirty, flushing, final, store,
                   kept>>

CloseDelete(t) ==
    /\ step[t] = "delete"
    /\ \/ /\ CommitFails
          /\ UNCHANGED closed
       \/ /\ row' = [row EXCEPT ![on[t]] = None]
          /\ closed' = closed \cup {on[t]}
          /\ UNCHANGED <<fails, raced, overtaken>>
    /\ Done(t)
    /\ UNCHANGED <<phase, instances, born, layout, dirty, flushing, final, kept>>

\* move_and_resize and set_window_placement: look the instance up ...
Move(t) ==
    /\ \E w \in instances : layout[w] < MaxLayout /\ Begin(t, "move", w, "write")
    /\ UNCHANGED <<phase, instances, born, layout, dirty, flushing, final, store,
                   closed, kept>>

\* ... run on_resize (an error returns), then write the new layout ...
MoveWrite(t) ==
    /\ step[t] = "write"
    /\ \/ /\ "hook" \in Faults
          /\ Done(t)
          /\ UNCHANGED layout
       \/ /\ layout[on[t]] < MaxLayout
          /\ layout' = [layout EXCEPT ![on[t]] = @ + 1]
          /\ Goto(t, "queue")
          /\ UNCHANGED <<on, image>>
    /\ UNCHANGED <<phase, instances, born, dirty, flushing, final, store, closed,
                   kept>>

\* ... and queue_layout_save: mark the id, then make sure a flusher sleeps.
QueueLayoutSave(t) ==
    /\ step[t] = "queue"
    /\ dirty' = dirty \cup {on[t]}
    /\ Goto(t, "ensure")
    /\ UNCHANGED <<phase, instances, born, layout, flushing, on, image, final,
                   store, closed, kept>>

\* ensure_layout_flusher, under the slot's lock.
SpawnFlusher(f) ==
    /\ slot' = f
    /\ fpc' = [fpc EXCEPT ![f] = "sleep"]

EnsureLayoutFlusher(t) ==
    /\ step[t] = "ensure"
    /\ \/ slot # None /\ UNCHANGED <<slot, fpc>>
       \/ /\ slot = None
          /\ \E f \in Flushers : fpc[f] = "idle" /\ SpawnFlusher(f)
    /\ Done(t)
    /\ UNCHANGED <<phase, instances, born, layout, dirty, taken, batch, final,
                   store, closed, kept>>

\* change_lifecycle and save_widget_state: look up, run the widget's hooks,
\* then save_instance: read the row from the runtime, commit it.
Save(t) ==
    /\ \E w \in instances : Begin(t, "save", w, "collect")
    /\ UNCHANGED <<phase, instances, born, layout, dirty, flushing, final, store,
                   closed, kept>>

SaveCollect(t) ==
    /\ step[t] = "collect"
    /\ \/ /\ "hook" \in Faults
          /\ Done(t)
       \/ /\ image' = [image EXCEPT ![t] = layout[on[t]]]
          /\ Goto(t, "commit")
          /\ UNCHANGED on
    /\ UNCHANGED <<phase, instances, born, layout, dirty, flushing, final, store,
                   closed, kept>>

SaveCommit(t) ==
    /\ step[t] = "commit"
    /\ \/ CommitFails
       \/ CommitRows([NoRows EXCEPT ![on[t]] = image[t]], TRUE)
    /\ Done(t)
    /\ UNCHANGED <<phase, instances, born, layout, dirty, flushing, final,
                   closed, kept>>

-----------------------------------------------------------------------------
(* The flusher task spawned by ensure_layout_flusher.                      *)

FlushGoto(f, s) == fpc' = [fpc EXCEPT ![f] = s]

\* The 200 ms sleep ends.
FlushWake(f) ==
    /\ fpc[f] = "sleep"
    /\ FlushGoto(f, "take")
    /\ UNCHANGED <<phase, instances, born, layout, dirty, slot, taken, batch,
                   calls, final, store, closed, kept>>

\* flush_layout_saves takes the whole set; an empty one ends it.
FlushTake(f) ==
    /\ fpc[f] = "take"
    /\ taken' = [taken EXCEPT ![f] = dirty]
    /\ dirty' = {}
    /\ FlushGoto(f, IF dirty = {} THEN "unslot" ELSE "collect")
    /\ UNCHANGED <<phase, instances, born, layout, slot, batch, calls, final,
                   store, closed, kept>>

\* One row of the batch; ids that have left the map are skipped.
FlushCollect(f) ==
    /\ fpc[f] = "collect"
    /\ \E w \in taken[f] :
        /\ batch' = IF w \in instances
                    THEN [batch EXCEPT ![f][w] = layout[w]] ELSE batch
        /\ taken' = [taken EXCEPT ![f] = @ \ {w}]
        /\ FlushGoto(f, IF taken[f] = {w} THEN "commit" ELSE "collect")
    /\ UNCHANGED <<phase, instances, born, layout, dirty, slot, calls, final,
                   store, closed, kept>>

\* Mutant: the rows of a failed batch are not queued again.
FlushCommit_Forgets(f) ==
    /\ fpc[f] = "commit"
    /\ CommitRows(batch[f], FALSE) \/ CommitFails
    /\ batch' = [batch EXCEPT ![f] = NoRows]
    /\ FlushGoto(f, "unslot")
    /\ UNCHANGED <<phase, instances, born, layout, dirty, slot, taken, calls,
                   final, closed, kept>>

\* The batch is committed; when that fails its rows are dirty again.
FlushCommit(f) ==
    /\ fpc[f] = "commit"
    /\ \/ /\ CommitRows(batch[f], FALSE)
          /\ UNCHANGED dirty
       \/ /\ batch[f] # NoRows
          /\ CommitFails
          /\ dirty' = dirty \cup {w \in Widgets : batch[f][w] # None}
    /\ batch' = [batch EXCEPT ![f] = NoRows]
    /\ FlushGoto(f, "unslot")
    /\ UNCHANGED <<phase, instances, born, layout, slot, taken, calls, final,
                   closed, kept>>

\* The slot is emptied first ...
FlushUnslot(f) ==
    /\ fpc[f] = "unslot"
    /\ slot' = None
    /\ FlushGoto(f, "recheck")
    /\ UNCHANGED <<phase, instances, born, layout, dirty, taken, batch, calls,
                   final, store, closed, kept>>

\* Mutant: the ending flusher does not look at the set again.
FlushRecheck_Never(f) ==
    /\ fpc[f] = "recheck"
    /\ FlushGoto(f, "idle")
    /\ UNCHANGED <<phase, instances, born, layout, dirty, slot, taken, batch,
                   calls, final, store, closed, kept>>

\* ... and only then is the set looked at again.
FlushRecheck(f) ==
    /\ fpc[f] = "recheck"
    /\ FlushGoto(f, IF dirty = {} THEN "idle" ELSE "rearm")
    /\ UNCHANGED <<phase, instances, born, layout, dirty, slot, taken, batch,
                   calls, final, store, closed, kept>>

\* ensure_layout_flusher by the ending flusher; the task it spawns takes f's id.
FlushRearm(f) ==
    /\ fpc[f] = "rearm"
    /\ \/ /\ slot # None
          /\ FlushGoto(f, "idle")
          /\ UNCHANGED slot
       \/ /\ slot = None
          /\ SpawnFlusher(f)
    /\ UNCHANGED <<phase, instances, born, layout, dirty, taken, batch, calls,
                   final, store, closed, kept>>

-----------------------------------------------------------------------------
(* Shutdown, crash and restart.                                            *)

\* No call and no flush is under way.
Quiet ==
    /\ \A t \in Tasks : step[t] = "idle"
    /\ \A f \in Flushers : fpc[f] \notin {"take", "collect", "commit"}

\* shutdown runs after the event loop: no new call begins, those under way go
\* on.  The flusher in the slot is aborted, which only its sleep notices.
Shutdown ==
    /\ phase = "up"
    /\ phase' = "snapshot"
    /\ slot' = None
    /\ fpc' = IF slot # None /\ fpc[slot] = "sleep"
              THEN [fpc EXCEPT ![slot] = "idle"] ELSE fpc
    /\ kept' = IF Quiet THEN instances ELSE {}
    /\ UNCHANGED <<instances, born, layout, dirty, taken, batch, calls, final,
                   store, closed>>

\* Mutant: only the ids still marked are collected, and they were just cleared.
SnapshotCollect_Marked ==
    /\ phase = "snapshot"
    /\ phase' = "commit"
    /\ dirty' = {}
    /\ final' = [w \in Widgets |-> IF w \in dirty' THEN layout[w] ELSE None]
    /\ UNCHANGED <<instances, born, layout, flushing, calls, store, closed, kept>>

\* snapshot_to_storage: forget the dirty ids, collect a row per instance ...
\* Only calls begun before shutdown can come between two rows, and what is
\* promised then is promised of quiet shutdowns: the collection is one step.
SnapshotCollect ==
    /\ phase = "snapshot"
    /\ phase' = "commit"
    /\ dirty' = {}
    /\ final' = [w \in Widgets |-> IF w \in instances THEN layout[w] ELSE None]
    /\ UNCHANGED <<instances, born, layout, flushing, calls, store, closed, kept>>

\* ... and commit them; a failure is only logged.
SnapshotCommit ==
    /\ phase = "commit"
    /\ phase' = "closing"
    /\ \/ CommitRows(final, TRUE) /\ UNCHANGED kept
       \/ final # NoRows /\ CommitFails /\ kept' = {}
    /\ final' = NoRows
    /\ UNCHANGED <<instances, born, layout, dirty, flushing, calls, closed>>

\* close_locked(id, false) for every instance: the rows stay.
ShutdownClose ==
    /\ phase = "closing"
    /\ \/ /\ \E w \in instances : instances' = instances \ {w} /\ dirty' = dirty \ {w}
          /\ UNCHANGED phase
       \/ /\ instances = {}
          /\ phase' = "down"
          /\ UNCHANGED <<instances, dirty>>
    /\ UNCHANGED <<born, layout, flushing, calls, final, store, closed, kept>>

\* What a process has in memory before it has restored or done anything.
FreshMemory ==
    /\ dirty' = {}
    /\ slot' = None
    /\ fpc' = [f \in Flushers |-> "idle"]
    /\ taken' = [f \in Flushers |-> {}]
    /\ batch' = [f \in Flushers |-> NoRows]
    /\ step' = [t \in Tasks |-> "idle"]
    /\ on' = [t \in Tasks |-> None]
    /\ image' = [t \in Tasks |-> None]
    /\ final' = NoRows
    /\ overtaken' = {}
    /\ kept' = {}

\* The process dies at any moment.
Crash ==
    /\ phase # "down"
    /\ phase' = "down"
    /\ instances' = {}
    /\ layout' = [w \in Widgets |-> 0]
    /\ FreshMemory
    /\ UNCHANGED <<born, row, fails, closed, raced>>

\* A new process: restore_from_storage opens every row whose widget can be
\* built; a row whose factory or on_create fails is skipped and stays.
Restart ==
    /\ phase = "down"
    /\ phase' = "up"
    /\ \E skipped \in SUBSET {w \in Widgets : row[w] # None} :
        /\ skipped # {} => "restore" \in Faults
        /\ instances' = {w \in Widgets : row[w] # None} \ skipped
    /\ layout' = [w \in Widgets |-> IF row[w] # None THEN row[w] ELSE 0]
    /\ FreshMemory
    /\ UNCHANGED <<born, row, fails, closed, raced>>

-----------------------------------------------------------------------------
Call(t) ==
    /\ phase # "down"
    /\ \/ CreatePersist(t) \/ CreateInsert(t)
       \/ CloseHook(t) \/ CloseDelete(t)
       \/ MoveWrite(t) \/ QueueLayoutSave(t) \/ EnsureLayoutFlusher(t)
       \/ SaveCollect(t) \/ SaveCommit(t)

Flush(f) ==
    /\ phase # "down"
    /\ \/ FlushWake(f) \/ FlushTake(f) \/ FlushCollect(f) \/ FlushCommit(f)
       \/ FlushUnslot(f) \/ FlushRecheck(f) \/ FlushRearm(f)

Next ==
    \/ \E t \in Tasks : Create(t) \/ Close(t) \/ Move(t) \/ Save(t) \/ Call(t)
    \/ \E f \in Flushers : Flush(f)
    \/ Shutdown \/ SnapshotCollect \/ SnapshotCommit \/ ShutdownClose
    \/ Crash
    \/ Restart

Spec == Init /\ [][Next]_vars

-----------------------------------------------------------------------------
(* Properties.                                                             *)

Row == Nat \cup {None}

\* Type invariant.
TypeOK ==
    /\ phase \in Phases
    /\ instances \subseteq born
    /\ born \subseteq Widgets
    /\ layout \in [Widgets -> Nat]
    /\ row \in [Widgets -> Row]
    /\ dirty \subseteq Widgets
    /\ slot \in Flushers \cup {None}
    /\ fpc \in [Flushers -> FlushSteps]
    /\ taken \in [Flushers -> SUBSET Widgets]
    /\ batch \in [Flushers -> [Widgets -> Row]]
    /\ step \in [Tasks -> CallSteps]
    /\ on \in [Tasks -> Widgets \cup {None}]
    /\ image \in [Tasks -> Row]
    /\ final \in [Widgets -> Row]
    /\ fails \in Nat
    /\ closed \subseteq born
    /\ raced \subseteq born
    /\ overtaken \subseteq born
    /\ kept \subseteq born

\* Some flusher still holds w, as a taken id or a collected row.
InFlush(w) == \E f \in Flushers : w \in taken[f] \/ batch[f][w] # None

\* A call has written w's layout and not marked it yet.
AboutToQueue(w) == \E t \in Tasks : step[t] = "queue" /\ on[t] = w

\* While the manager is up, no layout change of an open widget is forgotten:
\* when the stored row is behind, the id is in layout_dirty, in the hands of a
\* flusher, or about to be queued, whatever transactions failed and however
\* moves, flushes and closes interleave.  (The only way out is a row that
\* save_instance read before the change and committed after it.)
LayoutTracked ==
    phase = "up" =>
        \A w \in instances \ overtaken :
            row[w] # layout[w] => w \in dirty \/ InFlush(w) \/ AboutToQueue(w)

\* While the manager is up, marked layouts always have a flusher that will see
\* them: one that has not taken the set yet, one that will look again, or a
\* call that is about to spawn one.
FlushArmed ==
    phase = "up" /\ dirty # {} =>
        \/ slot # None
        \/ \E f \in Flushers : fpc[f] \in {"recheck", "rearm"}
        \/ \E t \in Tasks : step[t] = "ensure"

\* Whatever crashes, an open widget has a row, so it comes back at the next
\* start: create persists before it inserts, and nothing deletes the row of a
\* widget that is still in the map.
OpenHasRow == \A w \in instances : phase # "down" => row[w] # None

\* A closed widget stays closed: once close has returned Ok its row is gone for
\* good, unless a writer that had collected the row while the widget was open
\* committed it after the widget had left the map.
ClosedGone == \A w \in closed \ raced : row[w] = None

\* A shutdown that interrupts no call and no flush, and whose snapshot is
\* written, leaves every open widget in the store with its last layout: what
\* the aborted flusher had not saved is in the snapshot.
QuietShutdownKeeps == phase = "down" => \A w \in kept : row[w] = layout[w]
=============================================================================
