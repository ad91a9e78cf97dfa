------------------------------ MODULE JobQueue ------------------------------
(***************************************************************************)
(* The always-on background job queue of orchid-core: interval tickers     *)
(* registered under a key, and the keyed single-flight gate run_coalesced  *)
(* that ticker bodies and ad-hoc refreshes share.                          *)
(*                                                                         *)
(* Every map of the queue has a mutex of its own, so a call is a sequence  *)
(* of steps, one per lock it takes; the processes are the threads that     *)
(* call the queue (Clients), the tasks inside run_coalesced (Callers), the *)
(* spawned interval loops (Tickers) and the one caller of shutdown.        *)
(* Flights are the heap identities of the Arc<Mutex<FlightState>> objects. *)
(***************************************************************************)
EXTENDS Integers

CONSTANTS
    Keys,        \* job keys
    Clients,     \* threads that call schedule, resume, pause and cancel
    Callers,     \* tasks that call run_coalesced or spawn_coalesced
    Tickers,     \* identities of spawned interval tasks (a bound)
    Flights,     \* identities of flight objects (a bound)
    Stopper,     \* the thread that calls shutdown
    None,        \* "no entry"
    Owns,        \* [Clients -> SUBSET Keys]: the keys each thread manages
    Ops,         \* the operations the clients use
    Coalesced,   \* keys whose ticker body is itself a run_coalesced call
    Stops,       \* whether shutdown is ever called
    Interval,    \* the refresh interval
    MaxTime      \* bound on the clock

AllOps == {"schedule", "resume", "pause", "cancel"}

Runners == Callers \cup Tickers
Procs   == Clients \cup Runners \cup {Stopper}

ASSUME ProcsDisjoint ==
    /\ Clients \cap Callers = {}
    /\ Clients \cap Tickers = {}
    /\ Callers \cap Tickers = {}
    /\ Stopper \notin Clients \cup Runners
ASSUME NoneIsNone == None \notin Procs \cup Flights \cup Keys
ASSUME ParamTypes ==
    /\ Owns \in [Clients -> SUBSET Keys]
    /\ Ops \subseteq AllOps
    /\ Coalesced \subseteq Keys
    /\ Stops \in BOOLEAN
    /\ Interval \in Nat \ {0}
    /\ MaxTime \in Nat

VARIABLES
    jobs,      \* key -> the ticker whose AbortHandle is registered, or None
    handles,   \* key -> the ticker whose JoinHandle is kept, or None
    flights,   \* key -> flight object of the key, or None
    running,   \* flight objects whose FlightState says running
    pending,   \* flight objects whose FlightState says pending
    lastRun,   \* key -> time of the last completed tick, or Never
    shutDown,  \* the shut_down flag
    now,       \* the clock
    pc,        \* where each process is
    call,      \* the locals of each client's call in progress
    aborted,   \* interval tasks that have been told to abort
    due,       \* interval task -> its next tick (its delay until first polled)
    since,     \* ghost: the stamp a resumed task continues from, or Never
    key,       \* runner -> the key it works for, or None
    held,      \* runner -> the flight object it has cloned, or None
    drained,   \* the handles shutdown has taken out of a map
    stale      \* ghost: keys asked for since their body last started

maps   == <<jobs, handles, lastRun>>
gate   == <<flights, running, pending, stale>>
timers == <<aborted, due, since>>
runs   == <<key, held>>
vars   == <<maps, gate, timers, runs, shutDown, now, pc, call, drained>>

Never == -1
Times == 0 .. MaxTime

\* The points where an interval task awaits, and so where an abort can land.
AwaitPoints == {"born", "tick", "plain", "body"}
LivePoints  == AwaitPoints \cup {"lookup", "slot", "stamp"}

ClientPcs  == {"idle", "elapsed", "arm", "unjob", "unhandle", "spawn",
               "insjob", "inshandle", "forget", "unflight"}
CallerPcs  == {"idle", "lookup", "slot", "body"}
TickerPcs  == {"dead"} \cup LivePoints
StopperPcs == {"idle", "drainjobs", "abort", "drainhandles", "await",
               "clearflights", "clearstamps", "done"}

NoCall == [op |-> "none", key |-> None, delay |-> 0, since |-> Never,
           ticker |-> None]

Init ==
    /\ jobs = [k \in Keys |-> None]
    /\ handles = [k \in Keys |-> None]
    /\ flights = [k \in Keys |-> None]
    /\ running = {}
    /\ pending = {}
    /\ lastRun = [k \in Keys |-> Never]
    /\ shutDown = FALSE
    /\ now = 0
    /\ pc = [p \in Procs |-> IF p \in Tickers THEN "dead" ELSE "idle"]
    /\ call = [c \in Clients |-> NoCall]
    /\ aborted = {}
    /\ due = [t \in Tickers |-> 0]
    /\ since = [t \in Tickers |-> Never]
    /\ key = [r \in Runners |-> None]
    /\ held = [r \in Runners |-> None]
    /\ drained = {}
    /\ stale = {}

Goto(p, where) == pc' = [pc EXCEPT ![p] = where]
At(p, where)   == pc[p] = where

-----------------------------------------------------------------------------
(* schedule, resume, pause and cancel, run by a client thread.             *)

Begin(c, op, k, where) ==
    /\ At(c, "idle")
    /\ op \in Ops
    /\ k \in Owns[c]
    /\ call' = [call EXCEPT ![c] = [op |-> op, key |-> k, delay |-> 0,
                                    since |-> Never, ticker |-> None]]
    /\ Goto(c, where)
    /\ UNCHANGED <<maps, gate, timers, runs, shutDown, now, drained>>

Schedule(c, k) == ~shutDown /\ Begin(c, "schedule", k, "arm")

\* A key that is already scheduled is left alone.
Resume(c, k) == jobs[k] = None /\ Begin(c, "resume", k, "elapsed")

Pause(c, k) == Begin(c, "pause", k, "unjob")

Cancel(c, k) == Begin(c, "cancel", k, "unjob")

\* Mutant: the elapsed time is taken for the remaining time.
Remaining_Elapsed(k) == IF lastRun[k] = Never THEN 0 ELSE now - lastRun[k]

\* resume: what is left of the interval since the last completed tick.
Remaining(k) ==
    IF lastRun[k] = Never \/ now - lastRun[k] >= Interval
    THEN 0
    ELSE Interval - (now - lastRun[k])

ReadElapsed(c) ==
    LET k == call[c].key IN
    /\ At(c, "elapsed")
    /\ call' = [call EXCEPT ![c] = [@ EXCEPT !.delay = Remaining(k),
                                             !.since = lastRun[k]]]
    /\ Goto(c, "arm")
    /\ UNCHANGED <<maps, gate, timers, runs, shutDown, now, drained>>

Return(c) ==
    /\ Goto(c, "idle")
    /\ call' = [call EXCEPT ![c] = NoCall]

\* Mutant: the flag is checked by schedule only, not for resume.
Arm_Unchecked(c) ==
    /\ At(c, "arm")
    /\ Goto(c, "unjob")
    /\ UNCHANGED <<maps, gate, timers, runs, shutDown, now, call, drained>>

\* schedule_factory_after: give up after shutdown, else replace the old job.
Arm(c) ==
    /\ At(c, "arm")
    /\ IF shutDown THEN Return(c)
                   ELSE Goto(c, "unjob") /\ UNCHANGED call
    /\ UNCHANGED <<maps, gate, timers, runs, shutDown, now, drained>>

\* Mutant: the handle is dropped, which detaches the task, and not aborted.
RemoveJob_NoAbort(c) ==
    /\ At(c, "unjob")
    /\ jobs' = [jobs EXCEPT ![call[c].key] = None]
    /\ Goto(c, "unhandle")
    /\ UNCHANGED <<handles, lastRun, gate, timers, runs, shutDown, now, call,
                   drained>>

\* Take the AbortHandle out of the map and abort it, under the map's lock.
RemoveJob(c) ==
    LET k == call[c].key IN
    /\ At(c, "unjob")
    /\ jobs' = [jobs EXCEPT ![k] = None]
    /\ aborted' = aborted \cup ({jobs[k]} \ {None})
    /\ Goto(c, "unhandle")
    /\ UNCHANGED <<handles, lastRun, gate, due, since, runs, shutDown, now,
                   call, drained>>

RemoveHandle(c) ==
    /\ At(c, "unhandle")
    /\ handles' = [handles EXCEPT ![call[c].key] = None]
    /\ CASE call[c].op = "pause"  -> Return(c)
         [] call[c].op = "cancel" -> Goto(c, "forget") /\ UNCHANGED call
         [] OTHER                 -> Goto(c, "spawn") /\ UNCHANGED call
    /\ UNCHANGED <<jobs, lastRun, gate, timers, runs, shutDown, now, drained>>

\* An identity no handle of the queue still names.
FreeTicker(t) ==
    /\ At(t, "dead")
    /\ \A k \in Keys : jobs[k] # t /\ handles[k] # t
    /\ \A c \in Clients : call[c].ticker # t
    /\ t \notin drained

\* tokio::spawn of the interval loop.
Spawn(c, t) ==
    /\ At(c, "spawn")
    /\ FreeTicker(t)
    /\ aborted' = aborted \ {t}
    /\ due' = [due EXCEPT ![t] = call[c].delay]
    /\ since' = [since EXCEPT ![t] = call[c].since]
    /\ key' = [key EXCEPT ![t] = call[c].key]
    /\ call' = [call EXCEPT ![c].ticker = t]
    /\ pc' = [pc EXCEPT ![c] = "insjob", ![t] = "born"]
    /\ UNCHANGED <<maps, gate, held, shutDown, now, drained>>

InsertJob(c) ==
    /\ At(c, "insjob")
    /\ jobs' = [jobs EXCEPT ![call[c].key] = call[c].ticker]
    /\ Goto(c, "inshandle")
    /\ UNCHANGED <<handles, lastRun, gate, timers, runs, shutDown, now, call,
                   drained>>

InsertHandle(c) ==
    /\ At(c, "inshandle")
    /\ handles' = [handles EXCEPT ![call[c].key] = call[c].ticker]
    /\ Return(c)
    /\ UNCHANGED <<jobs, lastRun, gate, timers, runs, shutDown, now, drained>>

ForgetLastRun(c) ==
    /\ At(c, "forget")
    /\ lastRun' = [lastRun EXCEPT ![call[c].key] = Never]
    /\ Goto(c, "unflight")
    /\ UNCHANGED <<jobs, handles, gate, timers, runs, shutDown, now, call,
                   drained>>

\* cancel drops the flight object of the key only while nobody leads it.
DropIdleFlight(c) ==
    LET k == call[c].key IN
    /\ At(c, "unflight")
    /\ flights' = [flights EXCEPT ![k] = IF @ \in running THEN @ ELSE None]
    /\ Return(c)
    /\ UNCHANGED <<maps, running, pending, stale, timers, runs, shutDown, now,
                   drained>>

ClientStep(c) ==
    \/ \E k \in Keys : \/ Schedule(c, k) \/ Resume(c, k)
                       \/ Pause(c, k)    \/ Cancel(c, k)
    \/ ReadElapsed(c)
    \/ Arm(c)
    \/ RemoveJob(c)
    \/ RemoveHandle(c)
    \/ \E t \in Tickers : Spawn(c, t)
    \/ InsertJob(c)
    \/ InsertHandle(c)
    \/ ForgetLastRun(c)
    \/ DropIdleFlight(c)

-----------------------------------------------------------------------------
(* run_coalesced, run by an ad-hoc task or as the body of a ticker.        *)

\* An ad-hoc request; the call is a no-op once the queue has shut down.
Request(r, k) ==
    /\ At(r, "idle")
    /\ ~shutDown
    /\ key' = [key EXCEPT ![r] = k]
    /\ stale' = stale \cup {k}
    /\ Goto(r, "lookup")
    /\ UNCHANGED <<maps, flights, running, pending, timers, held, shutDown,
                   now, call, drained>>

\* A flight object that neither the map nor a call in progress holds.
FreeFlight(f) ==
    /\ \A k \in Keys : flights[k] # f
    /\ \A r \in Runners : held[r] # f

\* The key has a flight object: clone the Arc out of the map.
FindFlight(r) ==
    /\ flights[key[r]] # None
    /\ held' = [held EXCEPT ![r] = flights[key[r]]]
    /\ UNCHANGED <<flights, running, pending>>

\* Mutant: insert instead of entry: the caller's state replaces the old one.
NewFlight_Always(r, f) ==
    /\ FreeFlight(f)
    /\ flights' = [flights EXCEPT ![key[r]] = f]
    /\ running' = running \ {f}
    /\ pending' = pending \ {f}
    /\ held' = [held EXCEPT ![r] = f]

\* or_insert_with: a new, idle flight object.
NewFlight(r, f) ==
    /\ flights[key[r]] = None
    /\ FreeFlight(f)
    /\ flights' = [flights EXCEPT ![key[r]] = f]
    /\ running' = running \ {f}
    /\ pending' = pending \ {f}
    /\ held' = [held EXCEPT ![r] = f]

Lookup(r) ==
    /\ At(r, "lookup")
    /\ FindFlight(r) \/ \E f \in Flights : NewFlight(r, f)
    /\ Goto(r, "slot")
    /\ UNCHANGED <<maps, stale, timers, key, shutDown, now, call, drained>>

\* The call returns: a caller is done, a ticker goes on to its stamp.
Leave(r) ==
    /\ held' = [held EXCEPT ![r] = None]
    /\ \/ r \in Callers /\ Goto(r, "idle") /\ key' = [key EXCEPT ![r] = None]
       \/ r \in Tickers /\ Goto(r, "stamp") /\ UNCHANGED key

\* Mutant: a busy flight is left without a follow-up.
Join_Silent(r) ==
    /\ At(r, "slot")
    /\ held[r] \in running
    /\ Leave(r)
    /\ UNCHANGED <<maps, gate, timers, shutDown, now, call, drained>>

\* Lock the slot of a running flight: leave a follow-up for its leader.
Join(r) ==
    /\ At(r, "slot")
    /\ held[r] \in running
    /\ pending' = pending \cup {held[r]}
    /\ Leave(r)
    /\ UNCHANGED <<maps, flights, running, stale, timers, shutDown, now, call,
                   drained>>

\* Lock the slot of an idle flight: lead it, and start the body.
Lead(r) ==
    /\ At(r, "slot")
    /\ held[r] \notin running
    /\ running' = running \cup {held[r]}
    /\ pending' = pending \ {held[r]}
    /\ stale' = stale \ {key[r]}
    /\ Goto(r, "body")
    /\ UNCHANGED <<maps, flights, timers, runs, shutDown, now, call, drained>>

\* factory().await returns and the slot has a follow-up: run the body again.
Rerun(r) ==
    /\ At(r, "body")
    /\ held[r] \in pending
    /\ pending' = pending \ {held[r]}
    /\ stale' = stale \ {key[r]}
    /\ UNCHANGED <<maps, flights, running, timers, runs, shutDown, now, pc,
                   call, drained>>

\* Mutant: the leader steps down without looking for a follow-up.
StepDown_Early(r) ==
    /\ At(r, "body")
    /\ running' = running \ {held[r]}
    /\ Leave(r)
    /\ UNCHANGED <<maps, flights, pending, stale, timers, shutDown, now, call,
                   drained>>

\* factory().await returns and the slot has none: step down.
StepDown(r) ==
    /\ At(r, "body")
    /\ held[r] \notin pending
    /\ running' = running \ {held[r]}
    /\ Leave(r)
    /\ UNCHANGED <<maps, flights, pending, stale, timers, shutDown, now, call,
                   drained>>

RunStep(r) == Lookup(r) \/ Join(r) \/ Lead(r) \/ Rerun(r) \/ StepDown(r)

-----------------------------------------------------------------------------
(* The spawned interval loop.                                              *)

\* First poll: interval_at(now + first_delay, interval).
Start(t) ==
    /\ At(t, "born")
    /\ due' = [due EXCEPT ![t] = now + @]
    /\ Goto(t, "tick")
    /\ UNCHANGED <<maps, gate, aborted, since, runs, shutDown, now, call,
                   drained>>

\* MissedTickBehavior::Skip: the next multiple of the interval after now.
NextDue(d) == now + Interval - ((now - d) % Interval)

Ticks(t, where) ==
    /\ At(t, "tick")
    /\ due[t] <= now
    /\ due' = [due EXCEPT ![t] = NextDue(due[t])]
    /\ since' = [since EXCEPT ![t] = Never]
    /\ Goto(t, where)
    /\ UNCHANGED <<maps, flights, running, pending, aborted, runs, shutDown,
                   now, call, drained>>

\* A tick starts the body, here a future that does not use the gate.
TickPlain(t) ==
    /\ key[t] \notin Coalesced
    /\ Ticks(t, "plain")
    /\ UNCHANGED stale

\* A tick starts the body, here a run_coalesced of the key; that returns at
\* once when the queue has shut down.
TickGate(t) ==
    /\ key[t] \in Coalesced
    /\ \/ shutDown /\ Ticks(t, "stamp") /\ UNCHANGED stale
       \/ ~shutDown /\ Ticks(t, "lookup") /\ stale' = stale \cup {key[t]}

Tick(t) == TickPlain(t) \/ TickGate(t)

PlainBody(t) ==
    /\ At(t, "plain")
    /\ Goto(t, "stamp")
    /\ UNCHANGED <<maps, gate, timers, runs, shutDown, now, call, drained>>

Stamp(t) ==
    /\ At(t, "stamp")
    /\ lastRun' = [lastRun EXCEPT ![key[t]] = now]
    /\ Goto(t, "tick")
    /\ UNCHANGED <<jobs, handles, gate, timers, runs, shutDown, now, call,
                   drained>>

\* The runtime drops an aborted task at an await: whatever it held is
\* released, but a flight it led keeps its running mark.
Die(t) ==
    /\ t \in aborted
    /\ pc[t] \in AwaitPoints
    /\ Goto(t, "dead")
    /\ key' = [key EXCEPT ![t] = None]
    /\ held' = [held EXCEPT ![t] = None]
    /\ due' = [due EXCEPT ![t] = 0]
    /\ since' = [since EXCEPT ![t] = Never]
    /\ aborted' = aborted \ {t}
    /\ UNCHANGED <<maps, gate, shutDown, now, call, drained>>

TickerStep(t) == Start(t) \/ Tick(t) \/ PlainBody(t) \/ Stamp(t) \/ Die(t)

-----------------------------------------------------------------------------
(* shutdown.                                                               *)

SetShutDown ==
    /\ At(Stopper, "idle")
    /\ Stops
    /\ shutDown' = TRUE
    /\ Goto(Stopper, "drainjobs")
    /\ UNCHANGED <<maps, gate, timers, runs, now, call, drained>>

DrainJobs ==
    /\ At(Stopper, "drainjobs")
    /\ drained' = {jobs[k] : k \in Keys} \ {None}
    /\ jobs' = [k \in Keys |-> None]
    /\ Goto(Stopper, "abort")
    /\ UNCHANGED <<handles, lastRun, gate, timers, runs, shutDown, now, call>>

\* Aborting a task that is gone already does nothing.
AbortDrained ==
    /\ At(Stopper, "abort")
    /\ aborted' = aborted \cup {t \in drained : ~At(t, "dead")}
    /\ drained' = {}
    /\ Goto(Stopper, "drainhandles")
    /\ UNCHANGED <<maps, gate, due, since, runs, shutDown, now, call>>

DrainHandles ==
    /\ At(Stopper, "drainhandles")
    /\ drained' = {handles[k] : k \in Keys} \ {None}
    /\ handles' = [k \in Keys |-> None]
    /\ Goto(Stopper, "await")
    /\ UNCHANGED <<jobs, lastRun, gate, timers, runs, shutDown, now, call>>

AwaitHandles ==
    /\ At(Stopper, "await")
    /\ \A t \in drained : At(t, "dead")
    /\ drained' = {}
    /\ Goto(Stopper, "clearflights")
    /\ UNCHANGED <<maps, gate, timers, runs, shutDown, now, call>>

ClearFlights ==
    /\ At(Stopper, "clearflights")
    /\ flights' = [k \in Keys |-> None]
    /\ Goto(Stopper, "clearstamps")
    /\ UNCHANGED <<maps, running, pending, stale, timers, runs, shutDown, now,
                   call, drained>>

ClearStamps ==
    /\ At(Stopper, "clearstamps")
    /\ lastRun' = [k \in Keys |-> Never]
    /\ Goto(Stopper, "done")
    /\ UNCHANGED <<jobs, handles, gate, timers, runs, shutDown, now, call,
                   drained>>

StopStep ==
    \/ SetShutDown \/ DrainJobs \/ AbortDrained \/ DrainHandles
    \/ AwaitHandles \/ ClearFlights \/ ClearStamps

Advance ==
    /\ now < MaxTime
    /\ now' = now + 1
    /\ UNCHANGED <<maps, gate, timers, runs, shutDown, pc, call, drained>>

Next ==
    \/ \E c \in Clients : ClientStep(c)
    \/ \E r \in Callers : \E k \in Keys : Request(r, k)
    \/ \E r \in Runners : RunStep(r)
    \/ \E t \in Tickers : TickerStep(t)
    \/ StopStep
    \/ Advance

Spec == Init /\ [][Next]_vars

-----------------------------------------------------------------------------
(* Properties.                                                             *)

Bodies(k)   == {r \in Runners : At(r, "body") /\ key[r] = k}
Leads(r, f) == At(r, "body") /\ held[r] = f
Alive(t)    == pc[t] \in LivePoints

\* Each key is managed by one thread at a time: the key holds a widget's
\* instance id and the widget's callbacks run under its lock. A settings
\* change that re-schedules the key from the UI thread breaks this.
ExclusiveKeys ==
    \A c, d \in Clients : c # d => Owns[c] \cap Owns[d] = {}

PcOK ==
    /\ pc \in [Procs -> ClientPcs \cup CallerPcs \cup TickerPcs \cup StopperPcs]
    /\ \A c \in Clients : pc[c] \in ClientPcs
    /\ \A r \in Callers : pc[r] \in CallerPcs
    /\ \A t \in Tickers : pc[t] \in TickerPcs
    /\ pc[Stopper] \in StopperPcs

MapsOK ==
    /\ jobs \in [Keys -> Tickers \cup {None}]
    /\ handles \in [Keys -> Tickers \cup {None}]
    /\ flights \in [Keys -> Flights \cup {None}]
    /\ running \subseteq Flights
    /\ pending \subseteq Flights
    /\ lastRun \in [Keys -> Times \cup {Never}]
    /\ shutDown \in BOOLEAN
    /\ now \in Times
    /\ drained \subseteq Tickers
    /\ stale \subseteq Keys

LocalsOK ==
    /\ call \in [Clients -> [op : AllOps \cup {"none"}, key : Keys \cup {None},
                             delay : Nat, since : Times \cup {Never},
                             ticker : Tickers \cup {None}]]
    /\ aborted \subseteq Tickers
    /\ due \in [Tickers -> Nat]
    /\ since \in [Tickers -> Times \cup {Never}]
    /\ key \in [Runners -> Keys \cup {None}]
    /\ held \in [Runners -> Flights \cup {None}]

\* Every variable holds what the maps, flags and task locals of the queue can
\* hold, and each process is at a step of its own code.
TypeOK == PcOK /\ MapsOK /\ LocalsOK

\* What the locals of a call in progress hold at each of its steps.
WellFormed ==
    /\ \A c \in Clients :
          /\ pc[c] # "idle" => call[c].key \in Owns[c]
          /\ pc[c] \in {"insjob", "inshandle"} => call[c].ticker \in Tickers
    /\ \A r \in Runners :
          /\ pc[r] \notin {"idle", "dead"} => key[r] \in Keys
          /\ held[r] # None <=> pc[r] \in {"slot", "body"}

\* The slot mutex elects: one flight object never has two leaders at once,
\* a leader's object is marked running, and a follow-up is only ever left
\* with an object that is marked running.
OneLeaderPerFlight ==
    /\ \A r \in Runners : At(r, "body") => held[r] \in running
    /\ \A r, s \in Runners : \A f \in Flights :
           Leads(r, f) /\ Leads(s, f) => r = s
    /\ \A f \in Flights : f \in pending => f \in running

\* "ad-hoc and interval-driven network work for the same logical task cannot
\* overlap": two bodies of one key are never in progress together.
SingleFlight ==
    \A k \in Keys : \A r, s \in Bodies(k) : r = s

\* "A caller is currently inside the factory loop for this key": a flight
\* object marked running has a leader that is still there to clear the mark.
RunningHasLeader ==
    \A f \in Flights : f \in running => \E r \in Runners : Leads(r, f)

\* A request is never lost: from the moment run_coalesced is entered until a
\* body starts for the key, either the call itself is still on its way to the
\* slot, or a live leader of the key has the follow-up marked.
NoLostRequest ==
    \A k \in Keys : k \in stale =>
        \E r \in Runners :
            /\ key[r] = k
            /\ \/ pc[r] \in {"lookup", "slot"}
               \/ At(r, "body") /\ held[r] \in pending

\* "Re-scheduling the same key replaces the previous job": a live interval
\* task that has not been aborted can still be reached, through the jobs map,
\* by the thread that is about to register it, or by shutdown; and each key
\* has one such task.
NoLeakedTicker ==
    \A t \in Tickers : Alive(t) /\ t \notin aborted =>
        \/ jobs[key[t]] = t
        \/ \E c \in Clients : At(c, "insjob") /\ call[c].ticker = t
        \/ At(Stopper, "abort") /\ t \in drained

\* At most one interval task of a key is alive with no abort sent or on its
\* way (shutdown has taken its handle out of the map to abort it).
Wanted(t) ==
    /\ Alive(t)
    /\ t \notin aborted
    /\ ~(At(Stopper, "abort") /\ t \in drained)

OneTickerPerKey ==
    \A t, u \in Tickers :
        Wanted(t) /\ Wanted(u) /\ key[t] = key[u] => t = u

\* A key resumed inside its refresh window first ticks when the window that
\* began with the stamp it resumed from has passed, not before.
ResumeKeepsCadence ==
    [][\A t \in Tickers :
          Tick(t) /\ since[t] # Never
              => now - since[t] >= Interval]_vars

-----------------------------------------------------------------------------
(* The gate callers see: the state of FlightGate computed from the queue.  *)

AskingOf(k) == {r \in Runners : key[r] = k /\ pc[r] \in {"lookup", "slot"}}
LeaderOf(k) ==
    IF Bodies(k) # {} THEN CHOOSE r \in Bodies(k) : TRUE
    ELSE IF flights[k] \in running THEN Stopper ELSE None
AgainOf(k)  == flights[k] \in pending

Gate == INSTANCE FlightGate WITH
            asking <- [k \in Keys |-> AskingOf(k)],
            leader <- [k \in Keys |-> LeaderOf(k)],
            again  <- [k \in Keys |-> AgainOf(k)],
            Gone   <- Stopper

\* run_coalesced, with its calls aborted at any await by pause and by another
\* schedule, implements FlightGate as long as no flight object is dropped under
\* a caller (cancel, shutdown): the map lookup and the slot lock, which are two
\* steps, act as one decision, and no other call runs a key whose leader is gone.
GateSpec == Gate!Spec

-----------------------------------------------------------------------------
(* Fairness and liveness.                                                  *)

\* tokio polls every ready task and drops every aborted one; a body (a
\* network fetch with a timeout) returns; a call of the queue never blocks,
\* it only takes uncontended-for-long mutexes.
Fairness ==
    /\ \A r \in Runners : WF_vars(RunStep(r))
    /\ \A t \in Tickers : /\ WF_vars(Start(t) \/ PlainBody(t) \/ Stamp(t))
                          /\ WF_vars(Die(t))
    /\ \A c \in Clients :
          /\ WF_vars(ReadElapsed(c) \/ Arm(c) \/ RemoveJob(c) \/ RemoveHandle(c))
          /\ WF_vars(InsertJob(c) \/ InsertHandle(c))
          /\ WF_vars(\E t \in Tickers : Spawn(c, t))
          /\ WF_vars(ForgetLastRun(c) \/ DropIdleFlight(c))
    /\ WF_vars(DrainJobs \/ AbortDrained \/ DrainHandles \/ AwaitHandles
               \/ ClearFlights \/ ClearStamps)

FairSpec == Spec /\ Fairness

\* Work asked for through run_coalesced is eventually begun.
RequestsServed == \A k \in Keys : k \in stale ~> k \notin stale

\* "Abort every job and refuse further schedules / coalesced runs": when no
\* call of a client is half done as the flag is set, shutdown returns, and when
\* it has, no interval task is left alive.
QuietShutdownReturns ==
    (At(Stopper, "drainjobs") /\ \A c \in Clients : At(c, "idle"))
        ~> (At(Stopper, "done") /\ \A t \in Tickers : ~Alive(t))

=============================================================================
