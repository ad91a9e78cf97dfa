--------------------------- MODULE JobQueueProofs ---------------------------
(***************************************************************************)
(* Proofs about JobQueue, for any keys, threads, tasks and bounds.         *)
(***************************************************************************)
EXTENDS JobQueue, TLAPS

TypeInv == TypeOK /\ WellFormed

-----------------------------------------------------------------------------
(* Type correctness.                                                       *)

\* The next multiple of the interval is a time.
LEMMA NextDueNat ==
    ASSUME now \in Nat, NEW d \in Nat, d <= now
    PROVE  NextDue(d) \in Nat
<1>1. Interval \in Nat /\ Interval > 0
  BY ParamTypes
<1>2. (now - d) \in Nat
  OBVIOUS
<1>3. (now - d) % Interval \in 0 .. (Interval - 1)
  BY <1>1, <1>2
<1> QED
  BY <1>1, <1>3 DEF NextDue

\* The queue starts empty, with every process at rest.
LEMMA TypeInit == Init => TypeInv
<1> SUFFICES ASSUME Init PROVE TypeInv
  OBVIOUS
<1> USE ProcsDisjoint, ParamTypes DEF Init, Procs, Runners
<1>1. /\ \A c \in Clients : pc[c] = "idle"
      /\ \A r \in Callers : pc[r] = "idle"
      /\ \A t \in Tickers : pc[t] = "dead"
      /\ pc[Stopper] = "idle"
  OBVIOUS
<1>2. PcOK
  BY <1>1 DEF PcOK, ClientPcs, CallerPcs, TickerPcs, StopperPcs
<1>3. now \in Times
  BY DEF Times
<1>4. MapsOK
  <2>1. shutDown \in BOOLEAN
    OBVIOUS
  <2> QED
    BY <1>3, <2>1 DEF MapsOK
<1>5. LocalsOK
  BY DEF LocalsOK, NoCall
<1>6. WellFormed
  BY <1>1 DEF WellFormed
<1> QED
  BY <1>2, <1>4, <1>5, <1>6 DEF TypeInv, TypeOK

\* Moving one process moves no other and keeps the program counters typed.
LEMMA GotoClient ==
    ASSUME PcOK, NEW c \in Clients, NEW w \in ClientPcs, Goto(c, w)
    PROVE  /\ PcOK'
           /\ pc'[c] = w
           /\ \A p \in Procs \ {c} : pc'[p] = pc[p]
  BY ProcsDisjoint DEF PcOK, Goto, Procs, Runners

LEMMA GotoCaller ==
    ASSUME PcOK, NEW r \in Callers, NEW w \in CallerPcs, Goto(r, w)
    PROVE  /\ PcOK'
           /\ pc'[r] = w
           /\ \A p \in Procs \ {r} : pc'[p] = pc[p]
  BY ProcsDisjoint DEF PcOK, Goto, Procs, Runners

LEMMA GotoTicker ==
    ASSUME PcOK, NEW t \in Tickers, NEW w \in TickerPcs, Goto(t, w)
    PROVE  /\ PcOK'
           /\ pc'[t] = w
           /\ \A p \in Procs \ {t} : pc'[p] = pc[p]
  BY ProcsDisjoint DEF PcOK, Goto, Procs, Runners

LEMMA GotoStopper ==
    ASSUME PcOK, NEW w \in StopperPcs, Goto(Stopper, w)
    PROVE  /\ PcOK'
           /\ pc'[Stopper] = w
           /\ \A p \in Procs \ {Stopper} : pc'[p] = pc[p]
  BY ProcsDisjoint DEF PcOK, Goto, Procs, Runners

LEMMA GotoRunner ==
    ASSUME PcOK, NEW r \in Runners, NEW w \in {"lookup", "slot", "body"}, Goto(r, w)
    PROVE  /\ PcOK'
           /\ pc'[r] = w
           /\ \A p \in Procs \ {r} : pc'[p] = pc[p]
<1>1. w \in CallerPcs /\ w \in TickerPcs
  BY DEF CallerPcs, TickerPcs, LivePoints, AwaitPoints
<1>2. CASE r \in Callers
  BY <1>1, <1>2, GotoCaller
<1>3. CASE r \in Tickers
  BY <1>1, <1>3, GotoTicker
<1> QED
  BY <1>2, <1>3 DEF Runners

\* A client's call starts.
LEMMA BeginType ==
    ASSUME TypeInv, NEW c \in Clients, NEW k \in Keys, NEW op \in AllOps,
           NEW w \in {"arm", "elapsed", "unjob"}, Begin(c, op, k, w)
    PROVE  TypeInv'
<1> USE DEF TypeInv, TypeOK, Begin, maps, gate, timers, runs
<1>1. /\ PcOK'
      /\ pc'[c] = w
      /\ \A p \in Procs \ {c} : pc'[p] = pc[p]
  BY GotoClient DEF ClientPcs
<1>2. LocalsOK' /\ MapsOK'
  BY DEF LocalsOK, MapsOK
<1>3. WellFormed'
  BY <1>1, ProcsDisjoint DEF WellFormed, LocalsOK, Procs, Runners
<1> QED
  BY <1>1, <1>2, <1>3

LEMMA ReadElapsedType ==
    ASSUME TypeInv, NEW c \in Clients, ReadElapsed(c)
    PROVE  TypeInv'
<1> USE DEF TypeInv, TypeOK, ReadElapsed, maps, gate, timers, runs
<1>1. /\ PcOK'
      /\ pc'[c] = "arm"
      /\ \A p \in Procs \ {c} : pc'[p] = pc[p]
  BY GotoClient DEF ClientPcs
<1>2. call[c].key \in Keys
  BY ParamTypes DEF WellFormed, At
<1>3. /\ Remaining(call[c].key) \in Nat
      /\ lastRun[call[c].key] \in Times \cup {Never}
  BY <1>2, ParamTypes DEF Remaining, MapsOK, Times, Never
<1>4. ASSUME NEW d \in Nat, NEW s \in Times \cup {Never}
      PROVE  [call[c] EXCEPT !.delay = d, !.since = s]
               \in [op : AllOps \cup {"none"}, key : Keys \cup {None}, delay : Nat,
                    since : Times \cup {Never}, ticker : Tickers \cup {None}]
  BY ZenonT(40) DEF LocalsOK
<1>5. LocalsOK' /\ MapsOK'
  BY <1>3, <1>4 DEF LocalsOK, MapsOK
<1>6. call'[c].key = call[c].key
  BY DEF LocalsOK
<1>7. WellFormed'
  BY <1>1, <1>6, ProcsDisjoint DEF WellFormed, LocalsOK, Procs, Runners, At
<1> QED
  BY <1>1, <1>5, <1>7

LEMMA ArmType ==
    ASSUME TypeInv, NEW c \in Clients, Arm(c)
    PROVE  TypeInv'
<1> USE DEF TypeInv, TypeOK, Arm, Return, maps, gate, timers, runs
<1>1. call[c].key \in Keys
  BY ParamTypes DEF WellFormed, At
<1>2. PICK w \in {"idle", "unjob"} : Goto(c, w)
  BY DEF At
<1>3. /\ PcOK'
      /\ pc'[c] = w
      /\ \A p \in Procs \ {c} : pc'[p] = pc[p]
  BY <1>2, GotoClient DEF ClientPcs
<1>4. MapsOK'
  BY <1>1 DEF MapsOK, LocalsOK, WellFormed, At
<1>6. LocalsOK'
  BY <1>1 DEF LocalsOK, NoCall
<1>5. LocalsOK' /\ WellFormed'
  <2>1. CASE shutDown
    BY <2>1, <1>1, <1>3, <1>6, ProcsDisjoint, SMTT(30)
    DEF LocalsOK, WellFormed, Procs, Runners, At, PcOK, Goto, NoCall
  <2>2. CASE ~shutDown
    BY <2>2, <1>1, <1>3, <1>6, ProcsDisjoint
    DEF LocalsOK, WellFormed, Procs, Runners, At, PcOK, Goto, NoCall
  <2> QED
    BY <2>1, <2>2
<1> QED
  BY <1>3, <1>4, <1>5

LEMMA RemoveJobType ==
    ASSUME TypeInv, NEW c \in Clients, RemoveJob(c)
    PROVE  TypeInv'
<1> USE DEF TypeInv, TypeOK, RemoveJob, maps, gate, timers, runs
<1>1. call[c].key \in Keys
  BY ParamTypes DEF WellFormed, At
<1>2. PICK w \in {"unhandle"} : Goto(c, w)
  BY DEF At
<1>3. /\ PcOK'
      /\ pc'[c] = w
      /\ \A p \in Procs \ {c} : pc'[p] = pc[p]
  BY <1>2, GotoClient DEF ClientPcs
<1>4. MapsOK'
  BY <1>1 DEF MapsOK, LocalsOK, WellFormed, At
<1>5. LocalsOK' /\ WellFormed'
  BY <1>1, <1>2, <1>3, ProcsDisjoint
  DEF LocalsOK, MapsOK, WellFormed, Procs, Runners, At
<1> QED
  BY <1>3, <1>4, <1>5

LEMMA RemoveHandleType ==
    ASSUME TypeInv, NEW c \in Clients, RemoveHandle(c)
    PROVE  TypeInv'
<1> USE DEF TypeInv, TypeOK, RemoveHandle, Return, maps, gate, timers, runs
<1>1. call[c].key \in Keys
  BY ParamTypes DEF WellFormed, At
<1>2. PICK w \in {"idle", "forget", "spawn"} : Goto(c, w)
  BY DEF At
<1>3. /\ PcOK'
      /\ pc'[c] = w
      /\ \A p \in Procs \ {c} : pc'[p] = pc[p]
  BY <1>2, GotoClient DEF ClientPcs
<1>4. MapsOK'
  BY <1>1 DEF MapsOK, LocalsOK, WellFormed, At
<1>6. LocalsOK'
  BY <1>1 DEF LocalsOK, NoCall
<1>5. LocalsOK' /\ WellFormed'
  <2>1. CASE call[c].op = "pause"
    BY <2>1, <1>1, <1>3, <1>6, ProcsDisjoint
    DEF LocalsOK, WellFormed, Procs, Runners, At, PcOK, Goto, NoCall
  <2>2. CASE call[c].op # "pause"
    BY <2>2, <1>1, <1>3, <1>6, ProcsDisjoint
    DEF LocalsOK, WellFormed, Procs, Runners, At, PcOK, Goto, NoCall
  <2> QED
    BY <2>1, <2>2
<1> QED
  BY <1>3, <1>4, <1>5

LEMMA InsertJobType ==
    ASSUME TypeInv, NEW c \in Clients, InsertJob(c)
    PROVE  TypeInv'
<1> USE DEF TypeInv, TypeOK, InsertJob, maps, gate, timers, runs
<1>1. call[c].key \in Keys
  BY ParamTypes DEF WellFormed, At
<1>2. PICK w \in {"inshandle"} : Goto(c, w)
  BY DEF At
<1>3. /\ PcOK'
      /\ pc'[c] = w
      /\ \A p \in Procs \ {c} : pc'[p] = pc[p]
  BY <1>2, GotoClient DEF ClientPcs
<1>4. MapsOK'
  BY <1>1 DEF MapsOK, LocalsOK, WellFormed, At
<1>5. LocalsOK' /\ WellFormed'
  BY <1>1, <1>2, <1>3, ProcsDisjoint
  DEF LocalsOK, MapsOK, WellFormed, Procs, Runners, At
<1> QED
  BY <1>3, <1>4, <1>5

LEMMA InsertHandleType ==
    ASSUME TypeInv, NEW c \in Clients, InsertHandle(c)
    PROVE  TypeInv'
<1> USE DEF TypeInv, TypeOK, InsertHandle, Return, maps, gate, timers, runs
<1>1. call[c].key \in Keys
  BY ParamTypes DEF WellFormed, At
<1>2. PICK w \in {"idle"} : Goto(c, w)
  BY DEF At
<1>3. /\ PcOK'
      /\ pc'[c] = w
      /\ \A p \in Procs \ {c} : pc'[p] = pc[p]
  BY <1>2, GotoClient DEF ClientPcs
<1>4. MapsOK'
  BY <1>1 DEF MapsOK, LocalsOK, WellFormed, At
<1>5. LocalsOK' /\ WellFormed'
  BY <1>1, <1>2, <1>3, ProcsDisjoint
  DEF LocalsOK, MapsOK, WellFormed, Procs, Runners, At, NoCall
<1> QED
  BY <1>3, <1>4, <1>5

LEMMA ForgetLastRunType ==
    ASSUME TypeInv, NEW c \in Clients, ForgetLastRun(c)
    PROVE  TypeInv'
<1> USE DEF TypeInv, TypeOK, ForgetLastRun, maps, gate, timers, runs
<1>1. call[c].key \in Keys
  BY ParamTypes DEF WellFormed, At
<1>2. PICK w \in {"unflight"} : Goto(c, w)
  BY DEF At
<1>3. /\ PcOK'
      /\ pc'[c] = w
      /\ \A p \in Procs \ {c} : pc'[p] = pc[p]
  BY <1>2, GotoClient DEF ClientPcs
<1>4. MapsOK'
  BY <1>1 DEF MapsOK, LocalsOK, WellFormed, At
<1>5. LocalsOK' /\ WellFormed'
  BY <1>1, <1>2, <1>3, ProcsDisjoint
  DEF LocalsOK, MapsOK, WellFormed, Procs, Runners, At
<1> QED
  BY <1>3, <1>4, <1>5

LEMMA DropIdleFlightType ==
    ASSUME TypeInv, NEW c \in Clients, DropIdleFlight(c)
    PROVE  TypeInv'
<1> USE DEF TypeInv, TypeOK, DropIdleFlight, Return, maps, gate, timers, runs
<1>1. call[c].key \in Keys
  BY ParamTypes DEF WellFormed, At
<1>2. PICK w \in {"idle"} : Goto(c, w)
  BY DEF At
<1>3. /\ PcOK'
      /\ pc'[c] = w
      /\ \A p \in Procs \ {c} : pc'[p] = pc[p]
  BY <1>2, GotoClient DEF ClientPcs
<1>4. MapsOK'
  BY <1>1 DEF MapsOK, LocalsOK, WellFormed, At
<1>5. LocalsOK' /\ WellFormed'
  BY <1>1, <1>2, <1>3, ProcsDisjoint
  DEF LocalsOK, MapsOK, WellFormed, Procs, Runners, At, NoCall
<1> QED
  BY <1>3, <1>4, <1>5

LEMMA SpawnType ==
    ASSUME TypeInv, NEW c \in Clients, NEW t \in Tickers, Spawn(c, t)
    PROVE  TypeInv'
<1> USE DEF TypeInv, TypeOK, Spawn, maps, gate
<1>1. call[c].key \in Keys
  BY ParamTypes DEF WellFormed, At
<1>2. /\ PcOK'
      /\ pc'[c] = "insjob"
      /\ pc'[t] = "born"
      /\ \A p \in Procs \ {c, t} : pc'[p] = pc[p]
  BY ProcsDisjoint
  DEF PcOK, Procs, Runners, ClientPcs, TickerPcs, LivePoints, AwaitPoints
<1>3. /\ aborted' \subseteq Tickers
      /\ due' \in [Tickers -> Nat]
      /\ since' \in [Tickers -> Times \cup {Never}]
      /\ key' \in [Runners -> Keys \cup {None}]
      /\ held' \in [Runners -> Flights \cup {None}]
  BY <1>1 DEF LocalsOK, Runners
<1>4. [call[c] EXCEPT !.ticker = t]
        \in [op : AllOps \cup {"none"}, key : Keys \cup {None}, delay : Nat,
             since : Times \cup {Never}, ticker : Tickers \cup {None}]
  BY DEF LocalsOK
<1>5. LocalsOK'
  BY <1>3, <1>4 DEF LocalsOK
<1>6. MapsOK'
  BY DEF MapsOK
<1>7. call'[c].key = call[c].key /\ call'[c].ticker = t
  BY DEF LocalsOK
<1>8. WellFormed'
  BY <1>1, <1>2, <1>7, ProcsDisjoint
  DEF WellFormed, LocalsOK, Procs, Runners, At, FreeTicker
<1> QED
  BY <1>2, <1>5, <1>6, <1>8

LEMMA RequestType ==
    ASSUME TypeInv, NEW r \in Callers, NEW k \in Keys, Request(r, k)
    PROVE  TypeInv'
<1> USE DEF TypeInv, TypeOK, Request, maps, timers
<1>1. /\ PcOK'
      /\ pc'[r] = "lookup"
      /\ \A p \in Procs \ {r} : pc'[p] = pc[p]
  BY GotoCaller DEF CallerPcs
<1>2. LocalsOK' /\ MapsOK'
  BY DEF LocalsOK, MapsOK, Runners
<1>3. WellFormed'
  BY <1>1, ProcsDisjoint DEF WellFormed, LocalsOK, Procs, Runners, At
<1> QED
  BY <1>1, <1>2, <1>3

LEMMA LookupType ==
    ASSUME TypeInv, NEW r \in Runners, Lookup(r)
    PROVE  TypeInv'
<1> USE DEF TypeInv, TypeOK, Lookup, maps, timers
<1>1. /\ PcOK'
      /\ pc'[r] = "slot"
      /\ \A p \in Procs \ {r} : pc'[p] = pc[p]
  BY GotoRunner
<1>2. key[r] \in Keys
  BY DEF WellFormed, At
<1>3. /\ held'[r] \in Flights
      /\ held' = [held EXCEPT ![r] = held'[r]]
      /\ MapsOK'
  <2>1. CASE FindFlight(r)
    BY <1>2, <2>1 DEF FindFlight, MapsOK, LocalsOK
  <2>2. CASE \E f \in Flights : NewFlight(r, f)
    BY <1>2, <2>2 DEF NewFlight, MapsOK, LocalsOK
  <2> QED
    BY <2>1, <2>2
<1>4. LocalsOK'
  BY <1>3 DEF LocalsOK
<1>5. WellFormed'
  BY <1>1, <1>3, ProcsDisjoint, NoneIsNone
  DEF WellFormed, LocalsOK, Procs, Runners, At
<1> QED
  BY <1>1, <1>3, <1>4, <1>5

LEMMA LeaveType ==
    ASSUME TypeInv, NEW r \in Runners, Leave(r), pc[r] \in {"slot", "body"},
           UNCHANGED <<call, timers>>
    PROVE  /\ PcOK' /\ LocalsOK' /\ WellFormed'
           /\ pc'[r] \in {"idle", "stamp"}
           /\ \A p \in Procs \ {r} : pc'[p] = pc[p]
<1> USE DEF TypeInv, TypeOK, Leave, timers
<1>1. CASE r \in Callers /\ Goto(r, "idle") /\ key' = [key EXCEPT ![r] = None]
  <2>1. /\ PcOK'
        /\ pc'[r] = "idle"
        /\ \A p \in Procs \ {r} : pc'[p] = pc[p]
    BY <1>1, GotoCaller DEF CallerPcs
  <2>2. LocalsOK'
    BY <1>1 DEF LocalsOK
  <2>3. WellFormed'
    BY <1>1, <2>1, ProcsDisjoint DEF WellFormed, LocalsOK, Procs, Runners
  <2> QED
    BY <2>1, <2>2, <2>3
<1>2. CASE r \in Tickers /\ Goto(r, "stamp") /\ UNCHANGED key
  <2>1. /\ PcOK'
        /\ pc'[r] = "stamp"
        /\ \A p \in Procs \ {r} : pc'[p] = pc[p]
    BY <1>2, GotoTicker DEF TickerPcs, LivePoints
  <2>2. LocalsOK'
    BY <1>2 DEF LocalsOK
  <2>3. WellFormed'
    BY <1>2, <2>1, ProcsDisjoint DEF WellFormed, LocalsOK, Procs, Runners
  <2> QED
    BY <2>1, <2>2, <2>3
<1> QED
  BY <1>1, <1>2

LEMMA RunStepType ==
    ASSUME TypeInv, NEW r \in Runners, RunStep(r)
    PROVE  TypeInv'
<1> USE DEF TypeInv, TypeOK, maps, timers, runs
<1>1. CASE Lookup(r)
  BY <1>1, LookupType
<1>2. CASE Join(r)
  <2>1. MapsOK'
    BY <1>2 DEF Join, MapsOK, WellFormed, LocalsOK, At
  <2> QED
    BY <1>2, <2>1, LeaveType DEF Join, At
<1>3. CASE Lead(r)
  <2>1. /\ PcOK'
        /\ pc'[r] = "body"
        /\ \A p \in Procs \ {r} : pc'[p] = pc[p]
    BY <1>3, GotoRunner DEF Lead
  <2>2. LocalsOK' /\ MapsOK'
    BY <1>3 DEF Lead, LocalsOK, MapsOK, WellFormed, At
  <2>3. WellFormed'
    BY <1>3, <2>1, ProcsDisjoint DEF Lead, WellFormed, Procs, Runners, At
  <2> QED
    BY <2>1, <2>2, <2>3
<1>4. CASE Rerun(r)
  BY <1>4 DEF Rerun, PcOK, MapsOK, LocalsOK, WellFormed
<1>5. CASE StepDown(r)
  <2>1. MapsOK'
    BY <1>5 DEF StepDown, MapsOK
  <2> QED
    BY <1>5, <2>1, LeaveType DEF StepDown, At
<1> QED
  BY <1>1, <1>2, <1>3, <1>4, <1>5 DEF RunStep

LEMMA TicksType ==
    ASSUME TypeInv, NEW t \in Tickers, NEW w \in {"plain", "stamp", "lookup"},
           Ticks(t, w), stale' \subseteq Keys
    PROVE  TypeInv'
<1> USE DEF TypeInv, TypeOK, Ticks, maps, runs
<1>1. /\ PcOK'
      /\ pc'[t] = w
      /\ \A p \in Procs \ {t} : pc'[p] = pc[p]
  BY GotoTicker DEF TickerPcs, LivePoints, AwaitPoints
<1>2. NextDue(due[t]) \in Nat
  BY NextDueNat, ParamTypes DEF MapsOK, LocalsOK, Times
<1>3. LocalsOK' /\ MapsOK'
  BY <1>2 DEF LocalsOK, MapsOK
<1>4. WellFormed'
  BY <1>1, ProcsDisjoint DEF WellFormed, Procs, Runners, At
<1> QED
  BY <1>1, <1>3, <1>4

LEMMA TickerStepType ==
    ASSUME TypeInv, NEW t \in Tickers, TickerStep(t)
    PROVE  TypeInv'
<1> USE DEF TypeInv, TypeOK, maps, gate, timers, runs
<1>1. CASE Start(t)
  <2>1. /\ PcOK'
        /\ pc'[t] = "tick"
        /\ \A p \in Procs \ {t} : pc'[p] = pc[p]
    BY <1>1, GotoTicker DEF Start, TickerPcs, LivePoints, AwaitPoints
  <2>2. now + due[t] \in Nat
    BY ParamTypes DEF MapsOK, LocalsOK, Times
  <2>3. LocalsOK' /\ MapsOK'
    BY <1>1, <2>2 DEF Start, LocalsOK, MapsOK
  <2>4. WellFormed'
    BY <1>1, <2>1, ProcsDisjoint DEF Start, WellFormed, Procs, Runners, At
  <2> QED
    BY <2>1, <2>3, <2>4
<1>2. CASE TickPlain(t)
  BY <1>2, TicksType DEF TickPlain, MapsOK
<1>3. CASE TickGate(t)
  <2>1. key[t] \in Keys
    BY <1>3, ParamTypes DEF TickGate
  <2> QED
    BY <1>3, <2>1, TicksType DEF TickGate, MapsOK
<1>4. CASE PlainBody(t)
  <2>1. /\ PcOK'
        /\ pc'[t] = "stamp"
        /\ \A p \in Procs \ {t} : pc'[p] = pc[p]
    BY <1>4, GotoTicker DEF PlainBody, TickerPcs, LivePoints
  <2>2. LocalsOK' /\ MapsOK'
    BY <1>4 DEF PlainBody, LocalsOK, MapsOK
  <2>3. WellFormed'
    BY <1>4, <2>1, ProcsDisjoint DEF PlainBody, WellFormed, Procs, Runners, At
  <2> QED
    BY <2>1, <2>2, <2>3
<1>5. CASE Stamp(t)
  <2>1. /\ PcOK'
        /\ pc'[t] = "tick"
        /\ \A p \in Procs \ {t} : pc'[p] = pc[p]
    BY <1>5, GotoTicker DEF Stamp, TickerPcs, LivePoints, AwaitPoints
  <2>2. LocalsOK' /\ MapsOK'
    BY <1>5 DEF Stamp, LocalsOK, MapsOK
  <2>3. WellFormed'
    BY <1>5, <2>1, ProcsDisjoint DEF Stamp, WellFormed, Procs, Runners, At
  <2> QED
    BY <2>1, <2>2, <2>3
<1>6. CASE Die(t)
  <2>1. /\ PcOK'
        /\ pc'[t] = "dead"
        /\ \A p \in Procs \ {t} : pc'[p] = pc[p]
    BY <1>6, GotoTicker DEF Die, TickerPcs
  <2>2. LocalsOK' /\ MapsOK'
    BY <1>6 DEF Die, LocalsOK, MapsOK
  <2>3. WellFormed'
    BY <1>6, <2>1, ProcsDisjoint DEF Die, WellFormed, LocalsOK, Procs, Runners
  <2> QED
    BY <2>1, <2>2, <2>3
<1> QED
  BY <1>1, <1>2, <1>3, <1>4, <1>5, <1>6 DEF TickerStep, Tick

LEMMA StopStepType ==
    ASSUME TypeInv, StopStep
    PROVE  TypeInv'
<1> USE DEF TypeInv, TypeOK, StopStep, SetShutDown, DrainJobs, AbortDrained,
            DrainHandles, AwaitHandles, ClearFlights, ClearStamps, maps, gate,
            timers, runs
<1>1. PICK w \in StopperPcs : Goto(Stopper, w)
  BY DEF StopperPcs
<1>2. /\ PcOK'
      /\ \A p \in Procs \ {Stopper} : pc'[p] = pc[p]
  BY <1>1, GotoStopper
<1>3. MapsOK'
  <2>1. CASE SetShutDown
    BY <2>1 DEF MapsOK
  <2>2. CASE DrainJobs
    BY <2>2 DEF MapsOK
  <2>3. CASE AbortDrained \/ AwaitHandles
    BY <2>3 DEF MapsOK
  <2>4. CASE DrainHandles
    BY <2>4 DEF MapsOK
  <2>5. CASE ClearFlights \/ ClearStamps
    BY <2>5 DEF MapsOK
  <2> QED
    BY <2>1, <2>2, <2>3, <2>4, <2>5
<1>4. LocalsOK'
  BY DEF LocalsOK, MapsOK
<1>5. WellFormed'
  BY <1>2, ProcsDisjoint DEF WellFormed, Procs, Runners
<1> QED
  BY <1>2, <1>3, <1>4, <1>5

LEMMA AdvanceType ==
    ASSUME TypeInv, Advance
    PROVE  TypeInv'
  BY ParamTypes
  DEF TypeInv, TypeOK, Advance, PcOK, MapsOK, LocalsOK, WellFormed, Times, maps,
      gate, timers, runs

LEMMA TypeNext == TypeInv /\ [Next]_vars => TypeInv'
<1> SUFFICES ASSUME TypeInv, [Next]_vars PROVE TypeInv'
  OBVIOUS
<1>1. ASSUME NEW c \in Clients, ClientStep(c) PROVE TypeInv'
  <2>1. ASSUME NEW k \in Keys,
               Schedule(c, k) \/ Resume(c, k) \/ Pause(c, k) \/ Cancel(c, k)
        PROVE  TypeInv'
    BY <2>1, BeginType DEF Schedule, Resume, Pause, Cancel, AllOps
  <2> QED
    BY <1>1, <2>1, ReadElapsedType, ArmType, RemoveJobType, RemoveHandleType,
       SpawnType, InsertJobType, InsertHandleType, ForgetLastRunType,
       DropIdleFlightType
    DEF ClientStep
<1>2. ASSUME NEW r \in Callers, NEW k \in Keys, Request(r, k) PROVE TypeInv'
  BY <1>2, RequestType
<1>3. CASE UNCHANGED vars
  BY <1>3
  DEF vars, maps, gate, timers, runs, TypeInv, TypeOK, PcOK, MapsOK, LocalsOK,
      WellFormed
<1> QED
  BY <1>1, <1>2, <1>3, RunStepType, TickerStepType, StopStepType, AdvanceType
  DEF Next

\* Every variable of the queue always holds what its type says, and the
\* locals of a call in progress are set by the step that needs them.
THEOREM TypeCorrect == Spec => [](TypeOK /\ WellFormed)
<1>1. Spec => []TypeInv
  BY TypeInit, TypeNext, PTL DEF Spec
<1> QED
  BY <1>1, PTL DEF TypeInv

-----------------------------------------------------------------------------
(* The steps of the queue, as the coalesce gate sees them.                 *)

InGate == {"lookup", "slot", "body"}

\* A step outside run_coalesced: no mark, clone or runner inside it changes.
Aside ==
    /\ UNCHANGED <<running, pending, stale, held>>
    /\ \A r \in Runners :
          \/ pc'[r] = pc[r] /\ key'[r] = key[r]
          \/ pc[r] \notin InGate /\ pc'[r] \notin InGate

\* The map of flight objects is unchanged, or has only lost entries.
FlightsKept == UNCHANGED flights
FlightsLost ==
    /\ \A k \in Keys : flights'[k] \in {flights[k], None}
    /\ Stops \/ "cancel" \in Ops

\* A runner enters run_coalesced.
Enters(r) ==
    /\ UNCHANGED <<running, pending, held, flights>>
    /\ pc[r] \notin InGate
    /\ pc'[r] = "lookup"
    /\ key'[r] \in Keys
    /\ stale' = stale \cup {key'[r]}
    /\ \A s \in Runners \ {r} : pc'[s] = pc[s] /\ key'[s] = key[s]

\* An abort lands on the leader of a flight.
Abandons(r) ==
    /\ r \in Tickers
    /\ UNCHANGED <<running, pending, flights, stale>>
    /\ pc[r] = "body"
    /\ pc'[r] = "dead"
    /\ held' = [held EXCEPT ![r] = None]
    /\ \A s \in Runners \ {r} : pc'[s] = pc[s] /\ key'[s] = key[s]

\* The clients' calls use the operations in Ops, and shutdown needs Stops.
OpsInv ==
    /\ \A c \in Clients :
          /\ pc[c] # "idle" => call[c].op \in Ops
          /\ pc[c] \in {"forget", "unflight"} => call[c].op = "cancel"
    /\ Stops \/ pc[Stopper] = "idle"

LEMMA OpsInit == Init => OpsInv
  BY ProcsDisjoint DEF Init, OpsInv, Procs, Runners

LEMMA OpsNext == TypeInv /\ OpsInv /\ [Next]_vars => OpsInv'
<1> SUFFICES ASSUME TypeInv, OpsInv, [Next]_vars PROVE OpsInv'
  OBVIOUS
<1> USE ProcsDisjoint DEF TypeInv, TypeOK
<1>1. ASSUME NEW c \in Clients, ClientStep(c) PROVE OpsInv'
  <2>1. /\ pc'[Stopper] = pc[Stopper]
        /\ \A d \in Clients \ {c} : pc'[d] = pc[d] /\ call'[d] = call[d]
    BY <1>1
    DEF ClientStep, Schedule, Resume, Pause, Cancel, Begin, ReadElapsed, Arm,
        RemoveJob, RemoveHandle, Spawn, InsertJob, InsertHandle, ForgetLastRun,
        DropIdleFlight, Return, Goto, PcOK, LocalsOK, Procs, Runners
  <2>2. \/ pc'[c] = "idle"
        \/ call'[c].op \in Ops /\ pc'[c] \notin {"forget", "unflight"}
        \/ call'[c].op = call[c].op /\ call[c].op \in Ops
             /\ (pc'[c] \in {"forget", "unflight"} => call[c].op = "cancel")
    <3> USE DEF OpsInv, At, Goto, Return, PcOK, LocalsOK, Procs
    <3>1. ASSUME NEW k \in Keys,
                 Schedule(c, k) \/ Resume(c, k) \/ Pause(c, k) \/ Cancel(c, k)
          PROVE  call'[c].op \in Ops /\ pc'[c] \notin {"forget", "unflight"}
      BY <3>1 DEF Schedule, Resume, Pause, Cancel, Begin
    <3>2. CASE ReadElapsed(c)
      BY <3>2 DEF ReadElapsed
    <3>3. CASE Arm(c)
      BY <3>3 DEF Arm
    <3>4. CASE RemoveJob(c)
      BY <3>4 DEF RemoveJob
    <3>5. CASE RemoveHandle(c)
      BY <3>5 DEF RemoveHandle
    <3>6. ASSUME NEW t \in Tickers, Spawn(c, t)
          PROVE  /\ call'[c].op = call[c].op /\ call[c].op \in Ops
                 /\ pc'[c] \notin {"forget", "unflight"}
      BY <3>6 DEF Spawn, Runners
    <3>7. CASE InsertJob(c)
      BY <3>7 DEF InsertJob
    <3>8. CASE InsertHandle(c) \/ DropIdleFlight(c)
      BY <3>8 DEF InsertHandle, DropIdleFlight
    <3>9. CASE ForgetLastRun(c)
      BY <3>9 DEF ForgetLastRun
    <3> QED
      BY <1>1, <3>1, <3>2, <3>3, <3>4, <3>5, <3>6, <3>7, <3>8, <3>9
      DEF ClientStep
  <2> QED
    BY <2>1, <2>2 DEF OpsInv
<1>2. ASSUME NEW r \in Runners,
             (r \in Callers /\ \E k \in Keys : Request(r, k))
               \/ RunStep(r) \/ (r \in Tickers /\ TickerStep(r))
      PROVE  OpsInv'
  <2>1. /\ UNCHANGED call
        /\ \A p \in Procs \ {r} : pc'[p] = pc[p]
    BY <1>2
    DEF Request, RunStep, Lookup, Join, Lead, Rerun, StepDown, Leave, TickerStep,
        Start, Tick, TickPlain, TickGate, Ticks, PlainBody, Stamp, Die, Goto, PcOK
  <2> QED
    BY <2>1 DEF OpsInv, Procs, Runners
<1>3. CASE StopStep
  <2>1. /\ UNCHANGED call
        /\ \A p \in Procs \ {Stopper} : pc'[p] = pc[p]
        /\ Stops
    BY <1>3
    DEF StopStep, SetShutDown, DrainJobs, AbortDrained, DrainHandles,
        AwaitHandles, ClearFlights, ClearStamps, Goto, PcOK, OpsInv, At
  <2> QED
    BY <2>1 DEF OpsInv, Procs, Runners
<1>4. CASE Advance \/ UNCHANGED vars
  BY <1>4 DEF Advance, vars, OpsInv
<1> QED
  BY <1>1, <1>2, <1>3, <1>4 DEF Next, Runners

\* Every step of the queue is one of these.
GateStep ==
    \/ Aside /\ (FlightsKept \/ FlightsLost)
    \/ \E r \in Runners :
          \/ Enters(r) \/ Lookup(r) \/ Join(r) \/ Lead(r) \/ Rerun(r)
          \/ StepDown(r) \/ Abandons(r)

LEMMA NextIsGateStep == TypeInv /\ OpsInv /\ [Next]_vars => GateStep
<1> SUFFICES ASSUME TypeInv, OpsInv, [Next]_vars PROVE GateStep
  OBVIOUS
<1> USE ProcsDisjoint DEF TypeInv, TypeOK, maps, gate, timers, runs
<1>1. ASSUME NEW c \in Clients, ClientStep(c) PROVE GateStep
  <2>1. ASSUME NEW t \in Tickers, Spawn(c, t) PROVE Aside /\ FlightsKept
    BY <2>1
    DEF Spawn, FreeTicker, At, Aside, FlightsKept, InGate, PcOK, LocalsOK, Procs,
        Runners
  <2>2. CASE DropIdleFlight(c)
    <3>1. Aside
      BY <2>2 DEF DropIdleFlight, Return, Goto, Aside, PcOK, Procs, Runners
    <3>2. FlightsLost
      BY <2>2 DEF DropIdleFlight, FlightsLost, OpsInv, At, MapsOK
    <3> QED
      BY <3>1, <3>2 DEF GateStep
  <2>3. CASE \/ \E k \in Keys : \/ Schedule(c, k) \/ Resume(c, k)
                                \/ Pause(c, k) \/ Cancel(c, k)
             \/ ReadElapsed(c) \/ Arm(c) \/ RemoveJob(c) \/ RemoveHandle(c)
             \/ InsertJob(c) \/ InsertHandle(c) \/ ForgetLastRun(c)
    <3>1. UNCHANGED <<running, pending, stale, held, key, flights>>
      BY <2>3
      DEF Schedule, Resume, Pause, Cancel, Begin, ReadElapsed, Arm, RemoveJob,
          RemoveHandle, InsertJob, InsertHandle, ForgetLastRun
    <3>2. \A p \in Procs \ {c} : pc'[p] = pc[p]
      BY <2>3
      DEF Schedule, Resume, Pause, Cancel, Begin, ReadElapsed, Arm, RemoveJob,
          RemoveHandle, InsertJob, InsertHandle, ForgetLastRun, Return, Goto, PcOK
    <3> QED
      BY <3>1, <3>2 DEF GateStep, Aside, FlightsKept, Procs, Runners
  <2> QED
    BY <1>1, <2>1, <2>2, <2>3 DEF ClientStep, GateStep
<1>2. ASSUME NEW r \in Callers, NEW k \in Keys, Request(r, k) PROVE Enters(r)
  BY <1>2 DEF Request, Enters, At, Goto, InGate, PcOK, LocalsOK, Procs, Runners
<1>3. ASSUME NEW t \in Tickers, TickerStep(t) PROVE GateStep
  <2>1. CASE Start(t) \/ TickPlain(t) \/ PlainBody(t) \/ Stamp(t)
    <3>1. UNCHANGED <<running, pending, stale, held, key, flights>>
      BY <2>1 DEF Start, TickPlain, Ticks, PlainBody, Stamp
    <3>2. /\ pc[t] \notin InGate
          /\ pc'[t] \notin InGate
          /\ \A p \in Procs \ {t} : pc'[p] = pc[p]
      BY <2>1
      DEF Start, TickPlain, Ticks, PlainBody, Stamp, At, Goto, InGate, PcOK, Procs,
          Runners
    <3> QED
      BY <3>1, <3>2 DEF GateStep, Aside, FlightsKept, Procs, Runners
  <2>2. CASE TickGate(t)
    <3>1. CASE shutDown
      BY <2>2, <3>1
      DEF TickGate, Ticks, At, Goto, InGate, PcOK, Procs, Runners, GateStep, Aside,
          FlightsKept
    <3>2. CASE ~shutDown
      <4>1. key[t] \in Keys
        BY <2>2, ParamTypes DEF TickGate
      <4>2. Enters(t)
        BY <2>2, <3>2, <4>1
        DEF TickGate, Ticks, At, Goto, InGate, PcOK, Procs, Runners, Enters
      <4> QED
        BY <4>2 DEF GateStep, Runners
    <3> QED
      BY <3>1, <3>2
  <2>3. CASE Die(t)
    <3>1. CASE pc[t] = "body"
      <4>1. Abandons(t)
        BY <2>3, <3>1 DEF Die, Abandons, Goto, PcOK, LocalsOK, Procs, Runners
      <4> QED
        BY <4>1 DEF GateStep, Runners
    <3>2. CASE pc[t] # "body"
      <4>1. pc[t] \notin InGate
        BY <2>3, <3>2 DEF Die, AwaitPoints, InGate
      <4>2. UNCHANGED held
        BY <2>3, <4>1 DEF Die, WellFormed, InGate, LocalsOK, Runners
      <4> QED
        BY <2>3, <4>1, <4>2
        DEF Die, Goto, InGate, PcOK, LocalsOK, Procs, Runners, GateStep, Aside,
            FlightsKept
    <3> QED
      BY <3>1, <3>2
  <2> QED
    BY <1>3, <2>1, <2>2, <2>3 DEF TickerStep, Tick
<1>4. CASE StopStep
  <2>1. UNCHANGED <<running, pending, stale, held, key>>
    BY <1>4
    DEF StopStep, SetShutDown, DrainJobs, AbortDrained, DrainHandles,
        AwaitHandles, ClearFlights, ClearStamps
  <2>2. \A p \in Procs \ {Stopper} : pc'[p] = pc[p]
    BY <1>4
    DEF StopStep, SetShutDown, DrainJobs, AbortDrained, DrainHandles,
        AwaitHandles, ClearFlights, ClearStamps, Goto, PcOK
  <2>3. FlightsKept \/ FlightsLost
    BY <1>4
    DEF StopStep, SetShutDown, DrainJobs, AbortDrained, DrainHandles,
        AwaitHandles, ClearFlights, ClearStamps, FlightsKept, FlightsLost,
        OpsInv, At
  <2> QED
    BY <2>1, <2>2, <2>3 DEF GateStep, Aside, Procs, Runners
<1>5. CASE Advance \/ UNCHANGED vars
  BY <1>5 DEF Advance, vars, GateStep, Aside, FlightsKept
<1>6. ASSUME NEW r \in Runners, RunStep(r) PROVE GateStep
  BY <1>6 DEF RunStep, GateStep
<1> QED
  BY <1>1, <1>2, <1>3, <1>4, <1>5, <1>6 DEF Next, GateStep, Runners

-----------------------------------------------------------------------------
(* One leader per flight object, and one key per flight object.            *)

FlightKeys ==
    /\ \A r, s \in Runners : held[r] # None /\ held[r] = held[s] => key[r] = key[s]
    /\ \A k \in Keys, r \in Runners :
          flights[k] # None /\ held[r] = flights[k] => key[r] = k
    /\ \A j, k \in Keys : flights[j] # None /\ flights[j] = flights[k] => j = k

\* Two leaders of one object would have found it idle; a new object is one
\* that nobody holds, so it has no leader and no mark.
GateInv == TypeInv /\ OpsInv /\ OneLeaderPerFlight /\ FlightKeys

LEMMA GateInit == Init => GateInv
  BY TypeInit, OpsInit, ProcsDisjoint, NoneIsNone
  DEF GateInv, Init, OneLeaderPerFlight, FlightKeys, Leads, At, Procs, Runners

\* What one runner's move leaves of the other runners.
LEMMA LeaveFrame ==
    ASSUME TypeInv, NEW r \in Runners, Leave(r)
    PROVE  /\ pc'[r] \notin InGate
           /\ held'[r] = None
           /\ \A s \in Runners \ {r} :
                 pc'[s] = pc[s] /\ key'[s] = key[s] /\ held'[s] = held[s]
  BY DEF TypeInv, TypeOK, PcOK, LocalsOK, Leave, Goto, InGate, Procs, Runners

LEMMA GotoFrame ==
    ASSUME TypeInv, NEW r \in Runners, NEW w, Goto(r, w)
    PROVE  /\ pc'[r] = w
           /\ \A s \in Runners \ {r} : pc'[s] = pc[s]
  BY DEF TypeInv, TypeOK, PcOK, Goto, Procs

LEMMA HeldInGate ==
    ASSUME TypeInv, NEW r \in Runners
    PROVE  /\ pc[r] \in {"slot", "body"} => held[r] \in Flights
           /\ pc[r] \notin {"slot", "body"} => held[r] = None
           /\ pc[r] \in InGate => key[r] \in Keys
  BY DEF TypeInv, TypeOK, LocalsOK, WellFormed, InGate

LEMMA GateNext == GateInv /\ [Next]_vars => GateInv'
<1> SUFFICES ASSUME GateInv, [Next]_vars PROVE GateInv'
  OBVIOUS
<1>1. TypeInv' /\ OpsInv' /\ GateStep
  BY TypeNext, OpsNext, NextIsGateStep DEF GateInv
<1> SUFFICES OneLeaderPerFlight' /\ FlightKeys'
  BY <1>1 DEF GateInv
<1> USE HeldInGate, NoneIsNone DEF GateInv
<1>2. CASE Aside /\ (FlightsKept \/ FlightsLost)
  <2>1. OneLeaderPerFlight'
    BY <1>2 DEF Aside, OneLeaderPerFlight, Leads, At, InGate
  <2>2. \A r \in Runners : held[r] # None => key'[r] = key[r]
    BY <1>2 DEF Aside, InGate
  <2>3. \A k \in Keys : flights'[k] \in {flights[k], None}
    BY <1>2 DEF FlightsKept, FlightsLost
  <2>4. FlightKeys'
    BY <1>2, <2>2, <2>3 DEF FlightKeys, Aside
  <2> QED
    BY <2>1, <2>4
<1>3. ASSUME NEW r \in Runners, Enters(r)
      PROVE  OneLeaderPerFlight' /\ FlightKeys'
  <2>1. OneLeaderPerFlight'
    BY <1>3 DEF Enters, OneLeaderPerFlight, Leads, At, InGate
  <2>2. FlightKeys'
    BY <1>3 DEF Enters, FlightKeys, InGate
  <2> QED
    BY <2>1, <2>2
<1>4. ASSUME NEW r \in Runners, Lookup(r)
      PROVE  OneLeaderPerFlight' /\ FlightKeys'
  <2>1. /\ pc[r] = "lookup" /\ pc'[r] = "slot"
        /\ \A s \in Runners \ {r} : pc'[s] = pc[s]
        /\ UNCHANGED key
    BY <1>4, GotoFrame DEF Lookup, At
  <2>2. key[r] \in Keys /\ held[r] = None
    BY <2>1 DEF InGate
  <2>3. CASE FindFlight(r)
    <3>1. /\ held'[r] = flights[key[r]]
          /\ flights[key[r]] # None
          /\ \A s \in Runners \ {r} : held'[s] = held[s]
      BY <2>3 DEF FindFlight, TypeInv, TypeOK, LocalsOK
    <3>2. OneLeaderPerFlight'
      BY <2>1, <2>3, <3>1 DEF FindFlight, OneLeaderPerFlight, Leads, At
    <3>3. FlightKeys'
      BY <2>1, <2>2, <2>3, <3>1 DEF FindFlight, FlightKeys
    <3> QED
      BY <3>2, <3>3
  <2>4. ASSUME NEW f \in Flights, NewFlight(r, f)
        PROVE  OneLeaderPerFlight' /\ FlightKeys'
    <3>1. /\ held'[r] = f
          /\ \A s \in Runners \ {r} : held'[s] = held[s]
          /\ flights'[key[r]] = f
          /\ \A k \in Keys \ {key[r]} : flights'[k] = flights[k]
      BY <2>2, <2>4 DEF NewFlight, TypeInv, TypeOK, LocalsOK, MapsOK
    <3>2. OneLeaderPerFlight'
      BY <2>1, <2>4, <3>1
      DEF NewFlight, FreeFlight, OneLeaderPerFlight, Leads, At
    <3>3. FlightKeys'
      BY <2>1, <2>2, <2>4, <3>1 DEF NewFlight, FreeFlight, FlightKeys
    <3> QED
      BY <3>2, <3>3
  <2> QED
    BY <1>4, <2>3, <2>4 DEF Lookup
<1>5. ASSUME NEW r \in Runners, Join(r)
      PROVE  OneLeaderPerFlight' /\ FlightKeys'
  <2>1. /\ pc'[r] \notin InGate
        /\ held'[r] = None
        /\ \A s \in Runners \ {r} :
              pc'[s] = pc[s] /\ key'[s] = key[s] /\ held'[s] = held[s]
    BY <1>5, LeaveFrame DEF Join
  <2>2. OneLeaderPerFlight'
    BY <1>5, <2>1 DEF Join, OneLeaderPerFlight, Leads, At, InGate
  <2>3. FlightKeys'
    BY <1>5, <2>1 DEF Join, FlightKeys
  <2> QED
    BY <2>2, <2>3
<1>6. ASSUME NEW r \in Runners, Lead(r)
      PROVE  OneLeaderPerFlight' /\ FlightKeys'
  <2>1. /\ pc'[r] = "body"
        /\ \A s \in Runners \ {r} : pc'[s] = pc[s]
    BY <1>6, GotoFrame DEF Lead
  <2>2. OneLeaderPerFlight'
    BY <1>6, <2>1 DEF Lead, runs, OneLeaderPerFlight, Leads, At
  <2>3. FlightKeys'
    BY <1>6 DEF Lead, runs, FlightKeys
  <2> QED
    BY <2>2, <2>3
<1>7. ASSUME NEW r \in Runners, Rerun(r)
      PROVE  OneLeaderPerFlight' /\ FlightKeys'
  BY <1>7 DEF Rerun, runs, OneLeaderPerFlight, Leads, At, FlightKeys
<1>8. ASSUME NEW r \in Runners, StepDown(r)
      PROVE  OneLeaderPerFlight' /\ FlightKeys'
  <2>1. /\ pc'[r] \notin InGate
        /\ held'[r] = None
        /\ \A s \in Runners \ {r} :
              pc'[s] = pc[s] /\ key'[s] = key[s] /\ held'[s] = held[s]
    BY <1>8, LeaveFrame DEF StepDown
  <2>2. OneLeaderPerFlight'
    BY <1>8, <2>1 DEF StepDown, OneLeaderPerFlight, Leads, At, InGate
  <2>3. FlightKeys'
    BY <1>8, <2>1 DEF StepDown, FlightKeys
  <2> QED
    BY <2>2, <2>3
<1>9. ASSUME NEW r \in Runners, Abandons(r)
      PROVE  OneLeaderPerFlight' /\ FlightKeys'
  <2>1. /\ held'[r] = None
        /\ \A s \in Runners \ {r} : held'[s] = held[s]
    BY <1>9 DEF Abandons, TypeInv, TypeOK, LocalsOK
  <2>2. OneLeaderPerFlight'
    BY <1>9, <2>1 DEF Abandons, OneLeaderPerFlight, Leads, At
  <2>3. FlightKeys'
    BY <1>9, <2>1 DEF Abandons, FlightKeys
  <2> QED
    BY <2>2, <2>3
<1> QED
  BY <1>1, <1>2, <1>3, <1>4, <1>5, <1>6, <1>7, <1>8, <1>9 DEF GateStep

\* The slot mutex elects one leader per flight object, whatever the clients
\* call and however aborts, cancels and shutdown interleave with it.
THEOREM LeaderElection == Spec => []OneLeaderPerFlight
<1>1. Spec => []GateInv
  BY GateInit, GateNext, PTL DEF Spec
<1>2. GateInv => OneLeaderPerFlight
  BY DEF GateInv
<1> QED
  BY <1>1, <1>2, PTL

-----------------------------------------------------------------------------
(* Without cancel and shutdown a key keeps its flight object.              *)

HeldIsCurrent == \A r \in Runners : held[r] # None => flights[key[r]] = held[r]

LEMMA CurrentNext ==
    ASSUME ~Stops, "cancel" \notin Ops
    PROVE  GateInv /\ HeldIsCurrent /\ [Next]_vars => HeldIsCurrent'
<1> SUFFICES ASSUME GateInv, HeldIsCurrent, [Next]_vars PROVE HeldIsCurrent'
  OBVIOUS
<1>1. GateStep
  BY NextIsGateStep DEF GateInv
<1> USE HeldInGate DEF GateInv, HeldIsCurrent
<1>2. CASE Aside /\ (FlightsKept \/ FlightsLost)
  BY <1>2 DEF Aside, FlightsKept, FlightsLost, InGate
<1>3. ASSUME NEW r \in Runners, Enters(r) PROVE HeldIsCurrent'
  BY <1>3 DEF Enters, InGate
<1>4. ASSUME NEW r \in Runners, Lookup(r) PROVE HeldIsCurrent'
  <2>1. UNCHANGED key /\ key[r] \in Keys
    BY <1>4 DEF Lookup, At, InGate
  <2>2. CASE FindFlight(r)
    BY <2>1, <2>2 DEF FindFlight, TypeInv, TypeOK, LocalsOK
  <2>3. ASSUME NEW f \in Flights, NewFlight(r, f) PROVE HeldIsCurrent'
    <3>1. \A s \in Runners : held[s] # None => key[s] # key[r]
      BY <2>3 DEF NewFlight
    <3> QED
      BY <2>1, <2>3, <3>1 DEF NewFlight, TypeInv, TypeOK, LocalsOK, MapsOK
  <2> QED
    BY <1>4, <2>2, <2>3 DEF Lookup
<1>5. ASSUME NEW r \in Runners, Join(r) \/ StepDown(r) PROVE HeldIsCurrent'
  BY <1>5, LeaveFrame DEF Join, StepDown
<1>6. ASSUME NEW r \in Runners, Lead(r) \/ Rerun(r) PROVE HeldIsCurrent'
  BY <1>6 DEF Lead, Rerun, runs
<1>7. ASSUME NEW r \in Runners, Abandons(r) PROVE HeldIsCurrent'
  BY <1>7 DEF Abandons, TypeInv, TypeOK, LocalsOK
<1> QED
  BY <1>1, <1>2, <1>3, <1>4, <1>5, <1>6, <1>7 DEF GateStep

LEMMA CurrentIsSingle == GateInv /\ HeldIsCurrent => SingleFlight
<1> SUFFICES ASSUME GateInv, HeldIsCurrent, NEW k \in Keys,
                    NEW r \in Bodies(k), NEW s \in Bodies(k)
             PROVE  r = s
  BY DEF SingleFlight
<1>1. held[r] \in Flights /\ held[s] \in Flights
  BY HeldInGate DEF Bodies, At, GateInv
<1>2. held[r] = flights[k] /\ held[s] = flights[k]
  BY <1>1, NoneIsNone DEF HeldIsCurrent, Bodies
<1> QED
  BY <1>1, <1>2 DEF GateInv, OneLeaderPerFlight, Leads, Bodies, At

\* As long as neither cancel nor shutdown drops flight objects, interval and
\* ad-hoc bodies of one key never overlap, even while tickers are replaced
\* and aborted.
THEOREM NoOverlap ==
    ASSUME ~Stops, "cancel" \notin Ops
    PROVE  Spec => []SingleFlight
<1>1. Init => GateInv /\ HeldIsCurrent
  BY GateInit DEF Init, HeldIsCurrent
<1>2. GateInv /\ HeldIsCurrent /\ [Next]_vars => (GateInv /\ HeldIsCurrent)'
  BY GateNext, CurrentNext
<1>3. GateInv /\ HeldIsCurrent => SingleFlight
  BY CurrentIsSingle
<1> QED
  BY <1>1, <1>2, <1>3, PTL DEF Spec

-----------------------------------------------------------------------------
(* With plain ticker bodies no leader is ever aborted.                     *)

PlainTickers == \A t \in Tickers : pc[t] \notin InGate

RequestInv == GateInv /\ PlainTickers /\ RunningHasLeader /\ NoLostRequest

LEMMA PlainNext ==
    ASSUME Coalesced = {}
    PROVE  TypeInv /\ PlainTickers /\ [Next]_vars => PlainTickers'
<1> SUFFICES ASSUME TypeInv, PlainTickers, [Next]_vars, NEW t \in Tickers
             PROVE  pc'[t] \notin InGate
  BY DEF PlainTickers
<1> USE ProcsDisjoint DEF TypeInv, TypeOK, PcOK, PlainTickers, InGate, Procs, Runners
<1>1. ASSUME NEW c \in Clients, ClientStep(c) PROVE pc'[t] \in {pc[t], "born"}
  BY <1>1
  DEF ClientStep, Schedule, Resume, Pause, Cancel, Begin, ReadElapsed, Arm,
      RemoveJob, RemoveHandle, Spawn, InsertJob, InsertHandle, ForgetLastRun,
      DropIdleFlight, Return, Goto
<1>2. ASSUME NEW r \in Runners, RunStep(r)
      PROVE  r # t /\ pc'[t] = pc[t]
  BY <1>2 DEF RunStep, Lookup, Join, Lead, Rerun, StepDown, Leave, Goto, At
<1>3. ASSUME NEW u \in Tickers, TickerStep(u)
      PROVE  pc'[t] \in {pc[t], "tick", "plain", "stamp", "dead"}
  BY <1>3
  DEF TickerStep, Start, Tick, TickPlain, TickGate, Ticks, PlainBody, Stamp, Die,
      Goto
<1>4. ASSUME NEW r \in Callers, NEW k \in Keys, Request(r, k) PROVE pc'[t] = pc[t]
  BY <1>4 DEF Request, Goto
<1>5. CASE StopStep \/ Advance \/ UNCHANGED vars
  BY <1>5
  DEF StopStep, SetShutDown, DrainJobs, AbortDrained, DrainHandles, AwaitHandles,
      ClearFlights, ClearStamps, Advance, vars, Goto
<1> QED
  BY <1>1, <1>2, <1>3, <1>4, <1>5 DEF Next

LEMMA RequestNext ==
    ASSUME Coalesced = {}
    PROVE  RequestInv /\ [Next]_vars => RequestInv'
<1> SUFFICES ASSUME RequestInv, [Next]_vars PROVE RequestInv'
  OBVIOUS
<1>1. GateInv' /\ PlainTickers' /\ GateStep
  BY GateNext, PlainNext, NextIsGateStep DEF RequestInv, GateInv
<1> SUFFICES RunningHasLeader' /\ NoLostRequest'
  BY <1>1 DEF RequestInv
<1> USE HeldInGate, NoneIsNone DEF RequestInv, GateInv
<1>2. CASE Aside
  <2>1. \A r \in Runners : pc[r] \in InGate =>
            pc'[r] = pc[r] /\ key'[r] = key[r] /\ held'[r] = held[r]
    BY <1>2 DEF Aside
  <2>2. RunningHasLeader'
    BY <1>2, <2>1 DEF Aside, RunningHasLeader, Leads, At, InGate
  <2>3. NoLostRequest'
    BY <1>2, <2>1 DEF Aside, NoLostRequest, At, InGate
  <2> QED
    BY <2>2, <2>3
<1>3. ASSUME NEW r \in Runners, Enters(r)
      PROVE  RunningHasLeader' /\ NoLostRequest'
  <2>1. RunningHasLeader'
    BY <1>3 DEF Enters, RunningHasLeader, Leads, At, InGate
  <2>2. NoLostRequest'
    <3> SUFFICES ASSUME NEW k \in Keys, k \in stale'
                 PROVE  \E s \in Runners :
                            /\ key'[s] = k
                            /\ \/ pc'[s] \in {"lookup", "slot"}
                               \/ pc'[s] = "body" /\ held'[s] \in pending'
      BY DEF NoLostRequest, At
    <3>1. CASE k = key'[r]
      BY <1>3, <3>1 DEF Enters
    <3>2. CASE k # key'[r]
      BY <1>3, <3>2 DEF Enters, NoLostRequest, At, InGate
    <3> QED
      BY <3>1, <3>2
  <2> QED
    BY <2>1, <2>2
<1>4. ASSUME NEW r \in Runners, Lookup(r)
      PROVE  RunningHasLeader' /\ NoLostRequest'
  <2>1. /\ pc[r] = "lookup" /\ pc'[r] = "slot"
        /\ UNCHANGED <<key, stale>>
        /\ \A s \in Runners \ {r} : pc'[s] = pc[s]
    BY <1>4, GotoFrame DEF Lookup, At
  <2>2. \A s \in Runners \ {r} : held'[s] = held[s]
    BY <1>4 DEF Lookup, FindFlight, NewFlight, TypeInv, TypeOK, LocalsOK
  <2>3. \/ UNCHANGED <<running, pending>>
        \/ \E f \in Flights :
              /\ running' = running \ {f} /\ pending' = pending \ {f}
              /\ \A s \in Runners : held[s] # f
    BY <1>4 DEF Lookup, FindFlight, NewFlight, FreeFlight
  <2>4. RunningHasLeader'
    BY <2>1, <2>2, <2>3 DEF RunningHasLeader, Leads, At
  <2>5. NoLostRequest'
    BY <2>1, <2>2, <2>3 DEF NoLostRequest, At
  <2> QED
    BY <2>4, <2>5
<1>5. ASSUME NEW r \in Runners, Join(r)
      PROVE  RunningHasLeader' /\ NoLostRequest'
  <2>1. /\ pc'[r] \notin InGate
        /\ held'[r] = None
        /\ \A s \in Runners \ {r} :
              pc'[s] = pc[s] /\ key'[s] = key[s] /\ held'[s] = held[s]
    BY <1>5, LeaveFrame DEF Join
  <2>2. RunningHasLeader'
    BY <1>5, <2>1 DEF Join, RunningHasLeader, Leads, At
  <2>3. PICK l \in Runners : pc[l] = "body" /\ held[l] = held[r]
    BY <1>5 DEF Join, RunningHasLeader, Leads, At
  <2>4. l # r /\ key[l] = key[r]
    BY <1>5, <2>3 DEF Join, At, FlightKeys
  <2>5. NoLostRequest'
    <3> SUFFICES ASSUME NEW k \in Keys, k \in stale'
                 PROVE  \E s \in Runners :
                            /\ key'[s] = k
                            /\ \/ pc'[s] \in {"lookup", "slot"}
                               \/ pc'[s] = "body" /\ held'[s] \in pending'
      BY DEF NoLostRequest, At
    <3>1. CASE k = key[r]
      BY <1>5, <2>1, <2>3, <2>4, <3>1 DEF Join
    <3>2. CASE k # key[r]
      BY <1>5, <2>1, <3>2 DEF Join, NoLostRequest, At
    <3> QED
      BY <3>1, <3>2
  <2> QED
    BY <2>2, <2>5
<1>6. ASSUME NEW r \in Runners, Lead(r)
      PROVE  RunningHasLeader' /\ NoLostRequest'
  <2>1. /\ pc[r] = "slot" /\ pc'[r] = "body"
        /\ \A s \in Runners \ {r} : pc'[s] = pc[s]
        /\ UNCHANGED <<held, key>>
    BY <1>6, GotoFrame DEF Lead, At, runs
  <2>2. RunningHasLeader'
    BY <1>6, <2>1 DEF Lead, RunningHasLeader, Leads, At
  <2>3. NoLostRequest'
    <3> SUFFICES ASSUME NEW k \in Keys, k \in stale, k # key[r]
                 PROVE  \E s \in Runners :
                            /\ key'[s] = k
                            /\ \/ pc'[s] \in {"lookup", "slot"}
                               \/ pc'[s] = "body" /\ held'[s] \in pending'
      BY <1>6 DEF Lead, NoLostRequest, At
    <3>1. PICK s \in Runners :
              /\ key[s] = k
              /\ \/ pc[s] \in {"lookup", "slot"}
                 \/ pc[s] = "body" /\ held[s] \in pending
      BY DEF NoLostRequest, At
    <3>2. CASE pc[s] \in {"lookup", "slot"}
      BY <2>1, <3>1, <3>2
    <3>3. CASE pc[s] = "body" /\ held[s] \in pending
      <4>1. held[s] # held[r]
        BY <1>6, <3>3 DEF Lead, OneLeaderPerFlight, At
      <4> QED
        BY <1>6, <2>1, <3>1, <3>3, <4>1 DEF Lead
    <3> QED
      BY <3>1, <3>2, <3>3
  <2> QED
    BY <2>2, <2>3
<1>7. ASSUME NEW r \in Runners, Rerun(r)
      PROVE  RunningHasLeader' /\ NoLostRequest'
  <2>1. RunningHasLeader'
    BY <1>7 DEF Rerun, runs, RunningHasLeader, Leads, At
  <2>2. NoLostRequest'
    <3> SUFFICES ASSUME NEW k \in Keys, k \in stale, k # key[r]
                 PROVE  \E s \in Runners :
                            /\ key'[s] = k
                            /\ \/ pc'[s] \in {"lookup", "slot"}
                               \/ pc'[s] = "body" /\ held'[s] \in pending'
      BY <1>7 DEF Rerun, NoLostRequest, At
    <3>1. PICK s \in Runners :
              /\ key[s] = k
              /\ \/ pc[s] \in {"lookup", "slot"}
                 \/ pc[s] = "body" /\ held[s] \in pending
      BY DEF NoLostRequest, At
    <3>2. pc[s] = "body" => held[s] # held[r]
      BY <1>7, <3>1 DEF Rerun, At, OneLeaderPerFlight, Leads
    <3> QED
      BY <1>7, <3>1, <3>2 DEF Rerun, runs
  <2> QED
    BY <2>1, <2>2
<1>8. ASSUME NEW r \in Runners, StepDown(r)
      PROVE  RunningHasLeader' /\ NoLostRequest'
  <2>1. /\ pc'[r] \notin InGate
        /\ held'[r] = None
        /\ \A s \in Runners \ {r} :
              pc'[s] = pc[s] /\ key'[s] = key[s] /\ held'[s] = held[s]
    BY <1>8, LeaveFrame DEF StepDown
  <2>2. RunningHasLeader'
    BY <1>8, <2>1 DEF StepDown, RunningHasLeader, Leads, At
  <2>3. NoLostRequest'
    BY <1>8, <2>1 DEF StepDown, NoLostRequest, At
  <2> QED
    BY <2>2, <2>3
<1>9. ASSUME NEW r \in Runners, Abandons(r) PROVE FALSE
  BY <1>9 DEF Abandons, PlainTickers, InGate
<1> QED
  BY <1>1, <1>2, <1>3, <1>4, <1>5, <1>6, <1>7, <1>8, <1>9 DEF GateStep

\* When ticker bodies do not go through the gate, so that no abort can land
\* on a leader, a running mark always has a leader and no request is lost:
\* for any interleaving of callers, cancels, re-schedules and shutdown.
THEOREM RequestsKept ==
    ASSUME Coalesced = {}
    PROVE  Spec => [](RunningHasLeader /\ NoLostRequest)
<1>1. Init => RequestInv
  <2>1. ASSUME Init PROVE PlainTickers /\ RunningHasLeader /\ NoLostRequest
    BY <2>1, ProcsDisjoint
    DEF Init, PlainTickers, RunningHasLeader, NoLostRequest, InGate, Procs, Runners
  <2> QED
    BY <2>1, GateInit DEF RequestInv
<1>2. RequestInv /\ [Next]_vars => RequestInv'
  BY RequestNext
<1>3. RequestInv => RunningHasLeader /\ NoLostRequest
  BY DEF RequestInv
<1> QED
  BY <1>1, <1>2, <1>3, PTL DEF Spec

-----------------------------------------------------------------------------
(* One owner per key: no interval task escapes its AbortHandle.            *)

RegisteredOK ==
    \A k \in Keys : jobs[k] # None =>
        Alive(jobs[k]) /\ jobs[k] \notin aborted /\ key[jobs[k]] = k

SpawnedOK ==
    \A c \in Clients : At(c, "insjob") =>
        /\ Alive(call[c].ticker)
        /\ call[c].ticker \notin aborted
        /\ key[call[c].ticker] = call[c].key

ReplacedOK ==
    \A c \in Clients : pc[c] \in {"unhandle", "spawn", "insjob"} =>
        jobs[call[c].key] = None

DrainedOK ==
    At(Stopper, "abort") => \A t \in drained :
        /\ \A k \in Keys : jobs[k] # t
        /\ \A c \in Clients : At(c, "insjob") => call[c].ticker # t

TickerInv ==
    RegisteredOK /\ SpawnedOK /\ ReplacedOK /\ DrainedOK /\ NoLeakedTicker

LEMMA TickerInit == Init => TickerInv
  BY ProcsDisjoint
  DEF Init, TickerInv, RegisteredOK, SpawnedOK, ReplacedOK, DrainedOK,
      NoLeakedTicker, Alive, LivePoints, AwaitPoints, At, Procs, Runners

\* A step that neither registers, aborts, starts nor ends an interval task.
TasksStay ==
    /\ UNCHANGED <<jobs, aborted, drained, call>>
    /\ \A t \in Tickers : Alive(t)' = Alive(t) /\ (Alive(t) => key'[t] = key[t])
    /\ \A p \in Clients \cup {Stopper} : pc'[p] = pc[p]

LEMMA RunnersStay ==
    ASSUME TypeInv, NEW r \in Runners,
           \/ r \in Callers /\ \E k \in Keys : Request(r, k)
           \/ RunStep(r)
           \/ r \in Tickers /\ (Start(r) \/ Tick(r) \/ PlainBody(r) \/ Stamp(r))
    PROVE  TasksStay
<1> USE ProcsDisjoint DEF TypeInv, TypeOK, maps, timers, runs, gate
<1>1. UNCHANGED <<jobs, aborted, drained, call>>
  BY DEF Request, RunStep, Lookup, Join, Lead, Rerun, StepDown, Start, Tick,
         TickPlain, TickGate, Ticks, PlainBody, Stamp
<1>2. \A p \in Procs \ {r} : pc'[p] = pc[p]
  BY DEF Request, RunStep, Lookup, Join, Lead, Rerun, StepDown, Leave, Start, Tick,
         TickPlain, TickGate, Ticks, PlainBody, Stamp, Goto, PcOK
<1>3. r \in Tickers => pc[r] \in LivePoints /\ pc'[r] \in LivePoints
  BY DEF Request, RunStep, Lookup, Join, Lead, Rerun, StepDown, Leave, Start, Tick,
         TickPlain, TickGate, Ticks, PlainBody, Stamp, Goto, At, PcOK, LivePoints,
         AwaitPoints, Procs, Runners
<1>4. \A t \in Tickers : key'[t] = key[t]
  BY DEF Request, RunStep, Lookup, Join, Lead, Rerun, StepDown, Leave, Start, Tick,
         TickPlain, TickGate, Ticks, PlainBody, Stamp, LocalsOK, Runners
<1> QED
  BY <1>1, <1>2, <1>3, <1>4 DEF TasksStay, Alive, Procs, Runners

LEMMA StayKeeps ==
    ASSUME TypeInv, TickerInv, TasksStay
    PROVE  TickerInv'
<1> USE DEF TasksStay, TickerInv, TypeInv, TypeOK, MapsOK, WellFormed
<1>1. RegisteredOK'
  BY DEF RegisteredOK
<1>2. SpawnedOK'
  BY DEF SpawnedOK, At
<1>3. ReplacedOK' /\ DrainedOK'
  BY DEF ReplacedOK, DrainedOK, At
<1>4. NoLeakedTicker'
  BY DEF NoLeakedTicker, At
<1> QED
  BY <1>1, <1>2, <1>3, <1>4

LEMMA DieKeeps ==
    ASSUME TypeInv, TickerInv, NEW t \in Tickers, Die(t)
    PROVE  TickerInv'
<1> USE ProcsDisjoint DEF TickerInv, TypeInv, TypeOK, Die, maps, gate
<1>1. /\ pc'[t] = "dead"
      /\ \A p \in Procs \ {t} : pc'[p] = pc[p]
      /\ \A u \in Tickers \ {t} : key'[u] = key[u]
      /\ aborted' = aborted \ {t}
  BY DEF Goto, PcOK, LocalsOK, Procs, Runners
<1>2. /\ \A k \in Keys : jobs[k] # t
      /\ \A c \in Clients : At(c, "insjob") => call[c].ticker # t
  BY NoneIsNone DEF RegisteredOK, SpawnedOK, Procs, Runners
<1>3. \A u \in Tickers : Alive(u)' => u # t /\ Alive(u)
  BY <1>1 DEF Alive, LivePoints, AwaitPoints, Procs, Runners
<1>4. \A u \in Tickers \ {t} : Alive(u)' = Alive(u)
  BY <1>1 DEF Alive, Procs, Runners
<1>5. RegisteredOK'
  BY <1>1, <1>2, <1>4 DEF RegisteredOK, MapsOK
<1>6. SpawnedOK'
  BY <1>1, <1>2, <1>4 DEF SpawnedOK, At, WellFormed, Procs, Runners
<1>7. ReplacedOK' /\ DrainedOK'
  BY <1>1 DEF ReplacedOK, DrainedOK, At, Procs, Runners
<1>8. NoLeakedTicker'
  BY <1>1, <1>3 DEF NoLeakedTicker, At, Procs, Runners
<1> QED
  BY <1>5, <1>6, <1>7, <1>8

\* What a client's own step leaves of the tasks and of the other processes.
LEMMA ClientFrame ==
    ASSUME TypeInv, NEW c \in Clients,
           \/ \E k \in Keys : \/ Schedule(c, k) \/ Resume(c, k)
                              \/ Pause(c, k) \/ Cancel(c, k)
           \/ ReadElapsed(c) \/ Arm(c) \/ RemoveJob(c) \/ RemoveHandle(c)
           \/ InsertJob(c) \/ InsertHandle(c) \/ ForgetLastRun(c)
           \/ DropIdleFlight(c)
    PROVE  /\ UNCHANGED <<key, drained>>
           /\ \A p \in Procs \ {c} : pc'[p] = pc[p]
           /\ \A d \in Clients \ {c} : call'[d] = call[d]
           /\ \A t \in Tickers : Alive(t)' = Alive(t)
<1> USE ProcsDisjoint DEF TypeInv, TypeOK, maps, gate, timers, runs
<1>1. UNCHANGED <<key, drained>>
  BY DEF Schedule, Resume, Pause, Cancel, Begin, ReadElapsed, Arm, RemoveJob,
         RemoveHandle, InsertJob, InsertHandle, ForgetLastRun, DropIdleFlight
<1>2. \A p \in Procs \ {c} : pc'[p] = pc[p]
  BY DEF Schedule, Resume, Pause, Cancel, Begin, ReadElapsed, Arm, RemoveJob,
         RemoveHandle, InsertJob, InsertHandle, ForgetLastRun, DropIdleFlight,
         Return, Goto, PcOK
<1>3. \A d \in Clients \ {c} : call'[d] = call[d]
  BY DEF Schedule, Resume, Pause, Cancel, Begin, ReadElapsed, Arm, RemoveJob,
         RemoveHandle, InsertJob, InsertHandle, ForgetLastRun, DropIdleFlight,
         Return, LocalsOK
<1> QED
  BY <1>1, <1>2, <1>3 DEF Alive, Procs, Runners

\* A client's step that leaves jobs and the abort flags alone, and does not
\* enter or leave the steps at which it has a task in hand.
LEMMA ClientIdleKeeps ==
    ASSUME TypeInv, TickerInv, NEW c \in Clients,
           \/ \E k \in Keys : \/ Schedule(c, k) \/ Resume(c, k)
                              \/ Pause(c, k) \/ Cancel(c, k)
           \/ ReadElapsed(c) \/ Arm(c) \/ RemoveHandle(c) \/ InsertHandle(c)
           \/ ForgetLastRun(c) \/ DropIdleFlight(c)
    PROVE  TickerInv'
<1> USE ProcsDisjoint DEF TickerInv, TypeInv, TypeOK
<1>1. /\ UNCHANGED <<key, drained>>
      /\ \A p \in Procs \ {c} : pc'[p] = pc[p]
      /\ \A d \in Clients \ {c} : call'[d] = call[d]
      /\ \A t \in Tickers : Alive(t)' = Alive(t)
  BY ClientFrame
<1>2. UNCHANGED <<jobs, aborted>>
  BY DEF Schedule, Resume, Pause, Cancel, Begin, ReadElapsed, Arm, RemoveHandle,
         InsertHandle, ForgetLastRun, DropIdleFlight, maps, timers
<1>3. /\ pc[c] # "insjob" /\ pc'[c] \notin {"insjob", "unhandle"}
      /\ pc'[c] = "spawn" => pc[c] = "unhandle" /\ call'[c] = call[c]
  BY DEF Schedule, Resume, Pause, Cancel, Begin, ReadElapsed, Arm, RemoveHandle,
         InsertHandle, ForgetLastRun, DropIdleFlight, Return, Goto, At, PcOK, Procs
<1>4. RegisteredOK'
  BY <1>1, <1>2 DEF RegisteredOK, MapsOK
<1>5. SpawnedOK' /\ ReplacedOK'
  BY <1>1, <1>2, <1>3 DEF SpawnedOK, ReplacedOK, At, Procs, WellFormed
<1>6. DrainedOK'
  BY <1>1, <1>2, <1>3 DEF DrainedOK, At, Procs, Runners
<1>7. NoLeakedTicker'
  BY <1>1, <1>2, <1>3 DEF NoLeakedTicker, At, Procs, Runners
<1> QED
  BY <1>4, <1>5, <1>6, <1>7

LEMMA RemoveJobKeeps ==
    ASSUME TypeInv, TickerInv, NEW c \in Clients, RemoveJob(c)
    PROVE  TickerInv'
<1> USE ProcsDisjoint, NoneIsNone DEF TickerInv, TypeInv, TypeOK
<1> DEFINE k == call[c].key
<1>1. /\ UNCHANGED <<key, drained>>
      /\ \A p \in Procs \ {c} : pc'[p] = pc[p]
      /\ \A d \in Clients \ {c} : call'[d] = call[d]
      /\ \A t \in Tickers : Alive(t)' = Alive(t)
  BY ClientFrame
<1>2. /\ k \in Keys
      /\ UNCHANGED call
      /\ pc[c] = "unjob" /\ pc'[c] = "unhandle"
      /\ jobs'[k] = None
      /\ \A j \in Keys \ {k} : jobs'[j] = jobs[j]
      /\ aborted' = aborted \cup ({jobs[k]} \ {None})
  BY ParamTypes DEF RemoveJob, At, Goto, WellFormed, PcOK, MapsOK, Procs
<1>3. \A j \in Keys \ {k} : jobs[j] # None => jobs[j] # jobs[k]
  BY <1>2 DEF RegisteredOK
<1>4. \A d \in Clients : At(d, "insjob") => call[d].ticker # jobs[k]
  BY <1>2
  DEF SpawnedOK, ReplacedOK, RegisteredOK, At, WellFormed, Procs, Runners
<1>5. RegisteredOK'
  BY <1>1, <1>2, <1>3 DEF RegisteredOK, MapsOK
<1>6. SpawnedOK' /\ ReplacedOK'
  BY <1>1, <1>2, <1>4, ParamTypes
  DEF SpawnedOK, ReplacedOK, At, Procs, WellFormed
<1>7. DrainedOK'
  BY <1>1, <1>2 DEF DrainedOK, At, Procs, Runners, MapsOK
<1>8. NoLeakedTicker'
  <2> SUFFICES ASSUME NEW t \in Tickers, Alive(t), t \notin aborted, t # jobs[k]
               PROVE  \/ jobs'[key[t]] = t
                      \/ \E d \in Clients : pc'[d] = "insjob" /\ call'[d].ticker = t
                      \/ pc'[Stopper] = "abort" /\ t \in drained'
    BY <1>1, <1>2 DEF NoLeakedTicker, At, Procs, Runners
  <2>1. key[t] \in Keys
    BY DEF Alive, LivePoints, AwaitPoints, WellFormed, Runners
  <2> QED
    BY <1>1, <1>2, <2>1 DEF NoLeakedTicker, At, Procs, Runners
<1> QED
  BY <1>5, <1>6, <1>7, <1>8

LEMMA SpawnKeeps ==
    ASSUME TypeInv, TickerInv, NEW c \in Clients, NEW t \in Tickers, Spawn(c, t)
    PROVE  TickerInv'
<1> USE ProcsDisjoint, NoneIsNone DEF TickerInv, TypeInv, TypeOK
<1>1. /\ pc[c] = "spawn" /\ pc'[c] = "insjob"
      /\ pc[t] = "dead" /\ pc'[t] = "born"
      /\ \A p \in Procs \ {c, t} : pc'[p] = pc[p]
      /\ UNCHANGED <<jobs, drained>>
      /\ aborted' = aborted \ {t}
  BY DEF Spawn, FreeTicker, At, PcOK, Procs, Runners, maps
<1>2. /\ key'[t] = call[c].key
      /\ \A u \in Tickers \ {t} : key'[u] = key[u]
      /\ call'[c].ticker = t /\ call'[c].key = call[c].key
      /\ \A d \in Clients \ {c} : call'[d] = call[d]
  BY DEF Spawn, LocalsOK, Runners
<1>3. /\ \A k \in Keys : jobs[k] # t
      /\ \A d \in Clients : call[d].ticker # t
      /\ t \notin drained
  BY DEF Spawn, FreeTicker
<1>4. /\ Alive(t)'
      /\ \A u \in Tickers \ {t} : Alive(u)' = Alive(u)
  BY <1>1 DEF Alive, LivePoints, AwaitPoints, Procs, Runners
<1>5. RegisteredOK'
  BY <1>1, <1>2, <1>3, <1>4 DEF RegisteredOK, MapsOK
<1>6. SpawnedOK'
  BY <1>1, <1>2, <1>3, <1>4 DEF SpawnedOK, At, Procs, Runners, WellFormed
<1>7. ReplacedOK'
  BY <1>1, <1>2 DEF ReplacedOK, Procs
<1>8. DrainedOK'
  BY <1>1, <1>2, <1>3 DEF DrainedOK, At, Procs, Runners
<1>9. NoLeakedTicker'
  BY <1>1, <1>2, <1>4 DEF NoLeakedTicker, At, Procs, Runners
<1> QED
  BY <1>5, <1>6, <1>7, <1>8, <1>9

LEMMA InsertJobKeeps ==
    ASSUME ExclusiveKeys, TypeInv, TickerInv, NEW c \in Clients, InsertJob(c)
    PROVE  TickerInv'
<1> USE ProcsDisjoint, NoneIsNone DEF TickerInv, TypeInv, TypeOK
<1> DEFINE k == call[c].key
           t == call[c].ticker
<1>1. /\ UNCHANGED <<key, drained>>
      /\ \A p \in Procs \ {c} : pc'[p] = pc[p]
      /\ \A d \in Clients \ {c} : call'[d] = call[d]
      /\ \A u \in Tickers : Alive(u)' = Alive(u)
  BY ClientFrame
<1>2. /\ k \in Owns[c] /\ k \in Keys /\ t \in Tickers
      /\ UNCHANGED <<call, aborted>>
      /\ pc[c] = "insjob" /\ pc'[c] = "inshandle"
      /\ jobs'[k] = t
      /\ \A j \in Keys \ {k} : jobs'[j] = jobs[j]
  BY ParamTypes DEF InsertJob, At, Goto, WellFormed, PcOK, MapsOK, Procs, timers
<1>3. jobs[k] = None /\ Alive(t) /\ t \notin aborted /\ key[t] = k
  BY <1>2 DEF ReplacedOK, SpawnedOK, At
<1>4. \A d \in Clients \ {c} : pc[d] # "idle" => call[d].key # k
  BY <1>2 DEF ExclusiveKeys, WellFormed
<1>5. RegisteredOK'
  BY <1>1, <1>2, <1>3 DEF RegisteredOK, MapsOK
<1>6. SpawnedOK'
  BY <1>1, <1>2 DEF SpawnedOK, At, Procs, WellFormed
<1>7. ReplacedOK'
  BY <1>1, <1>2, <1>4, ParamTypes DEF ReplacedOK, Procs, WellFormed
<1>8. DrainedOK'
  BY <1>1, <1>2 DEF DrainedOK, At, Procs, Runners
<1>9. NoLeakedTicker'
  <2> SUFFICES ASSUME NEW u \in Tickers, Alive(u), u \notin aborted
               PROVE  \/ jobs'[key[u]] = u
                      \/ \E d \in Clients : pc'[d] = "insjob" /\ call'[d].ticker = u
                      \/ pc'[Stopper] = "abort" /\ u \in drained'
    BY <1>1, <1>2 DEF NoLeakedTicker, At
  <2>1. key[u] \in Keys
    BY DEF Alive, LivePoints, AwaitPoints, WellFormed, Runners
  <2> QED
    BY <1>1, <1>2, <1>3, <2>1 DEF NoLeakedTicker, At, Procs, Runners
<1> QED
  BY <1>5, <1>6, <1>7, <1>8, <1>9

LEMMA StopKeeps ==
    ASSUME TypeInv, TickerInv, StopStep
    PROVE  TickerInv'
<1> USE ProcsDisjoint, NoneIsNone DEF TickerInv, TypeInv, TypeOK
<1>1. /\ UNCHANGED <<key, call>>
      /\ \A p \in Procs \ {Stopper} : pc'[p] = pc[p]
  BY DEF StopStep, SetShutDown, DrainJobs, AbortDrained, DrainHandles,
         AwaitHandles, ClearFlights, ClearStamps, Goto, PcOK, runs
<1>2. \A t \in Tickers : Alive(t)' = Alive(t)
  BY <1>1 DEF Alive, Procs, Runners
<1>3. CASE DrainJobs
  <2>1. /\ pc'[Stopper] = "abort"
        /\ drained' = {jobs[k] : k \in Keys} \ {None}
        /\ \A k \in Keys : jobs'[k] = None
        /\ UNCHANGED aborted
    BY <1>3 DEF DrainJobs, Goto, PcOK, Procs, timers
  <2>2. \A c \in Clients : At(c, "insjob") => call[c].ticker \notin drained'
    BY <2>1 DEF SpawnedOK, ReplacedOK, RegisteredOK, At, WellFormed
  <2>3. RegisteredOK' /\ ReplacedOK'
    BY <1>1, <2>1, ParamTypes DEF RegisteredOK, ReplacedOK, WellFormed, Procs
  <2>4. SpawnedOK' /\ DrainedOK'
    BY <1>1, <1>2, <2>1, <2>2 DEF SpawnedOK, DrainedOK, At, Procs, WellFormed
  <2>5. NoLeakedTicker'
    <3> SUFFICES ASSUME NEW t \in Tickers, Alive(t), t \notin aborted
                 PROVE  \/ \E d \in Clients : pc[d] = "insjob" /\ call[d].ticker = t
                        \/ t \in drained'
      BY <1>1, <1>2, <2>1 DEF NoLeakedTicker, At, Procs
    <3>1. key[t] \in Keys
      BY DEF Alive, LivePoints, AwaitPoints, WellFormed, Runners
    <3> QED
      BY <1>3, <2>1, <3>1 DEF NoLeakedTicker, At, DrainJobs, Procs, Runners
  <2> QED
    BY <2>3, <2>4, <2>5
<1>4. CASE AbortDrained
  <2>1. /\ pc[Stopper] = "abort" /\ pc'[Stopper] = "drainhandles"
        /\ aborted' = aborted \cup {t \in drained : ~At(t, "dead")}
        /\ UNCHANGED jobs
    BY <1>4 DEF AbortDrained, Goto, At, PcOK, Procs, maps
  <2>2. RegisteredOK' /\ SpawnedOK'
    BY <1>1, <1>2, <2>1
    DEF RegisteredOK, SpawnedOK, DrainedOK, MapsOK, At, Procs, WellFormed
  <2>3. ReplacedOK' /\ DrainedOK'
    BY <1>1, <2>1 DEF ReplacedOK, DrainedOK, At, Procs
  <2>4. NoLeakedTicker'
    BY <1>1, <1>2, <2>1
    DEF NoLeakedTicker, At, Alive, LivePoints, AwaitPoints, Procs
  <2> QED
    BY <2>2, <2>3, <2>4
<1>5. CASE SetShutDown \/ DrainHandles \/ AwaitHandles \/ ClearFlights \/ ClearStamps
  <2>1. /\ pc[Stopper] # "abort" /\ pc'[Stopper] # "abort"
        /\ UNCHANGED <<aborted, jobs>>
    BY <1>5
    DEF SetShutDown, DrainHandles, AwaitHandles, ClearFlights, ClearStamps, Goto, At,
        PcOK, Procs, maps, timers
  <2>2. RegisteredOK' /\ SpawnedOK'
    BY <1>1, <1>2, <2>1 DEF RegisteredOK, SpawnedOK, MapsOK, At, Procs, WellFormed
  <2>3. ReplacedOK' /\ DrainedOK'
    BY <1>1, <2>1 DEF ReplacedOK, DrainedOK, At, Procs
  <2>4. NoLeakedTicker'
    BY <1>1, <1>2, <2>1 DEF NoLeakedTicker, At, Procs
  <2> QED
    BY <2>2, <2>3, <2>4
<1> QED
  BY <1>3, <1>4, <1>5 DEF StopStep

LEMMA TickerNext ==
    ASSUME ExclusiveKeys
    PROVE  TypeInv /\ TickerInv /\ [Next]_vars => TickerInv'
<1> SUFFICES ASSUME TypeInv, TickerInv, [Next]_vars PROVE TickerInv'
  OBVIOUS
<1>1. ASSUME NEW c \in Clients, ClientStep(c) PROVE TickerInv'
  BY <1>1, ClientIdleKeeps, RemoveJobKeeps, SpawnKeeps, InsertJobKeeps
  DEF ClientStep
<1>2. ASSUME NEW r \in Callers, NEW k \in Keys, Request(r, k) PROVE TickerInv'
  BY <1>2, RunnersStay, StayKeeps DEF Runners
<1>3. ASSUME NEW r \in Runners, RunStep(r) PROVE TickerInv'
  BY <1>3, RunnersStay, StayKeeps
<1>4. ASSUME NEW t \in Tickers, TickerStep(t) PROVE TickerInv'
  <2>1. CASE Die(t)
    BY <2>1, DieKeeps
  <2>2. CASE Start(t) \/ Tick(t) \/ PlainBody(t) \/ Stamp(t)
    BY <2>2, RunnersStay, StayKeeps DEF Runners
  <2> QED
    BY <1>4, <2>1, <2>2 DEF TickerStep
<1>5. CASE Advance \/ UNCHANGED vars
  <2>1. TasksStay
    BY <1>5 DEF Advance, vars, maps, timers, runs, TasksStay, Alive
  <2> QED
    BY <2>1, StayKeeps
<1> QED
  BY <1>1, <1>2, <1>3, <1>4, <1>5, StopKeeps DEF Next

LEMMA TickerInvUnique ==
    ASSUME ExclusiveKeys, TypeInv, TickerInv
    PROVE  OneTickerPerKey
<1> SUFFICES ASSUME NEW t \in Tickers, NEW u \in Tickers, Wanted(t), Wanted(u),
                    key[t] = key[u]
             PROVE  t = u
  BY DEF OneTickerPerKey
<1>1. /\ \/ jobs[key[t]] = t
         \/ \E c \in Clients : At(c, "insjob") /\ call[c].ticker = t
      /\ \/ jobs[key[u]] = u
         \/ \E c \in Clients : At(c, "insjob") /\ call[c].ticker = u
  BY DEF TickerInv, NoLeakedTicker, Wanted
<1>2. ASSUME NEW c \in Clients, At(c, "insjob")
      PROVE  /\ key[call[c].ticker] \in Owns[c]
             /\ jobs[key[call[c].ticker]] = None
  BY <1>2 DEF TickerInv, SpawnedOK, ReplacedOK, At, TypeInv, WellFormed
<1> QED
  BY <1>1, <1>2, NoneIsNone DEF ExclusiveKeys, Procs, Runners

\* When each key is managed by one thread at a time, an interval task that is
\* not on its way out can always be reached by its AbortHandle, and a key has
\* at most one such task, however schedule, resume, pause, cancel and
\* shutdown interleave with the tasks.
THEOREM TickersRegistered ==
    ASSUME ExclusiveKeys
    PROVE  Spec => [](NoLeakedTicker /\ OneTickerPerKey)
<1>1. Init => TypeInv /\ TickerInv
  BY TypeInit, TickerInit
<1>2. TypeInv /\ TickerInv /\ [Next]_vars => (TypeInv /\ TickerInv)'
  BY TypeNext, TickerNext
<1>3. TypeInv /\ TickerInv => NoLeakedTicker /\ OneTickerPerKey
  BY TickerInvUnique DEF TickerInv
<1> QED
  BY <1>1, <1>2, <1>3, PTL DEF Spec

-----------------------------------------------------------------------------
(* run_coalesced implements FlightGate.                                    *)

\* What FlightGate's callers see of key k does not change.
Same(k) ==
    /\ AskingOf(k)' = AskingOf(k)
    /\ LeaderOf(k)' = LeaderOf(k)
    /\ AgainOf(k)' = AgainOf(k)

LEMMA GateStutters ==
    ASSUME \A k \in Keys : Same(k)
    PROVE  [Gate!Next]_(Gate!vars)
  BY DEF Same, Gate!vars

LEMMA GateAsks ==
    ASSUME NEW k \in Keys, NEW r \in Runners, \A j \in Keys \ {k} : Same(j),
           \A j \in Keys : r \notin AskingOf(j) /\ LeaderOf(j) # r,
           AskingOf(k)' = AskingOf(k) \cup {r},
           LeaderOf(k)' = LeaderOf(k), AgainOf(k)' = AgainOf(k)
    PROVE  Gate!Next
<1>1. Gate!Ask(r, k)
  BY DEF Same, Gate!Ask
<1> QED
  BY <1>1 DEF Gate!Next

LEMMA GateLeads ==
    ASSUME NEW k \in Keys, NEW r \in Runners, \A j \in Keys \ {k} : Same(j),
           r \in AskingOf(k), LeaderOf(k) = None,
           AskingOf(k)' = AskingOf(k) \ {r},
           LeaderOf(k)' = r, AgainOf(k)' = AgainOf(k)
    PROVE  Gate!Next
<1>1. Gate!Lead(r, k)
  BY DEF Same, Gate!Lead
<1> QED
  BY <1>1 DEF Gate!Next

LEMMA GateJoins ==
    ASSUME NEW k \in Keys, NEW r \in Runners, \A j \in Keys \ {k} : Same(j),
           r \in AskingOf(k), LeaderOf(k) # None,
           AskingOf(k)' = AskingOf(k) \ {r},
           LeaderOf(k)' = LeaderOf(k), AgainOf(k)' = TRUE
    PROVE  Gate!Next
<1>1. Gate!Join(r, k)
  BY DEF Same, Gate!Join
<1> QED
  BY <1>1 DEF Gate!Next

LEMMA GateReruns ==
    ASSUME NEW k \in Keys, \A j \in Keys \ {k} : Same(j),
           LeaderOf(k) \in Runners, AgainOf(k),
           AskingOf(k)' = AskingOf(k),
           LeaderOf(k)' = LeaderOf(k), AgainOf(k)' = FALSE
    PROVE  Gate!Next
<1>1. Gate!Rerun(k)
  BY DEF Same, Gate!Rerun
<1> QED
  BY <1>1 DEF Gate!Next

LEMMA GateStepsDown ==
    ASSUME NEW k \in Keys, \A j \in Keys \ {k} : Same(j),
           LeaderOf(k) \in Runners, ~AgainOf(k),
           AskingOf(k)' = AskingOf(k),
           LeaderOf(k)' = None, AgainOf(k)' = AgainOf(k)
    PROVE  Gate!Next
<1>1. Gate!StepDown(k)
  BY DEF Same, Gate!StepDown
<1> QED
  BY <1>1 DEF Gate!Next

LEMMA GateLosesLeader ==
    ASSUME NEW k \in Keys, \A j \in Keys \ {k} : Same(j),
           LeaderOf(k) \in Runners,
           AskingOf(k)' = AskingOf(k),
           LeaderOf(k)' = Stopper, AgainOf(k)' = AgainOf(k)
    PROVE  Gate!Next
<1>1. Gate!Vanish(k)
  BY DEF Same, Gate!Vanish
<1> QED
  BY <1>1 DEF Gate!Next

\* The runner in the body leads its key; a key with none is led by nobody,
\* unless its flight object still says running.
LEMMA LeaderInBody ==
    ASSUME GateInv, HeldIsCurrent, NEW k \in Keys, NEW r \in Bodies(k)
    PROVE  LeaderOf(k) = r /\ flights[k] = held[r] /\ flights[k] \in running
<1>1. Bodies(k) = {r}
  BY CurrentIsSingle DEF SingleFlight
<1>2. LeaderOf(k) = r
  BY <1>1 DEF LeaderOf
<1>3. r \in Runners /\ pc[r] = "body" /\ key[r] = k
  BY DEF Bodies, At
<1>4. held[r] \in running /\ held[r] # None
  BY <1>3, HeldInGate, NoneIsNone DEF GateInv, OneLeaderPerFlight, At
<1> QED
  BY <1>2, <1>3, <1>4 DEF HeldIsCurrent

LEMMA NoBodyLeader ==
    ASSUME NEW k \in Keys, Bodies(k) = {}
    PROVE  LeaderOf(k) = IF flights[k] \in running THEN Stopper ELSE None
  BY DEF LeaderOf

LEMMA LeaderIs ==
    ASSUME GateInv, HeldIsCurrent, NEW k \in Keys
    PROVE  \/ LeaderOf(k) \in Bodies(k)
           \/ Bodies(k) = {} /\ LeaderOf(k) \in {Stopper, None}
<1>1. CASE Bodies(k) = {}
  BY <1>1, NoBodyLeader
<1>2. CASE Bodies(k) # {}
  BY <1>2, LeaderInBody
<1> QED
  BY <1>1, <1>2

\* Same bodies and same mark: same leader.
LEMMA SameLeader ==
    ASSUME NEW k \in Keys, Bodies(k)' = Bodies(k),
           Bodies(k) = {} => (flights'[k] \in running' <=> flights[k] \in running)
    PROVE  LeaderOf(k)' = LeaderOf(k)
<1>1. CASE Bodies(k) = {}
  BY <1>1 DEF LeaderOf
<1>2. CASE Bodies(k) # {}
  BY <1>2 DEF LeaderOf
<1> QED
  BY <1>1, <1>2

\* Of the keys a runner does not work for, before or after its step, and whose
\* flight object keeps its marks, nothing is seen to change.
LEMMA OtherKeysSame ==
    ASSUME NEW r \in Runners, NEW j \in Keys,
           \A s \in Runners \ {r} : pc'[s] = pc[s] /\ key'[s] = key[s],
           pc[r] \in InGate => key[r] # j, pc'[r] \in InGate => key'[r] # j,
           flights'[j] = flights[j],
           flights'[j] \in running' <=> flights[j] \in running,
           flights'[j] \in pending' <=> flights[j] \in pending
    PROVE  Same(j)
<1>1. AskingOf(j)' = AskingOf(j)
  BY DEF AskingOf, InGate
<1>2. Bodies(j)' = Bodies(j)
  BY DEF Bodies, At, InGate
<1>3. AgainOf(j)' = AgainOf(j)
  BY DEF AgainOf
<1> QED
  BY <1>1, <1>2, <1>3, SameLeader DEF Same

\* Every step of the queue is a step of the gate, or changes nothing there.
LEMMA GateRefines ==
    ASSUME ~Stops, "cancel" \notin Ops, GateInv, HeldIsCurrent, [Next]_vars
    PROVE  [Gate!Next]_(Gate!vars)
<1>1. GateInv' /\ HeldIsCurrent' /\ GateStep /\ TypeInv
  BY GateNext, CurrentNext, NextIsGateStep DEF GateInv
<1>2. /\ flights \in [Keys -> Flights \cup {None}] /\ running \subseteq Flights
      /\ pending \subseteq running /\ None \notin Flights
      /\ None \notin Runners /\ Stopper \notin Runners /\ Stopper # None
  BY <1>1, NoneIsNone, ProcsDisjoint
     DEF GateInv, TypeInv, TypeOK, MapsOK, OneLeaderPerFlight, Procs
<1>3. ASSUME NEW r \in Runners, pc[r] \in {"slot", "body"}
      PROVE  /\ key[r] \in Keys /\ held[r] = flights[key[r]] /\ held[r] \in Flights
             /\ \A j \in Keys \ {key[r]} : flights[j] # held[r]
  BY <1>1, <1>2, <1>3, HeldInGate DEF InGate, HeldIsCurrent, GateInv, FlightKeys
<1>4. CASE Aside /\ (FlightsKept \/ FlightsLost)
  <2>1. UNCHANGED <<flights, running, pending>>
    BY <1>4 DEF Aside, FlightsKept, FlightsLost
  <2>2. ASSUME NEW k \in Keys PROVE Same(k)
    <3>1. AskingOf(k)' = AskingOf(k)
      BY <1>4 DEF Aside, AskingOf, InGate
    <3>2. Bodies(k)' = Bodies(k)
      BY <1>4 DEF Aside, Bodies, At, InGate
    <3> QED
      BY <2>1, <3>1, <3>2, SameLeader DEF Same, AgainOf
  <2> QED
    BY <2>2, GateStutters
<1>5. ASSUME NEW r \in Runners, Enters(r) PROVE Gate!Next
  <2>0. PICK k \in Keys : k = key'[r]
    BY <1>5 DEF Enters
  <2>1. /\ k \in Keys /\ pc[r] \notin InGate /\ pc'[r] = "lookup"
        /\ UNCHANGED <<flights, running, pending>>
        /\ \A s \in Runners \ {r} : pc'[s] = pc[s] /\ key'[s] = key[s]
    BY <1>5 DEF Enters
  <2>2. \A j \in Keys \ {k} : Same(j)
    BY <2>0, <2>1, OtherKeysSame
  <2>3. \A j \in Keys : r \notin AskingOf(j) /\ r \notin Bodies(j)
    BY <2>0, <2>1 DEF AskingOf, Bodies, At, InGate
  <2>4. \A j \in Keys : LeaderOf(j) # r
    BY <2>3, <1>1, <1>2, LeaderIs
  <2>5. AskingOf(k)' = AskingOf(k) \cup {r}
    BY <2>0, <2>1 DEF AskingOf, InGate
  <2>6. Bodies(k)' = Bodies(k)
    BY <2>0, <2>1 DEF Bodies, At, InGate
  <2>7. LeaderOf(k)' = LeaderOf(k) /\ AgainOf(k)' = AgainOf(k)
    BY <2>1, <2>6, SameLeader DEF AgainOf
  <2> QED
    BY <2>1, <2>2, <2>3, <2>4, <2>5, <2>7, GateAsks
<1>6. ASSUME NEW r \in Runners, Lookup(r) PROVE [Gate!Next]_(Gate!vars)
  <2>1. /\ pc[r] = "lookup" /\ pc'[r] = "slot" /\ key' = key /\ key[r] \in Keys
        /\ \A s \in Runners \ {r} : pc'[s] = pc[s]
    BY <1>1, <1>6, GotoFrame, HeldInGate DEF Lookup, At, InGate
  <2>2. \A k \in Keys : AskingOf(k)' = AskingOf(k) /\ Bodies(k)' = Bodies(k)
    BY <2>1 DEF AskingOf, Bodies, At
  <2>3. CASE FindFlight(r)
    <3>1. UNCHANGED <<flights, running, pending>>
      BY <2>3 DEF FindFlight
    <3> QED
      BY <3>1, <2>2, SameLeader, GateStutters DEF Same, AgainOf
  <2>4. ASSUME NEW f \in Flights, NewFlight(r, f) PROVE [Gate!Next]_(Gate!vars)
    <3>1. /\ flights[key[r]] = None /\ flights'[key[r]] = f
          /\ \A j \in Keys : flights[j] # f
          /\ \A j \in Keys \ {key[r]} : flights'[j] = flights[j]
          /\ running' = running \ {f} /\ pending' = pending \ {f}
      BY <2>1, <2>4, <1>2 DEF NewFlight, FreeFlight
    <3>2. \A j \in Keys : /\ flights'[j] \in running' <=> flights[j] \in running
                          /\ flights'[j] \in pending' <=> flights[j] \in pending
      BY <3>1, <1>2
    <3> QED
      BY <3>2, <2>2, SameLeader, GateStutters DEF Same, AgainOf
  <2> QED
    BY <1>6, <2>3, <2>4 DEF Lookup
<1>7. ASSUME NEW r \in Runners, Join(r) PROVE Gate!Next
  <2>0. PICK k \in Keys : k = key[r]
    BY <1>3, <1>7 DEF Join, At
  <2>1. /\ pc[r] = "slot" /\ held[r] \in running /\ pending' = pending \cup {held[r]}
        /\ UNCHANGED <<flights, running>> /\ pc'[r] \notin InGate
        /\ \A s \in Runners \ {r} : pc'[s] = pc[s] /\ key'[s] = key[s]
    BY <1>1, <1>7, LeaveFrame DEF Join, At
  <2>2. k \in Keys /\ held[r] = flights[k] /\ \A j \in Keys \ {k} : flights[j] # held[r]
    BY <2>0, <2>1, <1>3
  <2>3. \A j \in Keys \ {k} : Same(j)
    BY <2>0, <2>1, <2>2, OtherKeysSame
  <2>4. r \in AskingOf(k) /\ AskingOf(k)' = AskingOf(k) \ {r}
    BY <2>0, <2>1 DEF AskingOf, InGate
  <2>5. Bodies(k)' = Bodies(k)
    BY <2>0, <2>1 DEF Bodies, At, InGate
  <2>6. LeaderOf(k)' = LeaderOf(k) /\ AgainOf(k)' = TRUE
    BY <2>1, <2>2, <2>5, SameLeader DEF AgainOf
  <2>7. LeaderOf(k) # None
    <3>1. CASE Bodies(k) = {}
      BY <3>1, <2>1, <2>2, <1>2, NoBodyLeader
    <3>2. CASE Bodies(k) # {}
      BY <3>2, <2>2, <1>1, <1>2, LeaderIs DEF Bodies
    <3> QED
      BY <3>1, <3>2
  <2> QED
    BY <2>2, <2>3, <2>4, <2>6, <2>7, GateJoins
<1>8. ASSUME NEW r \in Runners, Lead(r) PROVE Gate!Next
  <2>0. PICK k \in Keys : k = key[r]
    BY <1>3, <1>8 DEF Lead, At
  <2>1. /\ pc[r] = "slot" /\ pc'[r] = "body" /\ held[r] \notin running
        /\ running' = running \cup {held[r]} /\ pending' = pending \ {held[r]}
        /\ UNCHANGED <<flights, key, held>>
        /\ \A s \in Runners \ {r} : pc'[s] = pc[s] /\ key'[s] = key[s]
    BY <1>1, <1>8, GotoFrame DEF Lead, At, runs
  <2>2. k \in Keys /\ held[r] = flights[k] /\ \A j \in Keys \ {k} : flights[j] # held[r]
    BY <2>0, <2>1, <1>3
  <2>3. \A j \in Keys \ {k} : Same(j)
    BY <2>0, <2>1, <2>2, OtherKeysSame
  <2>4. r \in AskingOf(k) /\ AskingOf(k)' = AskingOf(k) \ {r}
    BY <2>0, <2>1 DEF AskingOf, InGate
  <2>5. r \in Bodies(k)'
    BY <2>0, <2>1 DEF Bodies, At
  <2>6. Bodies(k) = {}
    BY <2>1, <2>2, <1>1, LeaderInBody
  <2>7. LeaderOf(k) = None
    BY <2>1, <2>2, <2>6, NoBodyLeader
  <2>8. LeaderOf(k)' = r
    <3>1. (GateInv /\ HeldIsCurrent /\ r \in Bodies(k) => LeaderOf(k) = r)'
      BY <2>2, LeaderInBody, PTL
    <3> QED
      BY <3>1, <2>5, <1>1
  <2>9. AgainOf(k)' = AgainOf(k)
    BY <2>1, <2>2, <1>2 DEF AgainOf
  <2> QED
    BY <2>2, <2>3, <2>4, <2>7, <2>8, <2>9, GateLeads
<1>9. ASSUME NEW r \in Runners, Rerun(r) PROVE Gate!Next
  <2>0. PICK k \in Keys : k = key[r]
    BY <1>3, <1>9 DEF Rerun, At
  <2>1. /\ pc[r] = "body" /\ held[r] \in pending /\ pending' = pending \ {held[r]}
        /\ UNCHANGED <<flights, running, key, held, pc>>
    BY <1>9 DEF Rerun, At, runs
  <2>2. k \in Keys /\ held[r] = flights[k] /\ \A j \in Keys \ {k} : flights[j] # held[r]
    BY <2>0, <2>1, <1>3
  <2>3. \A j \in Keys : AskingOf(j)' = AskingOf(j) /\ Bodies(j)' = Bodies(j)
    BY <2>0, <2>1 DEF AskingOf, Bodies, At
  <2>4. \A j \in Keys : LeaderOf(j)' = LeaderOf(j)
    BY <2>0, <2>1, <2>3, SameLeader
  <2>5. \A j \in Keys \ {k} : Same(j)
    BY <2>0, <2>1, <2>2, <2>3, <2>4 DEF Same, AgainOf
  <2>6. r \in Bodies(k)
    BY <2>0, <2>1 DEF Bodies, At
  <2>7. LeaderOf(k) \in Runners
    BY <2>2, <2>6, <1>1, LeaderInBody
  <2>8. AgainOf(k) /\ AgainOf(k)' = FALSE
    BY <2>1, <2>2 DEF AgainOf
  <2> QED
    BY <2>2, <2>3, <2>4, <2>5, <2>7, <2>8, GateReruns
<1>10. ASSUME NEW r \in Runners, StepDown(r) PROVE Gate!Next
  <2>0. PICK k \in Keys : k = key[r]
    BY <1>3, <1>10 DEF StepDown, At
  <2>1. /\ pc[r] = "body" /\ held[r] \notin pending /\ running' = running \ {held[r]}
        /\ UNCHANGED <<flights, pending>> /\ pc'[r] \notin InGate
        /\ \A s \in Runners \ {r} : pc'[s] = pc[s] /\ key'[s] = key[s]
    BY <1>1, <1>10, LeaveFrame DEF StepDown, At
  <2>2. k \in Keys /\ held[r] = flights[k] /\ \A j \in Keys \ {k} : flights[j] # held[r]
    BY <2>0, <2>1, <1>3
  <2>3. \A j \in Keys \ {k} : Same(j)
    BY <2>0, <2>1, <2>2, OtherKeysSame
  <2>4. r \in Bodies(k) /\ Bodies(k)' = Bodies(k) \ {r}
    BY <2>0, <2>1 DEF Bodies, At, InGate
  <2>5. AskingOf(k)' = AskingOf(k)
    BY <2>0, <2>1 DEF AskingOf, InGate
  <2>6. LeaderOf(k) = r /\ Bodies(k) = {r}
    BY <2>2, <2>4, <1>1, LeaderInBody, CurrentIsSingle DEF SingleFlight
  <2>7. LeaderOf(k)' = None
    <3>1. Bodies(k)' = {} /\ flights'[k] \notin running'
      BY <2>1, <2>2, <2>4, <2>6
    <3> QED
      BY <3>1 DEF LeaderOf
  <2>8. ~AgainOf(k) /\ AgainOf(k)' = AgainOf(k)
    BY <2>1, <2>2 DEF AgainOf
  <2> QED
    BY <2>2, <2>3, <2>5, <2>6, <2>7, <2>8, GateStepsDown
<1>11. ASSUME NEW r \in Runners, Abandons(r) PROVE Gate!Next
  <2>0. PICK k \in Keys : k = key[r]
    BY <1>3, <1>11 DEF Abandons, At
  <2>1. /\ pc[r] = "body" /\ pc'[r] \notin InGate
        /\ UNCHANGED <<flights, running, pending>>
        /\ \A s \in Runners \ {r} : pc'[s] = pc[s] /\ key'[s] = key[s]
    BY <1>11 DEF Abandons, InGate
  <2>2. k \in Keys /\ held[r] = flights[k]
    BY <2>0, <2>1, <1>3
  <2>3. \A j \in Keys \ {k} : Same(j)
    BY <2>0, <2>1, <2>2, OtherKeysSame
  <2>4. r \in Bodies(k) /\ Bodies(k)' = Bodies(k) \ {r}
    BY <2>0, <2>1 DEF Bodies, At, InGate
  <2>5. AskingOf(k)' = AskingOf(k)
    BY <2>0, <2>1 DEF AskingOf, InGate
  <2>6. LeaderOf(k) = r /\ Bodies(k) = {r} /\ flights[k] \in running
    BY <2>2, <2>4, <1>1, LeaderInBody, CurrentIsSingle DEF SingleFlight
  <2>7. LeaderOf(k)' = Stopper
    <3>1. Bodies(k)' = {} /\ flights'[k] \in running'
      BY <2>1, <2>4, <2>6
    <3> QED
      BY <3>1 DEF LeaderOf
  <2>8. AgainOf(k)' = AgainOf(k)
    BY <2>1 DEF AgainOf
  <2> QED
    BY <2>2, <2>3, <2>5, <2>6, <2>7, <2>8, GateLosesLeader
<1> QED
  BY <1>1, <1>4, <1>5, <1>6, <1>7, <1>8, <1>9, <1>10, <1>11 DEF GateStep

\* As long as neither cancel nor shutdown drops flight objects, run_coalesced
\* implements FlightGate, for any keys, callers and tickers: the map lookup and
\* the slot lock act as one decision, and no call runs a key whose leader was
\* aborted in its body.
THEOREM GateImplemented ==
    ASSUME ~Stops, "cancel" \notin Ops
    PROVE  Spec => GateSpec
<1>1. Init => GateInv /\ HeldIsCurrent
  BY GateInit DEF Init, HeldIsCurrent
<1>2. GateInv /\ HeldIsCurrent /\ [Next]_vars => (GateInv /\ HeldIsCurrent)'
  BY GateNext, CurrentNext
<1>3. Init => Gate!Init
  <2> SUFFICES ASSUME Init PROVE Gate!Init
    OBVIOUS
  <2>1. \A k \in Keys : AskingOf(k) = {} /\ Bodies(k) = {}
    BY ProcsDisjoint DEF Init, AskingOf, Bodies, At, Procs, Runners
  <2>2. \A k \in Keys : LeaderOf(k) = None
    BY <2>1 DEF Init, LeaderOf
  <2>3. [k \in Keys |-> AgainOf(k)] = [k \in Keys |-> FALSE]
    <3>1. pending = {}
      BY DEF Init
    <3>2. \A k \in Keys : AgainOf(k) = FALSE
      BY <3>1 DEF AgainOf
    <3> QED
      BY <3>2, Zenon
  <2>4. [k \in Keys |-> LeaderOf(k)] = [k \in Keys |-> None]
    BY <2>2, Zenon
  <2>5. [k \in Keys |-> AskingOf(k)] = [k \in Keys |-> {}]
    BY <2>1, Zenon
  <2> QED
    BY <2>3, <2>4, <2>5, Zenon DEF Gate!Init
<1>4. GateInv /\ HeldIsCurrent /\ [Next]_vars => [Gate!Next]_(Gate!vars)
  BY GateRefines
<1> QED
  BY <1>1, <1>2, <1>3, <1>4, PTL DEF Spec, GateSpec, Gate!Spec

-----------------------------------------------------------------------------
(* A resumed key keeps its cadence.                                        *)

\* What a resume computes from the stamp never lands inside the window: not in
\* the call, not in the delay of the task it spawns, not in the task's first tick.
CadenceInv ==
    /\ \A c \in Clients :
          call[c].since # Never => now + call[c].delay - call[c].since >= Interval
    /\ \A t \in Tickers :
          since[t] # Never =>
              \/ pc[t] = "born" /\ now + due[t] - since[t] >= Interval
              \/ pc[t] = "tick" /\ due[t] - since[t] >= Interval

LEMMA CadenceInit == Init => CadenceInv
  BY DEF Init, CadenceInv, NoCall

LEMMA ClockTypes ==
    ASSUME TypeInv
    PROVE  /\ now \in Int /\ Interval \in Int
           /\ \A k \in Keys : lastRun[k] \in Int
           /\ \A c \in Clients : call[c].delay \in Int /\ call[c].since \in Int
           /\ \A t \in Tickers : due[t] \in Int /\ since[t] \in Int
  BY ParamTypes DEF TypeInv, TypeOK, MapsOK, LocalsOK, Times, Never

\* A step that leaves the calls and the timers alone, while the clock may
\* advance and tasks that have ticked may move on.
LEMMA CadenceFrame ==
    ASSUME TypeInv, CadenceInv, UNCHANGED <<call, due, since>>,
           now' \in Int, now' >= now,
           \A t \in Tickers : pc[t] \in {"born", "tick"} => pc'[t] = pc[t]
    PROVE  CadenceInv'
<1>1. ASSUME NEW c \in Clients, call[c].since # Never
      PROVE  now' + call[c].delay - call[c].since >= Interval
  BY <1>1, ClockTypes DEF CadenceInv
<1>2. ASSUME NEW t \in Tickers, since[t] # Never
      PROVE  \/ pc'[t] = "born" /\ now' + due[t] - since[t] >= Interval
             \/ pc'[t] = "tick" /\ due[t] - since[t] >= Interval
  BY <1>2, ClockTypes DEF CadenceInv
<1> QED
  BY <1>1, <1>2 DEF CadenceInv

\* A step of a client that spawns no task: its call ends, begins, keeps its
\* times, or reads what is left of the interval.
LEMMA CadenceClient ==
    ASSUME TypeInv, CadenceInv, NEW c \in Clients, UNCHANGED <<due, since, now>>,
           \A p \in Procs \ {c} : pc'[p] = pc[p],
           \A d \in Clients \ {c} : call'[d] = call[d],
           \/ call'[c].since = Never
           \/ call'[c].since = call[c].since /\ call'[c].delay = call[c].delay
           \/ \E k \in Keys :
                 call'[c].since = lastRun[k] /\ call'[c].delay = Remaining(k)
    PROVE  CadenceInv'
<1>1. \A d \in Clients :
         call'[d].since # Never => now + call'[d].delay - call'[d].since >= Interval
  <2>1. ASSUME NEW k \in Keys, lastRun[k] # Never
        PROVE  now + Remaining(k) - lastRun[k] >= Interval
    BY <2>1, ClockTypes DEF Remaining
  <2> QED
    BY <2>1 DEF CadenceInv
<1>2. \A t \in Tickers : pc'[t] = pc[t]
  BY ProcsDisjoint DEF Procs, Runners
<1> QED
  BY <1>1, <1>2 DEF CadenceInv

LEMMA CadenceNext == TypeInv /\ CadenceInv /\ [Next]_vars => CadenceInv'
<1> SUFFICES ASSUME TypeInv, CadenceInv, [Next]_vars PROVE CadenceInv'
  OBVIOUS
<1> USE ProcsDisjoint DEF maps, gate, timers, runs
<1>1. ASSUME NEW c \in Clients, ClientStep(c) PROVE CadenceInv'
  <2>1. ASSUME NEW t \in Tickers, Spawn(c, t) PROVE CadenceInv'
    <3>1. /\ pc[t] = "dead" /\ pc'[t] = "born" /\ now' = now
          /\ due'[t] = call[c].delay /\ since'[t] = call[c].since
          /\ \A u \in Tickers \ {t} :
                due'[u] = due[u] /\ since'[u] = since[u] /\ pc'[u] = pc[u]
          /\ \A d \in Clients :
                call'[d].since = call[d].since /\ call'[d].delay = call[d].delay
      BY <2>1
      DEF Spawn, FreeTicker, At, TypeInv, TypeOK, PcOK, LocalsOK, Procs, Runners
    <3> QED
      BY <3>1 DEF CadenceInv
  <2>2. CASE ~\E t \in Tickers : Spawn(c, t)
    <3>1. UNCHANGED <<due, since, now>>
      BY <1>1, <2>2
      DEF ClientStep, Schedule, Resume, Pause, Cancel, Begin, ReadElapsed, Arm,
          RemoveJob, RemoveHandle, InsertJob, InsertHandle, ForgetLastRun,
          DropIdleFlight
    <3>2. /\ \A p \in Procs \ {c} : pc'[p] = pc[p]
          /\ \A d \in Clients \ {c} : call'[d] = call[d]
      BY <1>1, <2>2
      DEF ClientStep, Schedule, Resume, Pause, Cancel, Begin, ReadElapsed, Arm,
          RemoveJob, RemoveHandle, InsertJob, InsertHandle, ForgetLastRun,
          DropIdleFlight, Return, Goto, TypeInv, TypeOK, PcOK, LocalsOK
    <3>3. \/ call'[c].since = Never
          \/ call'[c].since = call[c].since /\ call'[c].delay = call[c].delay
          \/ \E k \in Keys :
                call'[c].since = lastRun[k] /\ call'[c].delay = Remaining(k)
      <4> USE DEF TypeInv, TypeOK, LocalsOK
      <4>1. ASSUME NEW k \in Keys,
                   Schedule(c, k) \/ Resume(c, k) \/ Pause(c, k) \/ Cancel(c, k)
            PROVE  call'[c].since = Never
        BY <4>1 DEF Schedule, Resume, Pause, Cancel, Begin
      <4>2. CASE ReadElapsed(c)
        <5>1. call[c].key \in Keys
          BY <4>2, ParamTypes DEF ReadElapsed, At, WellFormed
        <5> QED
          BY <4>2, <5>1 DEF ReadElapsed
      <4>3. CASE \/ Arm(c) \/ RemoveJob(c) \/ RemoveHandle(c) \/ InsertJob(c)
                 \/ InsertHandle(c) \/ ForgetLastRun(c) \/ DropIdleFlight(c)
        <5>1. call' = call \/ call'[c] = NoCall
          BY <4>3
          DEF Arm, RemoveJob, RemoveHandle, InsertJob, InsertHandle, ForgetLastRun,
              DropIdleFlight, Return
        <5> QED
          BY <5>1 DEF NoCall
      <4> QED
        BY <1>1, <2>2, <4>1, <4>2, <4>3 DEF ClientStep
    <3> QED
      BY <3>1, <3>2, <3>3, CadenceClient
  <2> QED
    BY <2>1, <2>2
<1>2. ASSUME NEW t \in Tickers, Start(t) \/ Tick(t) \/ Die(t) PROVE CadenceInv'
  <2>1. /\ UNCHANGED <<call, now>>
        /\ \A u \in Tickers \ {t} :
              due'[u] = due[u] /\ since'[u] = since[u] /\ pc'[u] = pc[u]
    BY <1>2
    DEF Start, Tick, TickPlain, TickGate, Ticks, Die, Goto, TypeInv, TypeOK, PcOK,
        LocalsOK, Procs, Runners
  <2>2. \/ since'[t] = Never
        \/ /\ pc[t] = "born" /\ pc'[t] = "tick" /\ since'[t] = since[t]
           /\ due'[t] = now + due[t]
    BY <1>2
    DEF Start, Tick, TickPlain, TickGate, Ticks, Die, Goto, At, TypeInv, TypeOK,
        PcOK, LocalsOK, Procs, Runners
  <2>3. \A c \in Clients :
           call'[c].since # Never => now' + call'[c].delay - call'[c].since >= Interval
    BY <2>1 DEF CadenceInv
  <2>4. ASSUME NEW u \in Tickers, since'[u] # Never
        PROVE  \/ pc'[u] = "born" /\ now' + due'[u] - since'[u] >= Interval
               \/ pc'[u] = "tick" /\ due'[u] - since'[u] >= Interval
    <3>1. CASE u = t
      BY <2>2, <2>4, <3>1, ClockTypes DEF CadenceInv
    <3>2. CASE u # t
      BY <2>1, <2>4, <3>2 DEF CadenceInv
    <3> QED
      BY <3>1, <3>2
  <2> QED
    BY <2>3, <2>4 DEF CadenceInv
<1>3. ASSUME NEW r \in Runners,
             \/ r \in Callers /\ \E k \in Keys : Request(r, k)
             \/ RunStep(r)
             \/ r \in Tickers /\ (PlainBody(r) \/ Stamp(r))
      PROVE  CadenceInv'
  <2>1. UNCHANGED <<call, due, since, now>>
    BY <1>3
    DEF Request, RunStep, Lookup, Join, Lead, Rerun, StepDown, PlainBody, Stamp
  <2>2. /\ \A p \in Procs \ {r} : pc'[p] = pc[p]
        /\ pc[r] \notin {"born", "tick"}
    BY <1>3
    DEF Request, RunStep, Lookup, Join, Lead, Rerun, StepDown, Leave, PlainBody,
        Stamp, Goto, At, TypeInv, TypeOK, PcOK
  <2> QED
    BY <2>1, <2>2, CadenceFrame, ClockTypes DEF Procs, Runners
<1>4. CASE StopStep
  <2>1. UNCHANGED <<call, due, since, now>>
    BY <1>4
    DEF StopStep, SetShutDown, DrainJobs, AbortDrained, DrainHandles, AwaitHandles,
        ClearFlights, ClearStamps
  <2>2. \A p \in Procs \ {Stopper} : pc'[p] = pc[p]
    BY <1>4
    DEF StopStep, SetShutDown, DrainJobs, AbortDrained, DrainHandles, AwaitHandles,
        ClearFlights, ClearStamps, Goto, TypeInv, TypeOK, PcOK
  <2> QED
    BY <2>1, <2>2, CadenceFrame, ClockTypes DEF Procs, Runners
<1>5. CASE Advance \/ UNCHANGED vars
  <2>1. /\ UNCHANGED <<call, due, since, pc>>
        /\ now' = now \/ now' = now + 1
    BY <1>5 DEF Advance, vars
  <2> QED
    BY <2>1, CadenceFrame, ClockTypes
<1> QED
  BY <1>1, <1>2, <1>3, <1>4, <1>5 DEF Next, TickerStep, Runners

\* A key resumed inside its refresh window first ticks when the window that
\* began with the stamp it resumed from has passed, whatever pauses, cancels,
\* aborts and other resumes come between.
THEOREM CadenceKept == Spec => ResumeKeepsCadence
<1> DEFINE Kept == \A t \in Tickers :
                      Tick(t) /\ since[t] # Never => now - since[t] >= Interval
<1>1. TypeInv /\ CadenceInv /\ [Next]_vars => [Kept]_vars
  <2> SUFFICES ASSUME TypeInv, CadenceInv, NEW t \in Tickers, Tick(t), since[t] # Never
               PROVE  now - since[t] >= Interval
    OBVIOUS
  <2>1. pc[t] = "tick" /\ due[t] <= now
    BY DEF Tick, TickPlain, TickGate, Ticks, At
  <2> QED
    BY <2>1, ClockTypes DEF CadenceInv
<1> QED
  BY <1>1, TypeInit, TypeNext, CadenceInit, CadenceNext, PTL
     DEF Spec, ResumeKeepsCadence

=============================================================================
