------------------------ MODULE TerminalSessionsProofs ------------------------
(***************************************************************************)
(* Proofs about TerminalSessions, for any sessions, any room in the PTY    *)
(* and any amount of input and output, on either platform.                 *)
(***************************************************************************)
EXTENDS TerminalSessions, TLAPS

-----------------------------------------------------------------------------
(* Type correctness.  The channel's length is typed because what is in it  *)
(* was sent.                                                               *)

Queued == \A s \in Sessions : inq[s] <= typed[s]

Types == TypeOK /\ Queued

LEMMA TypeInit == Init => Types
BY TerminalConstants DEF Init, Types, TypeOK, Queued

LEMMA TypeChild ==
    ASSUME Types, NEW s \in Sessions,
           ChildInput(s) \/ ChildPrints(s) \/ ChildExits(s)
    PROVE  Types'
<1> USE DEF Types, TypeOK, Queued, output, input, lifecycle, manager, stops
<1>1. CASE ChildInput(s)
  BY <1>1, TerminalConstants DEF ChildInput
<1>2. CASE ChildPrints(s)
  BY <1>2, TerminalConstants DEF ChildPrints
<1>3. CASE ChildExits(s)
  BY <1>3 DEF ChildExits
<1> QED
  BY <1>1, <1>2, <1>3

\* A chunk more in the channel, or none.
LEMMA TypeSent ==
    ASSUME Types, NEW s \in Sessions, Sent(s) \/ UNCHANGED <<typed, inq>>
    PROVE  /\ typed' \in [Sessions -> 0 .. MaxIn]
           /\ inq' \in [Sessions -> 0 .. MaxIn]
           /\ Queued'
BY TerminalConstants DEF Types, TypeOK, Queued, Sent

LEMMA TypeOpen ==
    ASSUME Types, NEW s \in Sessions,
           Open(s) \/ Register(s) \/ SendInput(s)
    PROVE  Types'
<1> USE DEF output, input, lifecycle, manager, stops
<1>1. CASE Open(s)
  <2>1. CASE UNCHANGED <<typed, inq>>
    BY <1>1, <2>1 DEF Open, Types, TypeOK, Queued
  <2>2. CASE /\ MaxIn > 0
             /\ typed' = [typed EXCEPT ![s] = 1]
             /\ inq' = [inq EXCEPT ![s] = 1]
    BY <1>1, <2>2, TerminalConstants DEF Open, Types, TypeOK, Queued
  <2> QED
    BY <1>1, <2>1, <2>2 DEF Open
<1>2. CASE Register(s)
  BY <1>2 DEF Register, Types, TypeOK, Queued
<1>3. CASE SendInput(s)
  <2>1. Sent(s)
    BY <1>3 DEF SendInput
  <2> QED
    BY <1>3, <2>1, TypeSent DEF SendInput, Types, TypeOK
<1> QED
  BY <1>1, <1>2, <1>3

LEMMA TypeThreads ==
    ASSUME Types, NEW s \in Sessions, Threads(s)
    PROVE  Types'
<1> USE DEF Types, TypeOK, Queued, output, input, lifecycle, manager, stops
<1>1. CASE WriterRecv(s)
  BY <1>1, TerminalConstants DEF WriterRecv
<1>2. CASE WriterWrite(s)
  BY <1>2, TerminalConstants DEF WriterWrite
<1>3. CASE ReaderRead(s)
  BY <1>3, TerminalConstants DEF ReaderRead
<1>4. CASE ReaderEof(s)
  BY <1>4 DEF ReaderEof
<1> QED
  BY <1>1, <1>2, <1>3, <1>4 DEF Threads

LEMMA TypePump ==
    ASSUME Types, NEW s \in Sessions, Pump(s)
    PROVE  Types'
<1> USE DEF PumpAt, output, input, lifecycle, manager, stops
<1>1. CASE PumpTop(s)
  BY <1>1 DEF PumpTop, Types, TypeOK, Queued
<1>2. CASE PumpFeed(s)
  <2>1. fed' \in [Sessions -> 0 .. MaxOut]
    BY <1>2, TerminalConstants DEF PumpFeed, Types, TypeOK
  <2>2. Sent(s) \/ UNCHANGED <<typed, inq>>
    BY <1>2 DEF PumpFeed
  <2> QED
    BY <1>2, <2>1, <2>2, TypeSent DEF PumpFeed, Types, TypeOK
<1>3. CASE PumpEof(s)
  BY <1>3 DEF PumpEof, Types, TypeOK, Queued
<1>4. CASE PumpTick(s)
  BY <1>4 DEF PumpTick, Types, TypeOK, Queued
<1>5. CASE PumpExited(s)
  BY <1>5 DEF PumpExited, Types, TypeOK, Queued
<1>6. CASE PumpDrain(s)
  BY <1>6 DEF PumpDrain, Types, TypeOK, Queued
<1> QED
  BY <1>1, <1>2, <1>3, <1>4, <1>5, <1>6 DEF Pump

LEMMA TypeClosing ==
    ASSUME Types, NEW s \in Sessions, Closing(s) \/ Close(s) \/ CloseNext(s)
    PROVE  Types'
<1> USE DEF Types, TypeOK, Queued, CloseAt, output, input, lifecycle, manager,
            stops
<1>1. CASE CloseDropWriter(s)
  BY <1>1 DEF CloseDropWriter
<1>2. CASE CloseJoinWriter(s)
  BY <1>2 DEF CloseJoinWriter
<1>3. CASE CloseJoinReader(s)
  BY <1>3 DEF CloseJoinReader
<1>4. CASE CloseChild(s)
  BY <1>4 DEF CloseChild
<1>5. CASE CloseJoinPump(s)
  BY <1>5 DEF CloseJoinPump
<1>6. CASE CloseLast(s)
  BY <1>6 DEF CloseLast
<1>7. CASE Close(s)
  BY <1>7 DEF Close, Take
<1>8. CASE CloseNext(s)
  BY <1>8 DEF CloseNext, Take
<1> QED
  BY <1>1, <1>2, <1>3, <1>4, <1>5, <1>6, <1>7, <1>8 DEF Closing

LEMMA TypeStop ==
    ASSUME Types, CloseAll \/ CloseReturns \/ CloseAllReturns
    PROVE  Types'
BY DEF Types, TypeOK, Queued, CloseAll, CloseReturns, CloseAllReturns, output,
       input, lifecycle, manager, stops

LEMMA TypeStep == Types /\ [Next]_vars => Types'
<1> SUFFICES ASSUME Types, [Next]_vars PROVE Types'
  OBVIOUS
<1>1. CASE UNCHANGED vars
  BY <1>1 DEF vars, Types, TypeOK, Queued
<1>2. CASE Next
  BY <1>2, TypeChild, TypeOpen, TypeThreads, TypePump, TypeClosing, TypeStop
  DEF Next, Stop
<1> QED
  BY <1>1, <1>2

\* Every counter of a session stays within what its child printed and its
\* user typed, and the PTY within its room.
THEOREM Typed == Spec => []TypeOK
<1>1. Types => TypeOK
  BY DEF Types
<1> QED
  BY TypeInit, TypeStep, <1>1, PTL DEF Spec

-----------------------------------------------------------------------------
(* The invariant behind EofShowsAll and ClosedIsLast.                      *)

\* A session that was not opened has nothing that runs.
Fresh ==
    \A s \in Sessions :
        child[s] = "none" =>
            /\ reader[s] = "none" /\ pump[s] = "none" /\ state[s] = "none"
            /\ closer[s] = "idle"
            /\ s \notin registered
            /\ made[s] = 0

\* The emulator is behind the reader, and the reader behind the child.
Flow ==
    \A s \in Sessions : fed[s] <= got[s] /\ got[s] <= made[s]

\* The reader ends at the end of the PTY, or after the pump.
ReaderEnds ==
    \A s \in Sessions :
        reader[s] = "done" =>
            pump[s] = "done" \/ (child[s] = "dead" /\ got[s] = made[s])

\* A pump that ends by itself in a running session met the end of the PTY:
\* nobody prints, reads or feeds any more.
PumpEnds ==
    \A s \in Sessions :
        /\ pump[s] = "exited" => state[s] # "Running"
        /\ pump[s] = "done" /\ state[s] = "Running" /\ s \notin shutting =>
            /\ child[s] = "dead" /\ reader[s] = "done"
            /\ fed[s] = made[s]

\* A close has announced itself, its state is the last thing it writes, and
\* one that was patient saw the end of the pump before that.
CloseOrder ==
    \A s \in Sessions :
        /\ closer[s] # "idle" => s \in shutting
        /\ state[s] = "Closed" => closer[s] = "done"
        /\ closer[s] \in {"last", "done"} /\ s \notin impatient =>
            pump[s] = "done"

SessionInv == Fresh /\ Flow /\ ReaderEnds /\ PumpEnds /\ CloseOrder

LEMMA SessionInit == Init => SessionInv
BY DEF Init, SessionInv, Fresh, Flow, ReaderEnds, PumpEnds, CloseOrder

LEMMA InvChild ==
    ASSUME Types, SessionInv, NEW s \in Sessions,
           ChildInput(s) \/ ChildPrints(s) \/ ChildExits(s)
    PROVE  SessionInv'
<1> USE DEF Types, TypeOK, SessionInv, Fresh, Flow, ReaderEnds, PumpEnds,
            CloseOrder, output, input, lifecycle, manager, stops
<1>1. CASE ChildInput(s)
  BY <1>1 DEF ChildInput
<1>2. CASE ChildPrints(s)
  BY <1>2, TerminalConstants DEF ChildPrints
<1>3. CASE ChildExits(s)
  BY <1>3 DEF ChildExits
<1> QED
  BY <1>1, <1>2, <1>3

LEMMA InvOpen ==
    ASSUME Types, SessionInv, NEW s \in Sessions,
           Open(s) \/ Register(s) \/ SendInput(s)
    PROVE  SessionInv'
<1> USE DEF Types, TypeOK, SessionInv, Fresh, Flow, ReaderEnds, PumpEnds,
            CloseOrder, output, input, lifecycle, manager, stops
<1>1. CASE Open(s)
  BY <1>1 DEF Open
<1>2. CASE Register(s)
  BY <1>2 DEF Register
<1>3. CASE SendInput(s)
  BY <1>3 DEF SendInput, Sent
<1> QED
  BY <1>1, <1>2, <1>3

LEMMA InvThreads ==
    ASSUME Types, SessionInv, NEW s \in Sessions, Threads(s)
    PROVE  SessionInv'
<1> USE DEF Types, TypeOK, SessionInv, Fresh, Flow, ReaderEnds, PumpEnds,
            CloseOrder, output, input, lifecycle, manager, stops
<1>1. CASE WriterRecv(s)
  BY <1>1 DEF WriterRecv
<1>2. CASE WriterWrite(s)
  BY <1>2 DEF WriterWrite
<1>3. CASE ReaderRead(s)
  BY <1>3, TerminalConstants DEF ReaderRead
<1>4. CASE ReaderEof(s)
  BY <1>4 DEF ReaderEof
<1> QED
  BY <1>1, <1>2, <1>3, <1>4 DEF Threads

LEMMA InvPump ==
    ASSUME Types, SessionInv, NEW s \in Sessions, Pump(s)
    PROVE  SessionInv'
<1> USE DEF Types, TypeOK, SessionInv, Fresh, Flow, ReaderEnds, PumpEnds,
            CloseOrder, PumpAt, output, input, lifecycle, manager, stops
<1>1. CASE PumpTop(s)
  BY <1>1 DEF PumpTop
<1>2. CASE PumpFeed(s)
  BY <1>2, TerminalConstants DEF PumpFeed, Sent
<1>3. CASE PumpEof(s)
  BY <1>3 DEF PumpEof
<1>4. CASE PumpTick(s)
  BY <1>4 DEF PumpTick
<1>5. CASE PumpExited(s)
  BY <1>5 DEF PumpExited
<1>6. CASE PumpDrain(s)
  BY <1>6 DEF PumpDrain
<1> QED
  BY <1>1, <1>2, <1>3, <1>4, <1>5, <1>6 DEF Pump

LEMMA InvClosing ==
    ASSUME Types, SessionInv, NEW s \in Sessions,
           Closing(s) \/ Close(s) \/ CloseNext(s)
    PROVE  SessionInv'
<1> USE DEF Types, TypeOK, SessionInv, Fresh, Flow, ReaderEnds, PumpEnds,
            CloseOrder, CloseAt, output, input, lifecycle, manager, stops
<1>1. CASE CloseDropWriter(s)
  BY <1>1 DEF CloseDropWriter
<1>2. CASE CloseJoinWriter(s)
  BY <1>2 DEF CloseJoinWriter
<1>3. CASE CloseJoinReader(s)
  BY <1>3 DEF CloseJoinReader
<1>4. CASE CloseChild(s)
  BY <1>4 DEF CloseChild
<1>5. CASE CloseJoinPump(s)
  BY <1>5 DEF CloseJoinPump
<1>6. CASE CloseLast(s)
  BY <1>6 DEF CloseLast
<1>7. CASE Close(s)
  BY <1>7 DEF Close, Take
<1>8. CASE CloseNext(s)
  BY <1>8 DEF CloseNext, Take
<1> QED
  BY <1>1, <1>2, <1>3, <1>4, <1>5, <1>6, <1>7, <1>8 DEF Closing

\* close_all itself changes nothing of a session.
LEMMA InvStop ==
    ASSUME SessionInv, CloseAll \/ CloseReturns \/ CloseAllReturns
    PROVE  SessionInv'
BY DEF SessionInv, Fresh, Flow, ReaderEnds, PumpEnds, CloseOrder, CloseAll,
       CloseReturns, CloseAllReturns, output, input, lifecycle, manager, stops

LEMMA InvStep == Types /\ SessionInv /\ [Next]_vars => SessionInv'
<1> SUFFICES ASSUME Types, SessionInv, [Next]_vars PROVE SessionInv'
  OBVIOUS
<1>1. CASE UNCHANGED vars
  BY <1>1
  DEF vars, SessionInv, Fresh, Flow, ReaderEnds, PumpEnds, CloseOrder
<1>2. CASE Next
  BY <1>2, InvChild, InvOpen, InvThreads, InvPump, InvClosing, InvStop
  DEF Next, Stop
<1> QED
  BY <1>1, <1>2

\* The invariant holds in every behaviour.
LEMMA SessionInvariant == Spec => [](Types /\ SessionInv)
BY TypeInit, TypeStep, SessionInit, InvStep, PTL DEF Spec

\* Reader thread and pump hand every chunk on: when the pump of a running
\* session ends without a close, the emulator was fed all that the child ever
\* printed (spawn_pump's recv ends only with the channel drained).
THEOREM EofComplete == Spec => []EofShowsAll
<1>1. SessionInv => EofShowsAll
  BY DEF SessionInv, PumpEnds, EofShowsAll
<1> QED
  BY SessionInvariant, <1>1, PTL

\* No step writes over Closed: the pump, which also writes the state, had
\* ended when close wrote it, in every session whose close did not time out
\* waiting for the pump.
THEOREM ClosedStays == Spec => ClosedIsLast
<1>1. ASSUME Types, SessionInv, [Next]_vars
      PROVE  [\A s \in Sessions \ impatient :
                state[s] = "Closed" => state'[s] = "Closed"]_vars
  <2> SUFFICES ASSUME Next, NEW r \in Sessions \ impatient, state[r] = "Closed"
               PROVE  state'[r] = "Closed"
    BY <1>1
  <2>1. pump[r] = "done" /\ child[r] # "none"
    BY <1>1 DEF SessionInv, CloseOrder, Fresh
  <2>2. \/ UNCHANGED state
        \/ \E s \in Sessions : Open(s) \/ PumpExited(s) \/ CloseLast(s)
    BY DEF Next, Threads, Pump, Closing, Stop, ChildInput, ChildPrints,
       ChildExits, Register, SendInput, Close, WriterRecv, WriterWrite,
       ReaderRead, ReaderEof, PumpTop, PumpFeed, PumpEof, PumpTick, PumpDrain,
       CloseDropWriter, CloseJoinWriter, CloseJoinReader, CloseChild,
       CloseJoinPump, CloseAll, CloseNext, CloseReturns, CloseAllReturns,
       lifecycle
  <2>3. ASSUME NEW s \in Sessions, Open(s) PROVE state'[r] = "Closed"
    BY <2>1, <2>3, <1>1 DEF Open, Types, TypeOK
  <2>4. ASSUME NEW s \in Sessions, PumpExited(s) PROVE state'[r] = "Closed"
    BY <2>1, <2>4, <1>1 DEF PumpExited, PumpAt, Types, TypeOK
  <2>5. ASSUME NEW s \in Sessions, CloseLast(s) PROVE state'[r] = "Closed"
    BY <2>5, <1>1 DEF CloseLast, Types, TypeOK
  <2> QED
    BY <2>2, <2>3, <2>4, <2>5
<1> QED
  BY SessionInvariant, <1>1, PTL DEF Spec, ClosedIsLast

-----------------------------------------------------------------------------
(* What a close leaves, and how the end of a child is noticed.             *)

\* Each step of close leaves behind it what it waited for or ended.
CloseGone ==
    \A s \in Sessions :
        /\ s \in shutting => closer[s] # "idle" /\ s \notin registered
        /\ closer[s] \in {"writer", "reader", "child", "pump", "last", "done"} =>
            s \notin io
        /\ closer[s] \in {"reader", "child", "pump", "last", "done"} =>
            writer[s] = "done"
        /\ closer[s] \in {"pump", "last", "done"} => child[s] = "dead"
        /\ closer[s] = "done" /\ s \notin impatient => state[s] = "Closed"

\* Where the PTY does not report the end of its child, the reader outlives
\* the pump, and the pump of an open session goes through Exited.
NoticedInv ==
    \A s \in Sessions :
        /\ pump[s] \in {"seen", "exited"} => child[s] = "dead"
        /\ ~eofOnExit /\ reader[s] = "done" => pump[s] = "done"
        /\ s \notin shutting /\ pump[s] = "exited" => state[s] = "Exited"
        /\ ~eofOnExit /\ s \notin shutting /\ pump[s] = "done" =>
            child[s] = "dead" /\ state[s] = "Exited"

EndInv == CloseGone /\ NoticedInv

LEMMA EndInit == Init => EndInv
BY DEF Init, EndInv, CloseGone, NoticedInv

LEMMA EndChild ==
    ASSUME Types, SessionInv, EndInv, NEW s \in Sessions,
           ChildInput(s) \/ ChildPrints(s) \/ ChildExits(s)
    PROVE  EndInv'
<1> USE DEF Types, TypeOK, EndInv, CloseGone, NoticedInv, output, input,
            lifecycle, manager, stops
<1>1. CASE ChildInput(s) \/ ChildPrints(s)
  BY <1>1 DEF ChildInput, ChildPrints
<1>2. CASE ChildExits(s)
  BY <1>2 DEF ChildExits
<1> QED
  BY <1>1, <1>2

LEMMA EndOpen ==
    ASSUME Types, SessionInv, EndInv, NEW s \in Sessions,
           Open(s) \/ Register(s) \/ SendInput(s)
    PROVE  EndInv'
<1> USE DEF Types, TypeOK, EndInv, CloseGone, NoticedInv, output, input,
            lifecycle, manager, stops
<1>1. CASE Open(s)
  <2>1. closer[s] = "idle" /\ s \notin registered
    BY <1>1 DEF Open, SessionInv, Fresh
  <2> QED
    BY <1>1, <2>1 DEF Open
<1>2. CASE Register(s)
  BY <1>2 DEF Register
<1>3. CASE SendInput(s)
  BY <1>3 DEF SendInput
<1> QED
  BY <1>1, <1>2, <1>3

LEMMA EndThreads ==
    ASSUME Types, EndInv, NEW s \in Sessions, Threads(s)
    PROVE  EndInv'
<1> USE DEF Types, TypeOK, EndInv, CloseGone, NoticedInv, output, input,
            lifecycle, manager, stops
<1>1. CASE WriterRecv(s)
  BY <1>1 DEF WriterRecv
<1>2. CASE WriterWrite(s)
  BY <1>2 DEF WriterWrite
<1>3. CASE ReaderRead(s)
  BY <1>3 DEF ReaderRead
<1>4. CASE ReaderEof(s)
  BY <1>4 DEF ReaderEof
<1> QED
  BY <1>1, <1>2, <1>3, <1>4 DEF Threads

\* Once close has seen the pump end, the pump takes no step.
LEMMA EndPump ==
    ASSUME Types, SessionInv, EndInv, NEW s \in Sessions, Pump(s)
    PROVE  EndInv'
<1> USE DEF Types, TypeOK, EndInv, CloseGone, NoticedInv, PumpAt, output, input,
            lifecycle, manager, stops
<1>1. CASE PumpTop(s) \/ PumpFeed(s)
  BY <1>1 DEF PumpTop, PumpFeed
<1>2. CASE PumpEof(s)
  BY <1>2 DEF PumpEof
<1>3. CASE PumpTick(s)
  BY <1>3 DEF PumpTick
<1>4. CASE PumpExited(s)
  <2>1. closer[s] = "done" => s \in impatient
    BY <1>4 DEF PumpExited, SessionInv, CloseOrder
  <2> QED
    BY <1>4, <2>1 DEF PumpExited
<1>5. CASE PumpDrain(s)
  BY <1>5 DEF PumpDrain
<1> QED
  BY <1>1, <1>2, <1>3, <1>4, <1>5 DEF Pump

LEMMA EndClosing ==
    ASSUME Types, SessionInv, EndInv, NEW s \in Sessions,
           Closing(s) \/ Close(s) \/ CloseNext(s)
    PROVE  EndInv'
<1> USE DEF Types, TypeOK, EndInv, CloseGone, NoticedInv, CloseAt, output, input,
            lifecycle, manager, stops
<1>0. closer[s] # "idle" => s \in shutting
  BY DEF SessionInv, CloseOrder
<1>1. CASE CloseDropWriter(s)
  BY <1>1 DEF CloseDropWriter
<1>2. CASE CloseJoinWriter(s)
  BY <1>2 DEF CloseJoinWriter
<1>3. CASE CloseJoinReader(s)
  BY <1>3 DEF CloseJoinReader
<1>4. CASE CloseChild(s)
  BY <1>4 DEF CloseChild
<1>5. CASE CloseJoinPump(s)
  BY <1>0, <1>5 DEF CloseJoinPump
<1>6. CASE CloseLast(s)
  BY <1>0, <1>6 DEF CloseLast
<1>7. CASE Close(s)
  BY <1>7 DEF Close, Take
<1>8. CASE CloseNext(s)
  BY <1>8 DEF CloseNext, Take
<1> QED
  BY <1>1, <1>2, <1>3, <1>4, <1>5, <1>6, <1>7, <1>8 DEF Closing

LEMMA EndStop ==
    ASSUME EndInv, CloseAll \/ CloseReturns \/ CloseAllReturns
    PROVE  EndInv'
BY DEF EndInv, CloseGone, NoticedInv, CloseAll, CloseReturns, CloseAllReturns,
       output, input, lifecycle, manager, stops

LEMMA EndStep == Types /\ SessionInv /\ EndInv /\ [Next]_vars => EndInv'
<1> SUFFICES ASSUME Types, SessionInv, EndInv, [Next]_vars PROVE EndInv'
  OBVIOUS
<1>1. CASE UNCHANGED vars
  BY <1>1 DEF vars, EndInv, CloseGone, NoticedInv
<1>2. CASE Next
  BY <1>2, EndChild, EndOpen, EndThreads, EndPump, EndClosing, EndStop
  DEF Next, Stop
<1> QED
  BY <1>1, <1>2

LEMMA EndInvariant == Spec => [](Types /\ SessionInv /\ EndInv)
BY SessionInvariant, EndInit, EndStep, PTL DEF Spec

\* A close that returns leaves no child, no writer thread and no entry in the
\* manager; and unless it lost patience with the pump, the pump has ended and
\* the state is Closed.  CloseCompletes adds that it returns.
CloseLeavesNothing ==
    \A s \in Sessions : closer[s] = "done" =>
        /\ child[s] = "dead" /\ writer[s] = "done" /\ s \notin io \cup registered
        /\ s \notin impatient => pump[s] = "done" /\ state[s] = "Closed"

THEOREM ClosedLeavesNothing == Spec => []CloseLeavesNothing
<1>1. SessionInv /\ EndInv => CloseLeavesNothing
  BY DEF SessionInv, CloseOrder, EndInv, CloseGone, CloseLeavesNothing
<1> QED
  BY EndInvariant, <1>1, PTL

\* Where the PTY does not report the end of its child, the pump of a session
\* that was not closed never ends in silence: its child is dead and the exit
\* has been published.  ExitNoticed adds that the pump gets that far.
NoSilentEnd ==
    \A s \in Sessions \ shutting : ~eofOnExit /\ pump[s] = "done" =>
        child[s] = "dead" /\ state[s] = "Exited"

THEOREM EndIsPublished == Spec => []NoSilentEnd
<1>1. EndInv => NoSilentEnd
  BY DEF EndInv, NoticedInv, NoSilentEnd
<1> QED
  BY EndInvariant, <1>1, PTL

=============================================================================
