--------------------------- MODULE TerminalSessions ---------------------------
(***************************************************************************)
(* Terminal sessions (crates/orchid-terminal/src/session and pty/io.rs).   *)
(*                                                                         *)
(* A session has a child on a PTY, a writer and a reader thread, and a     *)
(* pump task that feeds what the reader got to the emulator.  Closing is   *)
(* one more task.  Bytes are counted in chunks; a timeout may fire at any  *)
(* moment.                                                                 *)
(***************************************************************************)
EXTENDS Naturals, FiniteSets

CONSTANTS
    Sessions,
    PtyRoom,     \* bound: input chunks the PTY holds
    MaxIn,       \* bound: input chunks of a session
    MaxOut       \* bound: output chunks of a session

ASSUME TerminalConstants ==
    /\ PtyRoom \in Nat \ {0}
    /\ {MaxIn, MaxOut} \subseteq Nat

VARIABLES
    eofOnExit,   \* the PTY reports the end of its child (a Unix PTY does, the
                 \* Windows pseudo console does not): the platform of the build
    child,       \* "none", "live", "dead"
    made,        \* output: printed by the child,
    got,         \*   read from the PTY and sent to the pump,
    fed,         \*   fed to the emulator
    typed,       \* input: sent so far,
    inq,         \*   in the writer's channel,
    held,        \*   in the PTY
    io,          \* sessions whose writer channel is open
    writer,      \* "none", "recv", "write", "done"
    reader,      \* "none", "read", "done"
    pump,        \* "none", "top", "wait", "seen", "exited", "done"
    state,       \* SessionState
    shutting,    \* sessions with shutting_down set
    closer,      \* close: next step
    registered,  \* SessionManager.sessions
    stop,        \* close_all: "idle", "run", "done"
    stopAt,      \* close_all: the session it is closing, if any
    stopping,    \* close_all: ids still to close
    impatient    \* ghost: sessions whose close did not wait for the pump

output == <<made, got, fed>>
input == <<typed, inq, held, io>>
stops == <<stop, stopAt, stopping>>
lifecycle == <<state, shutting, closer>>
manager == <<registered, stops, impatient>>
vars == <<eofOnExit, child, made, got, fed, typed, inq, held, io, writer,
          reader, pump, state, shutting, closer, registered, stop, stopAt,
          stopping, impatient>>

Init ==
    /\ eofOnExit \in BOOLEAN
    /\ child = [s \in Sessions |-> "none"]
    /\ made = [s \in Sessions |-> 0]
    /\ got = [s \in Sessions |-> 0]
    /\ fed = [s \in Sessions |-> 0]
    /\ typed = [s \in Sessions |-> 0]
    /\ inq = [s \in Sessions |-> 0]
    /\ held = [s \in Sessions |-> 0]
    /\ io = {}
    /\ writer = [s \in Sessions |-> "none"]
    /\ reader = [s \in Sessions |-> "none"]
    /\ pump = [s \in Sessions |-> "none"]
    /\ state = [s \in Sessions |-> "none"]
    /\ shutting = {}
    /\ closer = [s \in Sessions |-> "idle"]
    /\ registered = {}
    /\ stop = "idle"
    /\ stopAt = {}
    /\ stopping = {}
    /\ impatient = {}

-----------------------------------------------------------------------------
(* The child (external).                                                   *)

ChildInput(s) ==
    /\ child[s] = "live"
    /\ held[s] > 0
    /\ held' = [held EXCEPT ![s] = @ - 1]
    /\ UNCHANGED <<eofOnExit, child, output, typed, inq, io, writer, reader,
                   pump, lifecycle, manager>>

ChildPrints(s) ==
    /\ child[s] = "live"
    /\ made[s] < MaxOut
    /\ made' = [made EXCEPT ![s] = @ + 1]
    /\ UNCHANGED <<eofOnExit, child, got, fed, input, writer, reader, pump,
                   lifecycle, manager>>

ChildExits(s) ==
    /\ child[s] = "live"
    /\ child' = [child EXCEPT ![s] = "dead"]
    /\ UNCHANGED <<eofOnExit, output, input, writer, reader, pump, lifecycle,
                   manager>>

-----------------------------------------------------------------------------
(* Opening, and the two threads.                                           *)

\* open_with_grid, with or without an initial command.
Open(s) ==
    /\ child[s] = "none"
    /\ child' = [child EXCEPT ![s] = "live"]
    /\ writer' = [writer EXCEPT ![s] = "recv"]
    /\ reader' = [reader EXCEPT ![s] = "read"]
    /\ pump' = [pump EXCEPT ![s] = "top"]
    /\ io' = io \cup {s}
    /\ state' = [state EXCEPT ![s] = "Running"]
    /\ \/ UNCHANGED <<typed, inq>>
       \/ /\ MaxIn > 0
          /\ typed' = [typed EXCEPT ![s] = 1]
          /\ inq' = [inq EXCEPT ![s] = 1]
    /\ UNCHANGED <<eofOnExit, output, held, shutting, closer, manager>>

\* SessionManager::open, once the session is open.
Register(s) ==
    /\ child[s] # "none"
    /\ s \notin registered \cup shutting
    /\ registered' = registered \cup {s}
    /\ UNCHANGED <<eofOnExit, child, output, input, writer, reader, pump,
                   lifecycle, stops, impatient>>

Sent(s) ==
    /\ s \in io
    /\ typed[s] < MaxIn
    /\ typed' = [typed EXCEPT ![s] = @ + 1]
    /\ inq' = [inq EXCEPT ![s] = @ + 1]

\* send_input, unless the writer's end of the channel is gone.
SendInput(s) ==
    /\ s \in registered
    /\ writer[s] # "done"
    /\ Sent(s)
    /\ UNCHANGED <<eofOnExit, child, output, held, io, writer, reader, pump,
                   lifecycle, manager>>

\* recv, which fails when the channel is empty and its sender dropped.
WriterRecv(s) ==
    /\ writer[s] = "recv"
    /\ \/ /\ inq[s] > 0
          /\ inq' = [inq EXCEPT ![s] = @ - 1]
          /\ writer' = [writer EXCEPT ![s] = "write"]
       \/ /\ inq[s] = 0
          /\ s \notin io
          /\ writer' = [writer EXCEPT ![s] = "done"]
          /\ UNCHANGED inq
    /\ UNCHANGED <<eofOnExit, child, output, typed, held, io, reader, pump,
                   lifecycle, manager>>

\* write_all, which waits for room in the PTY.  Without a child it fails, or
\* the pseudo console takes the bytes.
WriterWrite(s) ==
    /\ writer[s] = "write"
    /\ \/ /\ child[s] = "live"
          /\ held[s] < PtyRoom
          /\ held' = [held EXCEPT ![s] = @ + 1]
          /\ writer' = [writer EXCEPT ![s] = "recv"]
       \/ /\ child[s] = "dead"
          /\ \E next \in {"done"} \cup IF eofOnExit THEN {} ELSE {"recv"} :
                writer' = [writer EXCEPT ![s] = next]
          /\ UNCHANGED held
    /\ UNCHANGED <<eofOnExit, child, output, typed, inq, io, reader, pump,
                   lifecycle, manager>>

\* read and send: the thread ends when the pump's end of the channel is gone.
ReaderRead(s) ==
    /\ reader[s] = "read"
    /\ got[s] < made[s]
    /\ \/ /\ pump[s] # "done"
          /\ got' = [got EXCEPT ![s] = @ + 1]
          /\ UNCHANGED reader
       \/ /\ pump[s] = "done"
          /\ reader' = [reader EXCEPT ![s] = "done"]
          /\ UNCHANGED got
    /\ UNCHANGED <<eofOnExit, child, made, fed, input, writer, pump, lifecycle,
                   manager>>

ReaderEof(s) ==
    /\ reader[s] = "read"
    /\ eofOnExit
    /\ child[s] = "dead"
    /\ got[s] = made[s]
    /\ reader' = [reader EXCEPT ![s] = "done"]
    /\ UNCHANGED <<eofOnExit, child, output, input, writer, pump, lifecycle,
                   manager>>

-----------------------------------------------------------------------------
(* The pump.                                                               *)

PumpAt(s, from, to) ==
    /\ pump[s] = from
    /\ pump' = [pump EXCEPT ![s] = to]

PumpTop(s) ==
    /\ PumpAt(s, "top", IF s \in shutting THEN "done" ELSE "wait")
    /\ UNCHANGED <<eofOnExit, child, output, input, writer, reader, lifecycle,
                   manager>>

\* A chunk: feed, with or without a response to send.
PumpFeed(s) ==
    /\ PumpAt(s, "wait", "top")
    /\ fed[s] < got[s]
    /\ fed' = [fed EXCEPT ![s] = @ + 1]
    /\ Sent(s) \/ UNCHANGED <<typed, inq>>
    /\ UNCHANGED <<eofOnExit, child, made, got, held, io, writer, reader,
                   lifecycle, manager>>

\* Mutant: the pump ends when the reader has, whatever is in the channel.
PumpEof_Early(s) ==
    /\ PumpAt(s, "wait", "done")
    /\ reader[s] = "done"
    /\ UNCHANGED <<eofOnExit, child, output, input, writer, reader, lifecycle,
                   manager>>

\* recv: None.
PumpEof(s) ==
    /\ PumpAt(s, "wait", "done")
    /\ reader[s] = "done"
    /\ fed[s] = got[s]
    /\ UNCHANGED <<eofOnExit, child, output, input, writer, reader, lifecycle,
                   manager>>

\* Mutant: the end of the child ends the pump as the end of the PTY does.
PumpTick_Ends(s) ==
    /\ PumpAt(s, "wait", IF child[s] = "dead" THEN "done" ELSE "top")
    /\ UNCHANGED <<eofOnExit, child, output, input, writer, reader, lifecycle,
                   manager>>

\* The 50 ms tick: try_wait.
PumpTick(s) ==
    /\ PumpAt(s, "wait", IF child[s] = "dead" THEN "seen" ELSE "top")
    /\ UNCHANGED <<eofOnExit, child, output, input, writer, reader, lifecycle,
                   manager>>

PumpExited(s) ==
    /\ PumpAt(s, "seen", "exited")
    /\ state' = [state EXCEPT ![s] = "Exited"]
    /\ UNCHANGED <<eofOnExit, child, output, input, writer, reader, shutting,
                   closer, manager>>

\* try_recv until the channel is empty.
PumpDrain(s) ==
    /\ PumpAt(s, "exited", "done")
    /\ fed' = [fed EXCEPT ![s] = got[s]]
    /\ UNCHANGED <<eofOnExit, child, made, got, input, writer, reader,
                   lifecycle, manager>>

-----------------------------------------------------------------------------
(* TerminalSession::close.                                                 *)

CloseAt(s, from, to) ==
    /\ closer[s] = from
    /\ closer' = [closer EXCEPT ![s] = to]

\* SessionManager::close takes the session out of the map: no other caller
\* gets it.
Take(s) ==
    /\ s \in registered
    /\ registered' = registered \ {s}
    /\ shutting' = shutting \cup {s}
    /\ CloseAt(s, "idle", "begun")

\* A widget closes its session.
Close(s) ==
    /\ Take(s)
    /\ UNCHANGED <<eofOnExit, child, output, input, writer, reader, pump,
                   state, stops, impatient>>

CloseDropWriter(s) ==
    /\ CloseAt(s, "begun", "writer")
    /\ io' = io \ {s}
    /\ UNCHANGED <<eofOnExit, child, output, typed, inq, held, writer, reader,
                   pump, state, shutting, manager>>

CloseJoinWriter(s) ==
    /\ CloseAt(s, "writer", "reader")
    /\ writer[s] = "done"
    /\ UNCHANGED <<eofOnExit, child, output, input, writer, reader, pump,
                   state, shutting, manager>>

\* The reader thread ends, or 200 ms pass: aborting does not stop a thread.
CloseJoinReader(s) ==
    /\ CloseAt(s, "reader", "child")
    /\ UNCHANGED <<eofOnExit, child, output, input, writer, reader, pump,
                   state, shutting, manager>>

\* Mutant: a child that has not exited in 2 s is left alone.
CloseChild_NoKill(s) ==
    /\ CloseAt(s, "child", "pump")
    /\ UNCHANGED <<eofOnExit, child, output, input, writer, reader, pump,
                   state, shutting, manager>>

\* The child has exited, or 2 s pass and it is killed.
CloseChild(s) ==
    /\ CloseAt(s, "child", "pump")
    /\ child' = [child EXCEPT ![s] = "dead"]
    /\ UNCHANGED <<eofOnExit, output, input, writer, reader, pump, state,
                   shutting, manager>>

\* Mutant: the pump is not waited for.
CloseJoinPump_Skips(s) ==
    /\ CloseAt(s, "pump", "last")
    /\ UNCHANGED <<eofOnExit, child, output, input, writer, reader, pump,
                   state, shutting, manager>>

\* The pump ends, or 300 ms pass: an abort takes effect where the pump awaits.
CloseJoinPump(s) ==
    /\ CloseAt(s, "pump", "last")
    /\ \/ /\ pump[s] = "done"
          /\ UNCHANGED <<pump, impatient>>
       \/ /\ pump[s] # "done"
          /\ pump' = [pump EXCEPT ![s] = IF @ \in {"seen", "exited"}
                                            THEN @ ELSE "done"]
          /\ impatient' = impatient \cup {s}
    /\ UNCHANGED <<eofOnExit, child, output, input, writer, reader, state,
                   shutting, registered, stops>>

CloseLast(s) ==
    /\ CloseAt(s, "last", "done")
    /\ state' = [state EXCEPT ![s] = "Closed"]
    /\ UNCHANGED <<eofOnExit, child, output, input, writer, reader, pump,
                   shutting, manager>>

-----------------------------------------------------------------------------
(* SessionManager::close_all.                                              *)

CloseAll ==
    /\ stop = "idle"
    /\ stop' = "run"
    /\ stopping' = registered
    /\ UNCHANGED <<eofOnExit, child, output, input, writer, reader, pump,
                   lifecycle, registered, stopAt, impatient>>

\* close(id): the session, or SessionNotFound, which is kept for the end.
CloseNext(s) ==
    /\ stop = "run"
    /\ stopAt = {}
    /\ s \in stopping
    /\ stopping' = stopping \ {s}
    /\ \/ /\ Take(s)
          /\ stopAt' = {s}
       \/ /\ s \notin registered
          /\ UNCHANGED <<registered, shutting, closer, stopAt>>
    /\ UNCHANGED <<eofOnExit, child, output, input, writer, reader, pump,
                   state, stop, impatient>>

CloseReturns ==
    /\ stopAt # {}
    /\ \A s \in stopAt : closer[s] = "done"
    /\ stopAt' = {}
    /\ UNCHANGED <<eofOnExit, child, output, input, writer, reader, pump,
                   lifecycle, registered, stop, stopping, impatient>>

CloseAllReturns ==
    /\ stop = "run"
    /\ stopAt = {}
    /\ stopping = {}
    /\ stop' = "done"
    /\ UNCHANGED <<eofOnExit, child, output, input, writer, reader, pump,
                   lifecycle, registered, stopAt, stopping, impatient>>

-----------------------------------------------------------------------------
Threads(s) ==
    \/ WriterRecv(s) \/ WriterWrite(s) \/ ReaderRead(s) \/ ReaderEof(s)

Pump(s) ==
    \/ PumpTop(s) \/ PumpFeed(s) \/ PumpEof(s) \/ PumpTick(s)
    \/ PumpExited(s) \/ PumpDrain(s)

Closing(s) ==
    \/ CloseDropWriter(s) \/ CloseJoinWriter(s) \/ CloseJoinReader(s)
    \/ CloseChild(s) \/ CloseJoinPump(s) \/ CloseLast(s)

Stop ==
    \/ CloseAll \/ CloseReturns \/ CloseAllReturns
    \/ \E s \in Sessions : CloseNext(s)

Next ==
    \/ \E s \in Sessions :
        \/ ChildInput(s) \/ ChildPrints(s) \/ ChildExits(s)
        \/ Open(s) \/ Register(s) \/ SendInput(s) \/ Close(s)
        \/ Threads(s) \/ Pump(s) \/ Closing(s)
    \/ Stop

Spec == Init /\ [][Next]_vars

\* The threads and tasks run, timers fire (a pump that nothing else wakes
\* ticks), and a live child reads its input: close waits for the writer with no
\* limit, and the writer for room in the PTY.  Nobody has to close a session,
\* to print or to exit.
FairSpec ==
    /\ Spec
    /\ \A s \in Sessions :
        /\ WF_vars(ChildInput(s))
        /\ WF_vars(WriterRecv(s) \/ WriterWrite(s))
        /\ WF_vars(ReaderRead(s) \/ ReaderEof(s))
        /\ WF_vars(Pump(s))
        /\ WF_vars(Closing(s))

-----------------------------------------------------------------------------
(* Properties.                                                             *)

TypeOK ==
    /\ eofOnExit \in BOOLEAN
    /\ child \in [Sessions -> {"none", "live", "dead"}]
    /\ made \in [Sessions -> 0 .. MaxOut]
    /\ got \in [Sessions -> 0 .. MaxOut]
    /\ fed \in [Sessions -> 0 .. MaxOut]
    /\ typed \in [Sessions -> 0 .. MaxIn]
    /\ inq \in [Sessions -> 0 .. MaxIn]
    /\ held \in [Sessions -> 0 .. PtyRoom]
    /\ writer \in [Sessions -> {"none", "recv", "write", "done"}]
    /\ reader \in [Sessions -> {"none", "read", "done"}]
    /\ pump \in [Sessions -> {"none", "top", "wait", "seen", "exited", "done"}]
    /\ state \in [Sessions -> {"none", "Running", "Exited", "Closed"}]
    /\ closer \in [Sessions -> {"idle", "begun", "writer", "reader", "child",
                                "pump", "last", "done"}]
    /\ io \subseteq Sessions
    /\ shutting \cup registered \subseteq Sessions
    /\ stop \in {"idle", "run", "done"}
    /\ stopAt \cup stopping \cup impatient \subseteq Sessions

\* When the end of the PTY is what ends the pump, all the child printed has
\* been fed to the emulator: no chunk is left in the PTY or in the channel.
EofShowsAll ==
    \A s \in Sessions \ shutting :
        pump[s] = "done" /\ state[s] = "Running" => fed[s] = made[s]

\* Closed is the last state of a session: the pump, which writes the state
\* too, has ended before, unless close lost patience with it.
ClosedIsLast ==
    [][\A s \in Sessions \ impatient :
        state[s] = "Closed" => state'[s] = "Closed"]_vars

\* "drop the writer, terminate the child, drain I/O, transition to `Closed`"
\* (lifecycle.rs:152): a close that begins ends, with the child gone.
CloseCompletes ==
    \A s \in Sessions :
        s \in shutting ~> closer[s] = "done" /\ child[s] = "dead"

\* "The child process exited normally" (events.rs:58): where the end of the
\* child does not end the output, the pump's tick notices it, and it is
\* published with its exit code, in an open session.
ExitNoticed ==
    \A s \in Sessions :
        child[s] = "dead" /\ ~eofOnExit
            ~> state[s] = "Exited" \/ s \in shutting
=============================================================================
