------------------------------ MODULE EventBus ------------------------------
(***************************************************************************)
(* The event bus of orchid-core: publishers dispatch events to channel,    *)
(* async and sync subscribers in priority order; a channel subscriber has  *)
(* a bounded queue and a receiver that waits on a tokio Notify.            *)
(*                                                                         *)
(* Processes: the publishing threads, one owner thread per subscription    *)
(* (it subscribes and later drops the handle), one receiver per channel,   *)
(* the spawned async handlers, and the caller of shutdown. A step is one   *)
(* access to a shared map, atomic, queue or Notify.                        *)
(***************************************************************************)
EXTENDS Integers, Sequences, FiniteSets

CONSTANTS
    Publishers,  \* threads that publish
    Subs,        \* subscription ids
    EventTypes,  \* event type names
    None,        \* "no subscription"
    Kind,        \* [Subs -> {"channel", "async", "sync"}]
    Priority,    \* [Subs -> Int]: HandlerPriority::rank
    Types,       \* [Subs -> SUBSET EventTypes]: the filter's types, {} for any
    Picky,       \* subscriptions whose filter has sources or a predicate
    Policy,      \* "oldest", "newest" or "block": slow_consumer_policy
    Capacity,    \* per_subscriber_buffer
    Panics,      \* whether async handlers may panic
    Stops,       \* whether shutdown is called
    Leaves,      \* subscriptions whose handle is dropped (others are leaked)
    MaxEvents    \* bound on the events of a publisher

ASSUME BusParams ==
    /\ None \notin Subs
    /\ Kind \in [Subs -> {"channel", "async", "sync"}]
    /\ Priority \in [Subs -> Int]
    /\ Types \in [Subs -> SUBSET EventTypes]
    /\ Picky \subseteq Subs
    /\ Leaves \subseteq Subs
    /\ Policy \in {"oldest", "newest", "block"}
    /\ Capacity \in Nat \ {0}
    /\ MaxEvents \in Nat

VARIABLES
    subs,       \* ids with an entry in the subscription map
    wildcard,   \* ids indexed for every event type
    byType,     \* event type -> ids indexed for it
    nextSeq,    \* the registration counter
    seq,        \* subscription -> its registration number
    shut,       \* the shutdown flag
    inFlight,   \* the in_flight counter
    delivered,  \* the delivered counter
    dropped,    \* the dropped counter
    queue,      \* channel -> queued events
    closed,     \* channels marked closed
    permit,     \* channels whose Notify holds a permit
    rpc,        \* channel -> where its receiver is
    opc,        \* subscription -> where its owner is
    ppc,        \* publisher -> where it is
    num,        \* publisher -> number of its current (latest) event
    typ,        \* publisher -> type of that event
    flush,      \* publishers inside publish_and_flush
    scan,       \* publisher -> subscriptions its collection has still to visit
    todo,       \* publisher -> matching subscriptions not yet visited
    cur,        \* publisher -> the entry it holds a map guard on, or None
    evicts,     \* publishers whose push has evicted an event
    tasks,      \* async handlers spawned and not finished
    spc,        \* where the caller of shutdown is
    clearing,   \* what subs.clear() has still to visit
    closing,    \* the channel clear() is dropping
    early,      \* ghost: handlers spawned before the flag was set
    taken,      \* ghost: number of events received or handled
    last        \* ghost: channel -> publisher -> last event received

index   == <<wildcard, byType>>
reg     == <<nextSeq, seq>>
chan    == <<queue, closed, permit, rpc>>
counts  == <<delivered, dropped>>
msg     == <<num, typ, flush, scan>>
pub     == <<ppc, msg, todo, cur, evicts>>
stop    == <<spc, clearing, closing, early>>
seen    == <<taken, last>>
vars    == <<subs, index, reg, shut, inFlight, counts, chan, opc, pub, tasks,
             stop, seen>>

Channels == {s \in Subs : Kind[s] = "channel"}
Events   == Publishers \X (1 .. MaxEvents)
Handlers == Subs \X Publishers \X (1 .. MaxEvents)

Init ==
    /\ subs = {}
    /\ wildcard = {}
    /\ byType = [ty \in EventTypes |-> {}]
    /\ nextSeq = 0
    /\ seq = [s \in Subs |-> 0]
    /\ shut = FALSE
    /\ inFlight = 0
    /\ delivered = 0
    /\ dropped = 0
    /\ queue = [s \in Subs |-> << >>]
    /\ closed = {}
    /\ permit = {}
    /\ rpc = [s \in Subs |-> "none"]
    /\ opc = [s \in Subs |-> "new"]
    /\ ppc = [p \in Publishers |-> "idle"]
    /\ num = [p \in Publishers |-> 0]
    /\ typ \in [Publishers -> EventTypes]
    /\ flush = {}
    /\ scan = [p \in Publishers |-> {}]
    /\ todo = [p \in Publishers |-> {}]
    /\ cur = [p \in Publishers |-> None]
    /\ evicts = {}
    /\ tasks = {}
    /\ spc = "idle"
    /\ clearing = {}
    /\ closing = None
    /\ early = {}
    /\ taken = 0
    /\ last = [s \in Subs |-> [p \in Publishers |-> 0]]

OwnerGoto(s, l) == opc' = [opc EXCEPT ![s] = l]
Goto(p, l) == ppc' = [ppc EXCEPT ![p] = l]

\* A map guard held by a dispatcher keeps the entry from being removed.
Unguarded(s) == \A p \in Publishers : cur[p] # s

\* Notify::notify_one wakes the waiter, or leaves a permit for the next one.
NotifyOne(s) ==
    IF rpc[s] = "wait"
      THEN rpc' = [rpc EXCEPT ![s] = "check"] /\ UNCHANGED permit
      ELSE permit' = permit \cup {s} /\ UNCHANGED rpc

\* Notify::notify_waiters wakes the waiter if there is one, and leaves nothing.
NotifyWaiters(s) ==
    rpc' = IF rpc[s] = "wait" THEN [rpc EXCEPT ![s] = "check"] ELSE rpc

-----------------------------------------------------------------------------
(* Owners: subscribe, subscribe_async, subscribe_sync, and the drop of the *)
(* handle, remove_subscription.                                            *)

Subscribe(s) ==
    /\ opc[s] = "new"
    /\ OwnerGoto(s, IF shut THEN "gone" ELSE "insert")
    /\ UNCHANGED <<subs, index, reg, shut, inFlight, counts, chan, pub, tasks, stop,
                   seen>>

InsertEntry(s) ==
    /\ opc[s] = "insert"
    /\ seq' = [seq EXCEPT ![s] = nextSeq]
    /\ nextSeq' = nextSeq + 1
    /\ subs' = subs \cup {s}
    /\ OwnerGoto(s, "index")
    /\ UNCHANGED <<index, shut, inFlight, counts, chan, pub, tasks, stop, seen>>

\* The entry is indexed after it is inserted; then subscribe returns, and a
\* channel's receiver starts to receive.
IndexEntry(s) ==
    /\ opc[s] = "index"
    /\ wildcard' = IF Types[s] = {} THEN wildcard \cup {s} ELSE wildcard
    /\ byType' = [ty \in EventTypes |->
                     IF ty \in Types[s] THEN byType[ty] \cup {s} ELSE byType[ty]]
    /\ rpc' = IF s \in Channels THEN [rpc EXCEPT ![s] = "check"] ELSE rpc
    /\ OwnerGoto(s, "live")
    /\ UNCHANGED <<subs, reg, shut, inFlight, counts, queue, closed, permit, pub, tasks,
                   stop, seen>>

\* Mutant: the entry is removed while a dispatcher is inside it.
Unsubscribe_Unlocked(s) ==
    /\ s \in Leaves
    /\ opc[s] = "live"
    /\ subs' = subs \ {s}
    /\ OwnerGoto(s, IF s \in subs THEN "unindex" ELSE "gone")
    /\ UNCHANGED <<index, reg, shut, inFlight, counts, chan, pub, tasks, stop, seen>>

\* remove_subscription: nothing to do when shutdown has cleared the entry.
Unsubscribe(s) ==
    /\ s \in Leaves
    /\ opc[s] = "live"
    /\ Unguarded(s)
    /\ subs' = subs \ {s}
    /\ OwnerGoto(s, IF s \in subs THEN "unindex" ELSE "gone")
    /\ UNCHANGED <<index, reg, shut, inFlight, counts, chan, pub, tasks, stop, seen>>

\* Mutant: the typed index keeps the subscription.
Unindex_WildcardOnly(s) ==
    /\ opc[s] = "unindex"
    /\ wildcard' = wildcard \ {s}
    /\ byType' = byType
    /\ OwnerGoto(s, IF s \in Channels THEN "close" ELSE "gone")
    /\ UNCHANGED <<subs, reg, shut, inFlight, counts, chan, pub, tasks, stop, seen>>

\* The entry, and with it the channel's sender, is dropped after unindex.
Unindex(s) ==
    /\ opc[s] = "unindex"
    /\ wildcard' = wildcard \ {s}
    /\ byType' = [ty \in EventTypes |-> byType[ty] \ {s}]
    /\ OwnerGoto(s, IF s \in Channels THEN "close" ELSE "gone")
    /\ UNCHANGED <<subs, reg, shut, inFlight, counts, chan, pub, tasks, stop, seen>>

\* ChannelInner::close, in two steps.
Close(s) ==
    /\ opc[s] = "close"
    /\ closed' = closed \cup {s}
    /\ OwnerGoto(s, "wake")
    /\ UNCHANGED <<subs, index, reg, shut, inFlight, counts, queue, permit, rpc, pub,
                   tasks, stop, seen>>

Wake(s) ==
    /\ opc[s] = "wake"
    /\ NotifyWaiters(s)
    /\ OwnerGoto(s, "gone")
    /\ UNCHANGED <<subs, index, reg, shut, inFlight, counts, queue, closed, permit, pub,
                   tasks, stop, seen>>

Own(s) ==
    \/ Subscribe(s) \/ InsertEntry(s) \/ IndexEntry(s)
    \/ Unsubscribe(s) \/ Unindex(s) \/ Close(s) \/ Wake(s)

-----------------------------------------------------------------------------
(* EventReceiver::recv, called in a loop until it returns None.            *)

\* Under the queue's lock: take the oldest event, or find the channel closed,
\* or go and wait.
Receive(s) ==
    /\ rpc[s] = "check"
    /\ IF queue[s] # << >>
         THEN /\ queue' = [queue EXCEPT ![s] = Tail(@)]
              /\ taken' = taken + 1
              /\ last' = [last EXCEPT ![s][Head(queue[s])[1]] = Head(queue[s])[2]]
              /\ UNCHANGED rpc
         ELSE /\ rpc' = [rpc EXCEPT ![s] = IF s \in closed THEN "ended" ELSE "arm"]
              /\ UNCHANGED <<queue, seen>>
    /\ UNCHANGED <<subs, index, reg, shut, inFlight, counts, closed, permit, opc, pub,
                   tasks, stop>>

\* notified().await: consume a permit, or become the waiter.
Await(s) ==
    /\ rpc[s] = "arm"
    /\ rpc' = [rpc EXCEPT ![s] = IF s \in permit THEN "check" ELSE "wait"]
    /\ permit' = permit \ {s}
    /\ UNCHANGED <<subs, index, reg, shut, inFlight, counts, queue, closed, opc, pub,
                   tasks, stop, seen>>

Recv(s) == Receive(s) \/ Await(s)

-----------------------------------------------------------------------------
(* Publishers: publish and publish_and_flush.                              *)

PublishRefused(p) ==
    /\ ppc[p] = "idle"
    /\ num[p] < MaxEvents
    /\ shut
    /\ num' = [num EXCEPT ![p] = @ + 1]
    /\ UNCHANGED <<subs, index, reg, shut, inFlight, counts, chan, opc, ppc, typ, flush,
                   scan, todo, cur, evicts, tasks, stop, seen>>

Publish(p) ==
    /\ ppc[p] = "idle"
    /\ num[p] < MaxEvents
    /\ ~shut
    /\ num' = [num EXCEPT ![p] = @ + 1]
    /\ \E ty \in EventTypes : typ' = [typ EXCEPT ![p] = ty]
    /\ flush' \in {flush, flush \cup {p}}
    /\ scan' = [scan EXCEPT ![p] = Subs]
    /\ Goto(p, "scan")
    /\ UNCHANGED <<subs, index, reg, shut, inFlight, counts, chan, opc, todo, cur,
                   evicts, tasks, stop, seen>>

Matching(ty) == (wildcard \cup byType[ty]) \cap subs

\* The index and the map are read entry by entry, in hash order. Source and
\* predicate criteria, which look at the envelope only, may turn any event down.
Collect(p, s) ==
    /\ ppc[p] = "scan"
    /\ s \in scan[p]
    /\ \E no \in SUBSET (Picky \cap {s}) :
          todo' = [todo EXCEPT ![p] = @ \cup ((Matching(typ[p]) \cap {s}) \ no)]
    /\ scan' = [scan EXCEPT ![p] = @ \ {s}]
    /\ Goto(p, IF scan[p] = {s} THEN "next" ELSE "scan")
    /\ UNCHANGED <<subs, index, reg, shut, inFlight, counts, chan, opc, num, typ, flush,
                   cur, evicts, tasks, stop, seen>>

\* Sorted by priority, then by registration.
Before(s, u) ==
    \/ Priority[s] < Priority[u]
    \/ Priority[s] = Priority[u] /\ seq[s] < seq[u]

First(p, s) ==
    /\ ppc[p] = "next"
    /\ s \in todo[p]
    /\ \A u \in todo[p] \ {s} : Before(s, u)

Visited(p, s) == todo' = [todo EXCEPT ![p] = @ \ {s}]

\* The entry has been removed since it was collected.
Skip(p, s) ==
    /\ First(p, s)
    /\ s \notin subs
    /\ Visited(p, s)
    /\ UNCHANGED <<subs, index, reg, shut, inFlight, counts, chan, opc, ppc, msg, cur,
                   evicts, tasks, stop, seen>>

SpawnAsync(p, s) ==
    /\ First(p, s)
    /\ s \in subs
    /\ Kind[s] = "async"
    /\ inFlight' = inFlight + 1
    /\ tasks' = tasks \cup {<<s, p, num[p]>>}
    /\ Visited(p, s)
    /\ UNCHANGED <<subs, index, reg, shut, counts, chan, opc, ppc, msg, cur, evicts,
                   stop, seen>>

\* A sync handler and a push run while the guard on the entry is held.
Enter(p, s) ==
    /\ First(p, s)
    /\ s \in subs
    /\ Kind[s] # "async"
    /\ cur' = [cur EXCEPT ![p] = s]
    /\ Visited(p, s)
    /\ Goto(p, IF Kind[s] = "sync" THEN "sync" ELSE "push")
    /\ UNCHANGED <<subs, index, reg, shut, inFlight, counts, chan, opc, msg, evicts,
                   tasks, stop, seen>>

\* Mutant: the guard on the entry is kept.
Leave_Guarded(p) ==
    /\ cur' = cur
    /\ Goto(p, "next")

Leave(p) ==
    /\ cur' = [cur EXCEPT ![p] = None]
    /\ Goto(p, "next")

SyncDone(p) ==
    /\ ppc[p] = "sync"
    /\ delivered' = delivered + 1
    /\ taken' = taken + 1
    /\ Leave(p)
    /\ UNCHANGED <<subs, index, reg, shut, inFlight, dropped, chan, opc, msg, todo,
                   evicts, tasks, stop, last>>

\* A push first looks at the closed flag...
PushCheck(p) ==
    /\ ppc[p] = "push"
    /\ IF cur[p] \in closed
         THEN dropped' = dropped + 1 /\ Leave(p)
         ELSE Goto(p, "enqueue") /\ UNCHANGED <<dropped, cur>>
    /\ UNCHANGED <<subs, index, reg, shut, inFlight, delivered, chan, opc, msg, todo,
                   evicts, tasks, stop, seen>>

Full(s) == Len(queue[s]) >= Capacity

\* Mutant: the new event goes to the front of the queue.
Enqueue_Front(p) ==
    LET s == cur[p] IN
    /\ ppc[p] = "enqueue"
    /\ ~Full(s) \/ Policy = "oldest"
    /\ queue' = [queue EXCEPT ![s] =
                    <<<<p, num[p]>>>> \o (IF Full(s) THEN Tail(@) ELSE @)]
    /\ evicts' = IF Full(s) THEN evicts \cup {p} ELSE evicts \ {p}
    /\ Goto(p, "notify")
    /\ UNCHANGED <<subs, index, reg, shut, inFlight, counts, closed, permit, rpc, opc,
                   msg, todo, cur, tasks, stop, seen>>

\* ...and then takes the lock of the queue.
Enqueue(p) ==
    LET s == cur[p] IN
    /\ ppc[p] = "enqueue"
    /\ ~Full(s) \/ Policy = "oldest"
    /\ queue' = [queue EXCEPT ![s] =
                    Append(IF Full(s) THEN Tail(@) ELSE @, <<p, num[p]>>)]
    /\ evicts' = IF Full(s) THEN evicts \cup {p} ELSE evicts \ {p}
    /\ Goto(p, "notify")
    /\ UNCHANGED <<subs, index, reg, shut, inFlight, counts, closed, permit, rpc, opc,
                   msg, todo, cur, tasks, stop, seen>>

\* The new event is dropped: at once, or when push_block runs out of time
\* (while it waits it goes back to look at the closed flag).
DropNew(p) ==
    /\ ppc[p] = "enqueue"
    /\ Full(cur[p])
    /\ Policy \in {"newest", "block"}
    /\ dropped' = dropped + 1
    /\ Leave(p)
    /\ UNCHANGED <<subs, index, reg, shut, inFlight, delivered, chan, opc, msg, todo,
                   evicts, tasks, stop, seen>>

RetryPush(p) ==
    /\ ppc[p] = "enqueue"
    /\ Full(cur[p])
    /\ Policy = "block"
    /\ Goto(p, "push")
    /\ UNCHANGED <<subs, index, reg, shut, inFlight, counts, chan, opc, msg, todo, cur,
                   evicts, tasks, stop, seen>>

\* Mutant: the evicted event is not counted as dropped.
PushNotify_Uncounted(p) ==
    /\ ppc[p] = "notify"
    /\ NotifyOne(cur[p])
    /\ delivered' = delivered + 1
    /\ dropped' = dropped
    /\ evicts' = evicts \ {p}
    /\ Leave(p)
    /\ UNCHANGED <<subs, index, reg, shut, inFlight, queue, closed, opc, msg, todo,
                   tasks, stop, seen>>

\* Mutant: notify_waiters, which stores no permit.
PushNotify_Waiters(p) ==
    /\ ppc[p] = "notify"
    /\ NotifyWaiters(cur[p])
    /\ delivered' = delivered + 1
    /\ dropped' = IF p \in evicts THEN dropped + 1 ELSE dropped
    /\ evicts' = evicts \ {p}
    /\ permit' = permit
    /\ Leave(p)
    /\ UNCHANGED <<subs, index, reg, shut, inFlight, queue, closed, opc, msg, todo,
                   tasks, stop, seen>>

PushNotify(p) ==
    /\ ppc[p] = "notify"
    /\ NotifyOne(cur[p])
    /\ delivered' = delivered + 1
    /\ dropped' = IF p \in evicts THEN dropped + 1 ELSE dropped
    /\ evicts' = evicts \ {p}
    /\ Leave(p)
    /\ UNCHANGED <<subs, index, reg, shut, inFlight, queue, closed, opc, msg, todo,
                   tasks, stop, seen>>

\* The handlers that publish_and_flush joins.
Joined(p) == {x \in tasks : x[2] = p /\ x[3] = num[p]}

PublishDone(p) ==
    /\ ppc[p] = "next"
    /\ todo[p] = {}
    /\ p \in flush => Joined(p) = {}
    /\ flush' = flush \ {p}
    /\ Goto(p, "idle")
    /\ UNCHANGED <<subs, index, reg, shut, inFlight, counts, chan, opc, num, typ, scan,
                   todo, cur, evicts, tasks, stop, seen>>

Dispatch(p) ==
    \/ \E s \in Subs : Collect(p, s) \/ Skip(p, s) \/ SpawnAsync(p, s) \/ Enter(p, s)
    \/ SyncDone(p) \/ PushCheck(p) \/ Enqueue(p) \/ DropNew(p) \/ PushNotify(p)
    \/ PublishDone(p)

-----------------------------------------------------------------------------
(* Spawned async handlers.                                                 *)

HandlerDone(x) ==
    /\ x \in tasks
    /\ tasks' = tasks \ {x}
    /\ delivered' = delivered + 1
    /\ taken' = taken + 1
    /\ inFlight' = inFlight - 1
    /\ UNCHANGED <<subs, index, reg, shut, dropped, chan, opc, pub, stop, last>>

\* A panic in fut.await ends the task before it gets to the counters.
HandlerPanics(x) ==
    /\ Panics
    /\ x \in tasks
    /\ tasks' = tasks \ {x}
    /\ UNCHANGED <<subs, index, reg, shut, inFlight, counts, chan, opc, pub, stop,
                   seen>>

-----------------------------------------------------------------------------
(* shutdown                                                                *)

SetShutdown ==
    /\ Stops
    /\ spc = "idle"
    /\ shut' = TRUE
    /\ spc' = "poll"
    /\ early' = tasks
    /\ UNCHANGED <<subs, index, reg, inFlight, counts, chan, opc, pub, tasks, clearing,
                   closing, seen>>

\* Mutant: shutdown does not wait for the handlers.
PollInFlight_NoWait ==
    /\ spc = "poll"
    /\ spc' = "clear"
    /\ clearing' = subs
    /\ UNCHANGED <<subs, index, reg, shut, inFlight, counts, chan, opc, pub, tasks,
                   closing, early, seen>>

PollInFlight ==
    /\ spc = "poll"
    /\ inFlight = 0
    /\ spc' = "clear"
    /\ clearing' = subs
    /\ UNCHANGED <<subs, index, reg, shut, inFlight, counts, chan, opc, pub, tasks,
                   closing, early, seen>>

\* subs.clear() drops one entry after the other; it is sure to meet those
\* that were there when it began. A dropped sender closes its channel.
ClearEntry(s) ==
    /\ spc = "clear"
    /\ s \in subs
    /\ Unguarded(s)
    /\ subs' = subs \ {s}
    /\ clearing' = clearing \ {s}
    /\ IF s \in Channels
         THEN closed' = closed \cup {s} /\ closing' = s /\ spc' = "wake"
         ELSE UNCHANGED <<closed, closing, spc>>
    /\ UNCHANGED <<index, reg, shut, inFlight, counts, queue, permit, rpc, opc, pub,
                   tasks, early, seen>>

ClearWake ==
    /\ spc = "wake"
    /\ NotifyWaiters(closing)
    /\ closing' = None
    /\ spc' = "clear"
    /\ UNCHANGED <<subs, index, reg, shut, inFlight, counts, queue, closed, permit, opc,
                   pub, tasks, clearing, early, seen>>

ClearIndex ==
    /\ spc = "clear"
    /\ clearing \cap subs = {}
    /\ wildcard' = {}
    /\ spc' = "types"
    /\ UNCHANGED <<subs, byType, reg, shut, inFlight, counts, chan, opc, pub, tasks,
                   clearing, closing, early, seen>>

ClearTypes ==
    /\ spc = "types"
    /\ byType' = [ty \in EventTypes |-> {}]
    /\ spc' = "done"
    /\ UNCHANGED <<subs, wildcard, reg, shut, inFlight, counts, chan, opc, pub, tasks,
                   clearing, closing, early, seen>>

Shutdown ==
    PollInFlight \/ (\E s \in Subs : ClearEntry(s)) \/ ClearWake \/ ClearIndex \/ ClearTypes

-----------------------------------------------------------------------------
\* Everything has come to rest: only waiting receivers are left.
Rest ==
    /\ \A p \in Publishers : ppc[p] = "idle" /\ num[p] = MaxEvents
    /\ tasks = {}
    /\ \A s \in Subs : opc[s] \in {"live", "gone"} /\ rpc[s] \in {"none", "wait", "ended"}
    /\ UNCHANGED vars

Next ==
    \/ \E s \in Subs : Own(s) \/ Recv(s)
    \/ \E p \in Publishers : Publish(p) \/ PublishRefused(p) \/ Dispatch(p) \/ RetryPush(p)
    \/ \E x \in tasks : HandlerDone(x) \/ HandlerPanics(x)
    \/ SetShutdown
    \/ Shutdown
    \/ Rest

Spec == Init /\ [][Next]_vars

\* Threads and tasks run; handlers return; whoever receives goes on to do so.
Fairness ==
    /\ \A s \in Subs : /\ WF_vars(Recv(s))
                       /\ WF_vars(InsertEntry(s) \/ IndexEntry(s))
                       /\ WF_vars(Unindex(s) \/ Close(s) \/ Wake(s))
    /\ \A p \in Publishers : WF_vars(Dispatch(p))
    /\ WF_vars(\E x \in tasks : HandlerDone(x) \/ HandlerPanics(x))
    /\ WF_vars(Shutdown)

FairSpec == Spec /\ Fairness

-----------------------------------------------------------------------------
(* Properties.                                                             *)

MapsOK ==
    /\ subs \subseteq Subs
    /\ wildcard \subseteq Subs
    /\ byType \in [EventTypes -> SUBSET Subs]
    /\ nextSeq \in Nat
    /\ seq \in [Subs -> Nat]
    /\ opc \in [Subs -> {"new", "insert", "index", "live", "unindex", "close", "wake",
                         "gone"}]

ChannelsOK ==
    /\ queue \in [Subs -> Seq(Events)]
    /\ \A s \in Subs : Len(queue[s]) <= Capacity
    /\ closed \subseteq Channels
    /\ permit \subseteq Channels
    /\ rpc \in [Subs -> {"none", "check", "arm", "wait", "ended"}]
    /\ taken \in Nat
    /\ last \in [Subs -> [Publishers -> 0 .. MaxEvents]]

PublishersOK ==
    /\ ppc \in [Publishers -> {"idle", "scan", "next", "sync", "push", "enqueue",
                               "notify"}]
    /\ num \in [Publishers -> 0 .. MaxEvents]
    /\ typ \in [Publishers -> EventTypes]
    /\ flush \subseteq Publishers
    /\ scan \in [Publishers -> SUBSET Subs]
    /\ todo \in [Publishers -> SUBSET Subs]
    /\ cur \in [Publishers -> Subs \cup {None}]
    /\ evicts \subseteq Publishers

ShutdownOK ==
    /\ shut \in BOOLEAN
    /\ inFlight \in Nat
    /\ delivered \in Nat
    /\ dropped \in Nat
    /\ tasks \subseteq Handlers
    /\ spc \in {"idle", "poll", "clear", "wake", "types", "done"}
    /\ clearing \subseteq Subs
    /\ closing \in Subs \cup {None}
    /\ early \subseteq Handlers

\* Every variable has its type, no queue grows past per_subscriber_buffer, and
\* in_flight never wraps below zero.
TypeOK == MapsOK /\ ChannelsOK /\ PublishersOK /\ ShutdownOK

\* recv returns None "when the subscription is closed and the queue is
\* empty", and that is final: no event is ever left in, or added to, the
\* queue of a receiver that has been told the end.
EndIsFinal == \A s \in Subs : rpc[s] = "ended" => queue[s] = << >>

\* Once the drop of a handle has returned, no dispatcher is inside the
\* subscriber's handler or channel, and no index names the subscription.
UnsubscribeFinal ==
    \A s \in Subs : opc[s] = "gone" /\ spc = "idle" =>
        /\ Unguarded(s)
        /\ s \notin wildcard
        /\ \A ty \in EventTypes : s \notin byType[ty]

\* A channel yields the events of one publisher in the order they were
\* published, each at most once, whatever is evicted.
InOrder ==
    \A s \in Subs : \A i \in 1 .. Len(queue[s]) :
        /\ queue[s][i][2] > last[s][queue[s][i][1]]
        /\ \A j \in 1 .. Len(queue[s]) :
              i < j /\ queue[s][i][1] = queue[s][j][1] => queue[s][i][2] < queue[s][j][2]

\* Publishers between the push and the counters, and the events in the queues.
Counting == {p \in Publishers : ppc[p] = "notify"}
InQueues == UNION {{s} \X (1 .. Len(queue[s])) : s \in Subs}

\* The metrics account for every event: one pushed to a channel or given to a
\* handler that returned is in delivered, and has been received or handled, is
\* still queued, or was evicted to make room, which drop-oldest alone does and
\* counts in dropped. The other policies lose nothing that they delivered.
Conserved ==
    delivered + Cardinality(Counting)
      = taken + Cardinality(InQueues)
          + (IF Policy = "oldest" THEN dropped + Cardinality(Counting \cap evicts)
                                  ELSE 0)

\* "waiting for any already-spawned async handlers to complete": a handler
\* spawned before shutdown was called has ended when shutdown returns.
EarlyHandlersDrain == spc \notin {"idle", "poll"} => early \cap tasks = {}

\* An event in a queue is received or makes room for a newer one; the
\* receiver never sleeps on a queue that has events.
QueuesDrain == \A s \in Channels : queue[s] # << >> ~> queue[s] = << >>

\* "shutdown completes promptly once all handlers finish".
ShutdownReturns == spc = "poll" ~> spc = "done"

=============================================================================
