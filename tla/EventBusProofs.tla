--------------------------- MODULE EventBusProofs ---------------------------
(***************************************************************************)
(* Proofs about EventBus, for any publishers, subscriptions, types, policy *)
(* and bounds.                                                             *)
(***************************************************************************)
EXTENDS EventBus, FiniteSetTheorems, TLAPS

\* Where a process is says what it holds.
WellPlaced ==
    /\ \A p \in Publishers :
          /\ ppc[p] # "idle" => num[p] > 0
          /\ ppc[p] # "scan" => scan[p] = {}
          /\ ppc[p] = "sync" => cur[p] \in Subs
          /\ ppc[p] \in {"push", "enqueue", "notify"} => cur[p] \in Channels
          /\ ppc[p] \in {"idle", "scan", "next"} => cur[p] = None
    /\ \A s \in Subs :
          /\ opc[s] \in {"close", "wake"} => s \in Channels
          /\ rpc[s] # "none" => s \in Channels
    /\ spc = "wake" => closing \in Channels

\* in_flight covers every handler that has not ended.
Covered ==
    /\ IsFiniteSet(tasks)
    /\ Cardinality(tasks) <= inFlight

TypeInv == TypeOK /\ WellPlaced /\ Covered

-----------------------------------------------------------------------------
(* Type correctness.                                                       *)

LEMMA TypeInit == Init => TypeInv
<1> SUFFICES ASSUME Init PROVE TypeInv
  OBVIOUS
<1> USE BusParams DEF Init
<1>1. MapsOK
  BY DEF MapsOK
<1>5. PublishersOK
  BY DEF PublishersOK
<1>6. ShutdownOK
  BY DEF ShutdownOK
<1>2. ChannelsOK
  BY DEF ChannelsOK, Events
<1>3. WellPlaced
  BY DEF WellPlaced
<1>4. Covered
  BY FS_EmptySet DEF Covered
<1> QED
  BY <1>1, <1>2, <1>3, <1>4, <1>5, <1>6 DEF TypeInv, TypeOK

LEMMA TypeSubscribe == ASSUME TypeInv, NEW s \in Subs, Subscribe(s) PROVE TypeInv'
<1> USE BusParams DEF index, reg, counts, chan, msg, pub, stop, seen
<1>1. TypeOK' /\ WellPlaced'
  BY DEF Subscribe, OwnerGoto, TypeInv, TypeOK, WellPlaced, MapsOK, ChannelsOK,
         PublishersOK, ShutdownOK
<1>2. Covered'
  BY DEF TypeInv, Covered, Subscribe
<1> QED
  BY <1>1, <1>2 DEF TypeInv

LEMMA TypeInsertEntry == ASSUME TypeInv, NEW s \in Subs, InsertEntry(s) PROVE TypeInv'
<1> USE BusParams DEF index, reg, counts, chan, msg, pub, stop, seen
<1>1. TypeOK' /\ WellPlaced'
  BY DEF InsertEntry, OwnerGoto, TypeInv, TypeOK, WellPlaced, MapsOK, ChannelsOK,
         PublishersOK, ShutdownOK
<1>2. Covered'
  BY DEF TypeInv, Covered, InsertEntry
<1> QED
  BY <1>1, <1>2 DEF TypeInv

LEMMA TypeIndexEntry == ASSUME TypeInv, NEW s \in Subs, IndexEntry(s) PROVE TypeInv'
<1> USE BusParams DEF index, reg, counts, chan, msg, pub, stop, seen
<1>1. TypeOK' /\ WellPlaced'
  <2>1. MapsOK'
    BY DEF IndexEntry, OwnerGoto, Channels, TypeInv, TypeOK, WellPlaced, MapsOK,
           ChannelsOK, PublishersOK, ShutdownOK
  <2>2. ChannelsOK'
    BY DEF IndexEntry, OwnerGoto, Channels, TypeInv, TypeOK, WellPlaced, MapsOK,
           ChannelsOK, PublishersOK, ShutdownOK
  <2>3. PublishersOK'
    BY DEF IndexEntry, OwnerGoto, Channels, TypeInv, TypeOK, WellPlaced, MapsOK,
           ChannelsOK, PublishersOK, ShutdownOK
  <2>4. ShutdownOK'
    BY DEF IndexEntry, OwnerGoto, Channels, TypeInv, TypeOK, WellPlaced, MapsOK,
           ChannelsOK, PublishersOK, ShutdownOK
  <2>5. WellPlaced'
    BY DEF IndexEntry, OwnerGoto, Channels, TypeInv, TypeOK, WellPlaced, MapsOK,
           ChannelsOK, PublishersOK, ShutdownOK
  <2> QED
    BY <2>1, <2>2, <2>3, <2>4, <2>5 DEF TypeOK
<1>2. Covered'
  BY DEF TypeInv, Covered, IndexEntry
<1> QED
  BY <1>1, <1>2 DEF TypeInv

LEMMA TypeUnsubscribe == ASSUME TypeInv, NEW s \in Subs, Unsubscribe(s) PROVE TypeInv'
<1> USE BusParams DEF index, reg, counts, chan, msg, pub, stop, seen
<1>1. TypeOK' /\ WellPlaced'
  BY DEF Unsubscribe, OwnerGoto, TypeInv, TypeOK, WellPlaced, MapsOK, ChannelsOK,
         PublishersOK, ShutdownOK
<1>2. Covered'
  BY DEF TypeInv, Covered, Unsubscribe
<1> QED
  BY <1>1, <1>2 DEF TypeInv

LEMMA TypeUnindex == ASSUME TypeInv, NEW s \in Subs, Unindex(s) PROVE TypeInv'
<1> USE BusParams DEF index, reg, counts, chan, msg, pub, stop, seen
<1>1. TypeOK' /\ WellPlaced'
  BY DEF Unindex, OwnerGoto, TypeInv, TypeOK, WellPlaced, MapsOK, ChannelsOK,
         PublishersOK, ShutdownOK
<1>2. Covered'
  BY DEF TypeInv, Covered, Unindex
<1> QED
  BY <1>1, <1>2 DEF TypeInv

LEMMA TypeClose == ASSUME TypeInv, NEW s \in Subs, Close(s) PROVE TypeInv'
<1> USE BusParams DEF index, reg, counts, chan, msg, pub, stop, seen
<1>1. TypeOK' /\ WellPlaced'
  BY DEF Close, OwnerGoto, TypeInv, TypeOK, WellPlaced, MapsOK, ChannelsOK,
         PublishersOK, ShutdownOK
<1>2. Covered'
  BY DEF TypeInv, Covered, Close
<1> QED
  BY <1>1, <1>2 DEF TypeInv

LEMMA TypeWake == ASSUME TypeInv, NEW s \in Subs, Wake(s) PROVE TypeInv'
<1> USE BusParams DEF index, reg, counts, chan, msg, pub, stop, seen
<1>1. TypeOK' /\ WellPlaced'
  BY DEF Wake, OwnerGoto, NotifyWaiters, TypeInv, TypeOK, WellPlaced, MapsOK,
         ChannelsOK, PublishersOK, ShutdownOK
<1>2. Covered'
  BY DEF TypeInv, Covered, Wake
<1> QED
  BY <1>1, <1>2 DEF TypeInv

LEMMA TypeReceive == ASSUME TypeInv, NEW s \in Subs, Receive(s) PROVE TypeInv'
<1> USE BusParams DEF index, reg, counts, chan, msg, pub, stop, seen
<1>1. TypeOK' /\ WellPlaced'
  <2>1. MapsOK'
    BY DEF Receive, Events, TypeInv, TypeOK, WellPlaced, MapsOK, ChannelsOK,
           PublishersOK, ShutdownOK
  <2>2. ChannelsOK'
    <3>1. CASE queue[s] # << >>
      <4>1. /\ queue[s] \in Seq(Events) /\ Len(queue[s]) <= Capacity
            /\ Head(queue[s]) \in Events
            /\ Tail(queue[s]) \in Seq(Events) /\ Len(Tail(queue[s])) <= Capacity
        BY <3>1 DEF TypeInv, TypeOK, ChannelsOK
      <4>2. Head(queue[s])[1] \in Publishers /\ Head(queue[s])[2] \in 0 .. MaxEvents
        BY <4>1 DEF Events
      <4> QED
        <5>1. last[s] \in [Publishers -> 0 .. MaxEvents]
          BY DEF TypeInv, TypeOK, ChannelsOK
        <5>2. last' \in [Subs -> [Publishers -> 0 .. MaxEvents]]
          <6> DEFINE b == Head(queue[s])[1]
                     n == Head(queue[s])[2]
          <6>1. last' = [last EXCEPT ![s] = [last[s] EXCEPT ![b] = n]]
            BY <3>1 DEF Receive
          <6>2. b \in Publishers /\ n \in 0 .. MaxEvents
            BY <4>2
          <6> HIDE DEF b, n
          <6>3. [last[s] EXCEPT ![b] = n] \in [Publishers -> 0 .. MaxEvents]
            BY <6>2, <5>1
          <6> QED
            BY <6>1, <6>3 DEF TypeInv, TypeOK, ChannelsOK
        <5>3. queue' = [queue EXCEPT ![s] = Tail(queue[s])] /\ UNCHANGED rpc
          BY <3>1 DEF Receive
        <5>4. /\ queue' \in [Subs -> Seq(Events)]
              /\ \A u \in Subs : Len(queue'[u]) <= Capacity
          BY <4>1, <5>3 DEF TypeInv, TypeOK, ChannelsOK
        <5>5. taken' \in Nat /\ UNCHANGED <<closed, permit>>
          BY <3>1 DEF Receive, TypeInv, TypeOK, ChannelsOK
        <5> QED
          BY <5>2, <5>3, <5>4, <5>5 DEF TypeInv, TypeOK, ChannelsOK
    <3>2. CASE queue[s] = << >>
      BY <3>2 DEF Receive, TypeInv, TypeOK, ChannelsOK
    <3> QED
      BY <3>1, <3>2
  <2>3. PublishersOK'
    BY DEF Receive, Events, TypeInv, TypeOK, WellPlaced, MapsOK, ChannelsOK,
           PublishersOK, ShutdownOK
  <2>4. ShutdownOK'
    BY DEF Receive, Events, TypeInv, TypeOK, WellPlaced, MapsOK, ChannelsOK,
           PublishersOK, ShutdownOK
  <2>5. WellPlaced'
    BY DEF Receive, Events, TypeInv, TypeOK, WellPlaced, MapsOK, ChannelsOK,
           PublishersOK, ShutdownOK
  <2> QED
    BY <2>1, <2>2, <2>3, <2>4, <2>5 DEF TypeOK
<1>2. Covered'
  BY DEF TypeInv, Covered, Receive
<1> QED
  BY <1>1, <1>2 DEF TypeInv

LEMMA TypeAwait == ASSUME TypeInv, NEW s \in Subs, Await(s) PROVE TypeInv'
<1> USE BusParams DEF index, reg, counts, chan, msg, pub, stop, seen
<1>1. TypeOK' /\ WellPlaced'
  BY DEF Await, TypeInv, TypeOK, WellPlaced, MapsOK, ChannelsOK, PublishersOK,
         ShutdownOK
<1>2. Covered'
  BY DEF TypeInv, Covered, Await
<1> QED
  BY <1>1, <1>2 DEF TypeInv

LEMMA TypePublish == ASSUME TypeInv, NEW p \in Publishers, Publish(p) PROVE TypeInv'
<1> USE BusParams DEF index, reg, counts, chan, msg, pub, stop, seen
<1>1. TypeOK' /\ WellPlaced'
  BY DEF Publish, Goto, TypeInv, TypeOK, WellPlaced, MapsOK, ChannelsOK, PublishersOK,
         ShutdownOK
<1>2. Covered'
  BY DEF TypeInv, Covered, Publish
<1> QED
  BY <1>1, <1>2 DEF TypeInv

LEMMA TypePublishRefused ==
  ASSUME TypeInv, NEW p \in Publishers, PublishRefused(p) PROVE TypeInv'
<1> USE BusParams DEF index, reg, counts, chan, msg, pub, stop, seen
<1>1. TypeOK' /\ WellPlaced'
  <2>1. MapsOK'
    BY DEF PublishRefused, TypeInv, TypeOK, WellPlaced, MapsOK, ChannelsOK, PublishersOK,
           ShutdownOK
  <2>2. ChannelsOK'
    BY DEF PublishRefused, TypeInv, TypeOK, WellPlaced, MapsOK, ChannelsOK, PublishersOK,
           ShutdownOK
  <2>3. PublishersOK'
    BY DEF PublishRefused, TypeInv, TypeOK, WellPlaced, MapsOK, ChannelsOK, PublishersOK,
           ShutdownOK
  <2>4. ShutdownOK'
    BY DEF PublishRefused, TypeInv, TypeOK, WellPlaced, MapsOK, ChannelsOK, PublishersOK,
           ShutdownOK
  <2>5. WellPlaced'
    BY DEF PublishRefused, TypeInv, TypeOK, WellPlaced, MapsOK, ChannelsOK, PublishersOK,
           ShutdownOK
  <2> QED
    BY <2>1, <2>2, <2>3, <2>4, <2>5 DEF TypeOK
<1>2. Covered'
  BY DEF TypeInv, Covered, PublishRefused
<1> QED
  BY <1>1, <1>2 DEF TypeInv

LEMMA TypeSyncDone == ASSUME TypeInv, NEW p \in Publishers, SyncDone(p) PROVE TypeInv'
<1> USE BusParams DEF index, reg, counts, chan, msg, pub, stop, seen
<1>1. TypeOK' /\ WellPlaced'
  <2>1. MapsOK'
    BY DEF SyncDone, Goto, Leave, TypeInv, TypeOK, WellPlaced, MapsOK, ChannelsOK,
           PublishersOK, ShutdownOK
  <2>2. ChannelsOK'
    BY DEF SyncDone, Goto, Leave, TypeInv, TypeOK, WellPlaced, MapsOK, ChannelsOK,
           PublishersOK, ShutdownOK
  <2>3. PublishersOK'
    BY DEF SyncDone, Goto, Leave, TypeInv, TypeOK, WellPlaced, MapsOK, ChannelsOK,
           PublishersOK, ShutdownOK
  <2>4. ShutdownOK'
    BY DEF SyncDone, Goto, Leave, TypeInv, TypeOK, WellPlaced, MapsOK, ChannelsOK,
           PublishersOK, ShutdownOK
  <2>5. WellPlaced'
    BY DEF SyncDone, Goto, Leave, TypeInv, TypeOK, WellPlaced, MapsOK, ChannelsOK,
           PublishersOK, ShutdownOK
  <2> QED
    BY <2>1, <2>2, <2>3, <2>4, <2>5 DEF TypeOK
<1>2. Covered'
  BY DEF TypeInv, Covered, SyncDone
<1> QED
  BY <1>1, <1>2 DEF TypeInv

LEMMA TypePushCheck == ASSUME TypeInv, NEW p \in Publishers, PushCheck(p) PROVE TypeInv'
<1> USE BusParams DEF index, reg, counts, chan, msg, pub, stop, seen
<1>1. TypeOK' /\ WellPlaced'
  <2>1. MapsOK'
    BY DEF PushCheck, Goto, Leave, TypeInv, TypeOK, WellPlaced, MapsOK, ChannelsOK,
           PublishersOK, ShutdownOK
  <2>2. ChannelsOK'
    BY DEF PushCheck, Goto, Leave, TypeInv, TypeOK, WellPlaced, MapsOK, ChannelsOK,
           PublishersOK, ShutdownOK
  <2>3. PublishersOK'
    BY DEF PushCheck, Goto, Leave, TypeInv, TypeOK, WellPlaced, MapsOK, ChannelsOK,
           PublishersOK, ShutdownOK
  <2>4. ShutdownOK'
    BY DEF PushCheck, Goto, Leave, TypeInv, TypeOK, WellPlaced, MapsOK, ChannelsOK,
           PublishersOK, ShutdownOK
  <2>5. WellPlaced'
    <3>1. CASE cur[p] \in closed
      BY <3>1 DEF PushCheck, Goto, Leave, TypeInv, TypeOK, WellPlaced, PublishersOK
    <3>2. CASE cur[p] \notin closed
      BY <3>2 DEF PushCheck, Goto, TypeInv, TypeOK, WellPlaced, PublishersOK
    <3> QED
      BY <3>1, <3>2
  <2> QED
    BY <2>1, <2>2, <2>3, <2>4, <2>5 DEF TypeOK
<1>2. Covered'
  BY DEF TypeInv, Covered, PushCheck
<1> QED
  BY <1>1, <1>2 DEF TypeInv

LEMMA TypeEnqueue == ASSUME TypeInv, NEW p \in Publishers, Enqueue(p) PROVE TypeInv'
<1> USE BusParams DEF index, reg, counts, chan, msg, pub, stop, seen
<1>1. TypeOK' /\ WellPlaced'
  <2>1. MapsOK'
    BY DEF Enqueue, Goto, Full, Events, TypeInv, TypeOK, WellPlaced, MapsOK, ChannelsOK,
           PublishersOK, ShutdownOK
  <2>2. ChannelsOK'
    <3> DEFINE s == cur[p]
               q == IF Full(s) THEN Tail(queue[s]) ELSE queue[s]
               e == <<p, num[p]>>
    <3>1. s \in Subs /\ e \in Events
      <4>1. s \in Subs
        BY DEF Enqueue, TypeInv, TypeOK, WellPlaced, Channels
      <4>2. num[p] \in 1 .. MaxEvents
        <5>1. ppc[p] = "enqueue"
          BY DEF Enqueue
        <5> QED
          BY <5>1 DEF TypeInv, TypeOK, PublishersOK, WellPlaced
      <4> QED
        BY <4>1, <4>2 DEF Events
    <3>2. queue[s] \in Seq(Events) /\ Len(queue[s]) \in Nat /\ Len(queue[s]) <= Capacity
      BY <3>1 DEF TypeInv, TypeOK, ChannelsOK
    <3>3. q \in Seq(Events) /\ Len(q) < Capacity /\ Len(q) \in Nat
      <4>1. CASE Full(s)
        <5>1. queue[s] # << >>
          BY <4>1, <3>2 DEF Full
        <5> QED
          BY <4>1, <5>1, <3>2
      <4>2. CASE ~Full(s)
        BY <4>2, <3>2 DEF Full
      <4> QED
        BY <4>1, <4>2
    <3>4. Append(q, e) \in Seq(Events) /\ Len(Append(q, e)) <= Capacity
      BY <3>1, <3>3
    <3>5. queue' = [queue EXCEPT ![s] = Append(q, e)]
      BY <3>1 DEF Enqueue, TypeInv, TypeOK, ChannelsOK
    <3> HIDE DEF s, q, e
    <3>6. /\ queue' \in [Subs -> Seq(Events)]
          /\ \A u \in Subs : Len(queue'[u]) <= Capacity
      BY <3>1, <3>4, <3>5 DEF TypeInv, TypeOK, ChannelsOK
    <3> QED
      BY <3>6 DEF Enqueue, TypeInv, TypeOK, ChannelsOK
  <2>3. PublishersOK'
    BY DEF Enqueue, Goto, Full, Events, TypeInv, TypeOK, WellPlaced, MapsOK, ChannelsOK,
           PublishersOK, ShutdownOK
  <2>4. ShutdownOK'
    BY DEF Enqueue, Goto, Full, Events, TypeInv, TypeOK, WellPlaced, MapsOK, ChannelsOK,
           PublishersOK, ShutdownOK
  <2>5. WellPlaced'
    BY DEF Enqueue, Goto, Full, Events, TypeInv, TypeOK, WellPlaced, MapsOK, ChannelsOK,
           PublishersOK, ShutdownOK
  <2> QED
    BY <2>1, <2>2, <2>3, <2>4, <2>5 DEF TypeOK
<1>2. Covered'
  BY DEF TypeInv, Covered, Enqueue
<1> QED
  BY <1>1, <1>2 DEF TypeInv

LEMMA TypeDropNew == ASSUME TypeInv, NEW p \in Publishers, DropNew(p) PROVE TypeInv'
<1> USE BusParams DEF index, reg, counts, chan, msg, pub, stop, seen
<1>1. TypeOK' /\ WellPlaced'
  BY DEF DropNew, Goto, Leave, TypeInv, TypeOK, WellPlaced, MapsOK, ChannelsOK,
         PublishersOK, ShutdownOK
<1>2. Covered'
  BY DEF TypeInv, Covered, DropNew
<1> QED
  BY <1>1, <1>2 DEF TypeInv

LEMMA TypeRetryPush == ASSUME TypeInv, NEW p \in Publishers, RetryPush(p) PROVE TypeInv'
<1> USE BusParams DEF index, reg, counts, chan, msg, pub, stop, seen
<1>1. TypeOK' /\ WellPlaced'
  BY DEF RetryPush, Goto, TypeInv, TypeOK, WellPlaced, MapsOK, ChannelsOK, PublishersOK,
         ShutdownOK
<1>2. Covered'
  BY DEF TypeInv, Covered, RetryPush
<1> QED
  BY <1>1, <1>2 DEF TypeInv

LEMMA TypePushNotify ==
  ASSUME TypeInv, NEW p \in Publishers, PushNotify(p) PROVE TypeInv'
<1> USE BusParams DEF index, reg, counts, chan, msg, pub, stop, seen
<1>1. TypeOK' /\ WellPlaced'
  <2>1. MapsOK'
    BY DEF PushNotify, TypeInv, TypeOK, MapsOK
  <2>2. ChannelsOK'
    <3>1. cur[p] \in Channels
      BY DEF PushNotify, TypeInv, WellPlaced
    <3>2. /\ \/ rpc' = [rpc EXCEPT ![cur[p]] = "check"] /\ permit' = permit
             \/ rpc' = rpc /\ permit' = permit \cup {cur[p]}
          /\ UNCHANGED <<queue, closed, taken, last>>
      BY DEF PushNotify, NotifyOne
    <3>3. ChannelsOK
      BY DEF TypeInv, TypeOK
    <3>4. rpc' \in [Subs -> {"none", "check", "arm", "wait", "ended"}]
      BY <3>2, <3>3 DEF ChannelsOK
    <3>5. permit' \subseteq Channels
      BY <3>1, <3>2, <3>3 DEF ChannelsOK
    <3> QED
      BY <3>2, <3>3, <3>4, <3>5 DEF ChannelsOK
  <2>3. PublishersOK'
    BY DEF PushNotify, Goto, Leave, NotifyOne, TypeInv, TypeOK, WellPlaced, MapsOK,
           ChannelsOK, PublishersOK, ShutdownOK
  <2>4. ShutdownOK'
    BY DEF PushNotify, Goto, Leave, NotifyOne, TypeInv, TypeOK, WellPlaced, MapsOK,
           ChannelsOK, PublishersOK, ShutdownOK
  <2>5. WellPlaced'
    <3>1. cur[p] \in Channels
      BY DEF PushNotify, TypeInv, WellPlaced
    <3>2. /\ cur' = [cur EXCEPT ![p] = None]
          /\ ppc' = [ppc EXCEPT ![p] = "next"]
          /\ rpc' \in {rpc, [rpc EXCEPT ![cur[p]] = "check"]}
          /\ UNCHANGED <<num, scan, opc, spc, closing>>
      BY DEF PushNotify, Goto, Leave, NotifyOne
    <3>3. ppc[p] = "notify"
      BY DEF PushNotify
    <3> QED
      BY <3>1, <3>2, <3>3 DEF TypeInv, TypeOK, WellPlaced, PublishersOK, ChannelsOK,
                              Channels
  <2> QED
    BY <2>1, <2>2, <2>3, <2>4, <2>5 DEF TypeOK
<1>2. Covered'
  BY DEF TypeInv, Covered, PushNotify
<1> QED
  BY <1>1, <1>2 DEF TypeInv

LEMMA TypePublishDone ==
  ASSUME TypeInv, NEW p \in Publishers, PublishDone(p) PROVE TypeInv'
<1> USE BusParams DEF index, reg, counts, chan, msg, pub, stop, seen
<1>1. TypeOK' /\ WellPlaced'
  BY DEF PublishDone, Goto, TypeInv, TypeOK, WellPlaced, MapsOK, ChannelsOK,
         PublishersOK, ShutdownOK
<1>2. Covered'
  BY DEF TypeInv, Covered, PublishDone
<1> QED
  BY <1>1, <1>2 DEF TypeInv

LEMMA TypeCollect ==
  ASSUME TypeInv, NEW p \in Publishers, NEW s \in Subs, Collect(p, s) PROVE TypeInv'
<1> USE BusParams DEF index, reg, counts, chan, msg, pub, stop, seen
<1>1. TypeOK' /\ WellPlaced'
  <2>1. MapsOK'
    BY DEF Collect, Goto, Matching, TypeInv, TypeOK, WellPlaced, MapsOK, ChannelsOK,
           PublishersOK, ShutdownOK
  <2>2. ChannelsOK'
    BY DEF Collect, Goto, Matching, TypeInv, TypeOK, WellPlaced, MapsOK, ChannelsOK,
           PublishersOK, ShutdownOK
  <2>3. PublishersOK'
    <3>1. todo' \in [Publishers -> SUBSET Subs]
      BY DEF Collect, Matching, TypeInv, TypeOK, MapsOK, PublishersOK
    <3>2. scan' \in [Publishers -> SUBSET Subs]
      BY DEF Collect, TypeInv, TypeOK, PublishersOK
    <3>3. ppc' \in [Publishers -> {"idle", "scan", "next", "sync", "push", "enqueue",
                                  "notify"}]
      BY DEF Collect, Goto, TypeInv, TypeOK, PublishersOK
    <3> QED
      BY <3>1, <3>2, <3>3 DEF Collect, TypeInv, TypeOK, PublishersOK
  <2>4. ShutdownOK'
    BY DEF Collect, Goto, Matching, TypeInv, TypeOK, WellPlaced, MapsOK, ChannelsOK,
           PublishersOK, ShutdownOK
  <2>5. WellPlaced'
    BY DEF Collect, Goto, Matching, TypeInv, TypeOK, WellPlaced, MapsOK, ChannelsOK,
           PublishersOK, ShutdownOK
  <2> QED
    BY <2>1, <2>2, <2>3, <2>4, <2>5 DEF TypeOK
<1>2. Covered'
  BY DEF TypeInv, Covered, Collect
<1> QED
  BY <1>1, <1>2 DEF TypeInv

LEMMA TypeSkip ==
  ASSUME TypeInv, NEW p \in Publishers, NEW s \in Subs, Skip(p, s) PROVE TypeInv'
<1> USE BusParams DEF index, reg, counts, chan, msg, pub, stop, seen
<1>1. TypeOK' /\ WellPlaced'
  BY DEF Skip, Visited, First, TypeInv, TypeOK, WellPlaced, MapsOK, ChannelsOK,
         PublishersOK, ShutdownOK
<1>2. Covered'
  BY DEF TypeInv, Covered, Skip
<1> QED
  BY <1>1, <1>2 DEF TypeInv

LEMMA TypeSpawnAsync ==
  ASSUME TypeInv, NEW p \in Publishers, NEW s \in Subs, SpawnAsync(p, s) PROVE TypeInv'
<1> USE BusParams DEF index, reg, counts, chan, msg, pub, stop, seen
<1>1. Covered' /\ inFlight' \in Nat
  <2> DEFINE x == <<s, p, num[p]>>
  <2>1. IsFiniteSet(tasks) /\ tasks' = tasks \cup {x}
    BY DEF TypeInv, Covered, SpawnAsync
  <2> HIDE DEF x
  <2>a. /\ IsFiniteSet(tasks')
        /\ Cardinality(tasks') = IF x \in tasks THEN Cardinality(tasks)
                                 ELSE Cardinality(tasks) + 1
    BY <2>1, FS_AddElement
  <2>b. Cardinality(tasks) \in Nat
    BY <2>1, FS_CardinalityType
  <2>2. /\ IsFiniteSet(tasks')
        /\ Cardinality(tasks') <= Cardinality(tasks) + 1
        /\ Cardinality(tasks) \in Nat
    BY <2>a, <2>b
  <2>3. Cardinality(tasks') \in Nat
    BY <2>2, FS_CardinalityType
  <2> QED
    BY <2>2, <2>3 DEF TypeInv, TypeOK, ShutdownOK, Covered, SpawnAsync
<1>2. TypeOK' /\ WellPlaced'
  <2>1. MapsOK'
    BY DEF SpawnAsync, Visited, First, Handlers, TypeInv, TypeOK, WellPlaced, MapsOK,
           ChannelsOK, PublishersOK, ShutdownOK
  <2>2. ChannelsOK'
    BY DEF SpawnAsync, Visited, First, Handlers, TypeInv, TypeOK, WellPlaced, MapsOK,
           ChannelsOK, PublishersOK, ShutdownOK
  <2>3. PublishersOK'
    BY DEF SpawnAsync, Visited, First, Handlers, TypeInv, TypeOK, WellPlaced, MapsOK,
           ChannelsOK, PublishersOK, ShutdownOK
  <2>4. ShutdownOK'
    <3>1. <<s, p, num[p]>> \in Handlers
      <4>1. num[p] \in 1 .. MaxEvents
        BY DEF SpawnAsync, First, TypeInv, TypeOK, PublishersOK, WellPlaced
      <4> QED
        BY <4>1 DEF Handlers
    <3> QED
      BY <1>1, <3>1 DEF SpawnAsync, TypeInv, TypeOK, ShutdownOK, stop
  <2>5. WellPlaced'
    BY DEF SpawnAsync, Visited, First, Handlers, TypeInv, TypeOK, WellPlaced, MapsOK,
           ChannelsOK, PublishersOK, ShutdownOK
  <2> QED
    BY <2>1, <2>2, <2>3, <2>4, <2>5 DEF TypeOK
<1> QED
  BY <1>1, <1>2 DEF TypeInv

LEMMA TypeEnter ==
  ASSUME TypeInv, NEW p \in Publishers, NEW s \in Subs, Enter(p, s) PROVE TypeInv'
<1> USE BusParams DEF index, reg, counts, chan, msg, pub, stop, seen
<1>1. TypeOK' /\ WellPlaced'
  <2>1. MapsOK'
    BY DEF Enter, Visited, First, Goto, Channels, TypeInv, TypeOK, WellPlaced, MapsOK,
           ChannelsOK, PublishersOK, ShutdownOK
  <2>2. ChannelsOK'
    BY DEF Enter, Visited, First, Goto, Channels, TypeInv, TypeOK, WellPlaced, MapsOK,
           ChannelsOK, PublishersOK, ShutdownOK
  <2>3. PublishersOK'
    BY DEF Enter, Visited, First, Goto, Channels, TypeInv, TypeOK, WellPlaced, MapsOK,
           ChannelsOK, PublishersOK, ShutdownOK
  <2>4. ShutdownOK'
    BY DEF Enter, Visited, First, Goto, Channels, TypeInv, TypeOK, WellPlaced, MapsOK,
           ChannelsOK, PublishersOK, ShutdownOK
  <2>5. WellPlaced'
    <3>1. /\ ppc[p] = "next"
          /\ cur' = [cur EXCEPT ![p] = s]
          /\ ppc' = [ppc EXCEPT ![p] = IF Kind[s] = "sync" THEN "sync" ELSE "push"]
          /\ UNCHANGED <<num, scan, opc, rpc, spc, closing>>
      BY DEF Enter, First, Goto
    <3>2. Kind[s] # "sync" => s \in Channels
      BY DEF Enter, Channels
    <3> QED
      BY <3>1, <3>2 DEF TypeInv, TypeOK, WellPlaced, PublishersOK
  <2> QED
    BY <2>1, <2>2, <2>3, <2>4, <2>5 DEF TypeOK
<1>2. Covered'
  BY DEF TypeInv, Covered, Enter
<1> QED
  BY <1>1, <1>2 DEF TypeInv

LEMMA TypeHandlerDone == ASSUME TypeInv, NEW x \in tasks, HandlerDone(x) PROVE TypeInv'
<1> USE BusParams DEF index, reg, counts, chan, msg, pub, stop, seen
<1>1. Covered' /\ tasks' \subseteq Handlers /\ inFlight' \in Nat
  <2>1. IsFiniteSet(tasks) /\ x \in tasks /\ tasks' = tasks \ {x}
    BY DEF TypeInv, Covered, HandlerDone
  <2>2. /\ IsFiniteSet(tasks')
        /\ Cardinality(tasks') = Cardinality(tasks) - 1
        /\ Cardinality(tasks) \in Nat
        /\ Cardinality(tasks') \in Nat
    BY <2>1, FS_RemoveElement, FS_CardinalityType
  <2> QED
    BY <2>1, <2>2 DEF TypeInv, TypeOK, ShutdownOK, Covered, HandlerDone
<1>2. TypeOK' /\ WellPlaced'
  BY <1>1
     DEF HandlerDone, TypeInv, TypeOK, WellPlaced, MapsOK, ChannelsOK, PublishersOK,
         ShutdownOK
<1> QED
  BY <1>1, <1>2 DEF TypeInv

LEMMA TypeHandlerPanics ==
  ASSUME TypeInv, NEW x \in tasks, HandlerPanics(x) PROVE TypeInv'
<1> USE BusParams DEF index, reg, counts, chan, msg, pub, stop, seen
<1>1. Covered' /\ tasks' \subseteq Handlers /\ inFlight' \in Nat
  <2>1. IsFiniteSet(tasks) /\ x \in tasks /\ tasks' = tasks \ {x}
    BY DEF TypeInv, Covered, HandlerPanics
  <2>2. /\ IsFiniteSet(tasks')
        /\ Cardinality(tasks') = Cardinality(tasks) - 1
        /\ Cardinality(tasks) \in Nat
        /\ Cardinality(tasks') \in Nat
    BY <2>1, FS_RemoveElement, FS_CardinalityType
  <2> QED
    BY <2>1, <2>2 DEF TypeInv, TypeOK, ShutdownOK, Covered, HandlerPanics
<1>2. TypeOK' /\ WellPlaced'
  BY <1>1
     DEF HandlerPanics, TypeInv, TypeOK, WellPlaced, MapsOK, ChannelsOK, PublishersOK,
         ShutdownOK
<1> QED
  BY <1>1, <1>2 DEF TypeInv

LEMMA TypeSetShutdown == ASSUME TypeInv, SetShutdown PROVE TypeInv'
<1> USE BusParams DEF index, reg, counts, chan, msg, pub, stop, seen
<1>1. TypeOK' /\ WellPlaced'
  BY DEF SetShutdown, TypeInv, TypeOK, WellPlaced, MapsOK, ChannelsOK, PublishersOK,
         ShutdownOK
<1>2. Covered'
  BY DEF TypeInv, Covered, SetShutdown
<1> QED
  BY <1>1, <1>2 DEF TypeInv

LEMMA TypePollInFlight == ASSUME TypeInv, PollInFlight PROVE TypeInv'
<1> USE BusParams DEF index, reg, counts, chan, msg, pub, stop, seen
<1>1. TypeOK' /\ WellPlaced'
  BY DEF PollInFlight, TypeInv, TypeOK, WellPlaced, MapsOK, ChannelsOK, PublishersOK,
         ShutdownOK
<1>2. Covered'
  BY DEF TypeInv, Covered, PollInFlight
<1> QED
  BY <1>1, <1>2 DEF TypeInv

LEMMA TypeClearWake == ASSUME TypeInv, ClearWake PROVE TypeInv'
<1> USE BusParams DEF index, reg, counts, chan, msg, pub, stop, seen
<1>1. TypeOK' /\ WellPlaced'
  BY DEF ClearWake, NotifyWaiters, TypeInv, TypeOK, WellPlaced, MapsOK, ChannelsOK,
         PublishersOK, ShutdownOK
<1>2. Covered'
  BY DEF TypeInv, Covered, ClearWake
<1> QED
  BY <1>1, <1>2 DEF TypeInv

LEMMA TypeClearIndex == ASSUME TypeInv, ClearIndex PROVE TypeInv'
<1> USE BusParams DEF index, reg, counts, chan, msg, pub, stop, seen
<1>1. TypeOK' /\ WellPlaced'
  BY DEF ClearIndex, TypeInv, TypeOK, WellPlaced, MapsOK, ChannelsOK, PublishersOK,
         ShutdownOK
<1>2. Covered'
  BY DEF TypeInv, Covered, ClearIndex
<1> QED
  BY <1>1, <1>2 DEF TypeInv

LEMMA TypeClearTypes == ASSUME TypeInv, ClearTypes PROVE TypeInv'
<1> USE BusParams DEF index, reg, counts, chan, msg, pub, stop, seen
<1>1. TypeOK' /\ WellPlaced'
  BY DEF ClearTypes, TypeInv, TypeOK, WellPlaced, MapsOK, ChannelsOK, PublishersOK,
         ShutdownOK
<1>2. Covered'
  BY DEF TypeInv, Covered, ClearTypes
<1> QED
  BY <1>1, <1>2 DEF TypeInv

LEMMA TypeClearEntry == ASSUME TypeInv, NEW s \in Subs, ClearEntry(s) PROVE TypeInv'
<1> USE BusParams DEF index, reg, counts, chan, msg, pub, stop, seen
<1>1. TypeOK' /\ WellPlaced'
  BY DEF ClearEntry, Channels, TypeInv, TypeOK, WellPlaced, MapsOK, ChannelsOK,
         PublishersOK, ShutdownOK
<1>2. Covered'
  BY DEF TypeInv, Covered, ClearEntry
<1> QED
  BY <1>1, <1>2 DEF TypeInv

LEMMA TypeStep == TypeInv /\ [Next]_vars => TypeInv'
<1> SUFFICES ASSUME TypeInv, [Next]_vars PROVE TypeInv'
  OBVIOUS
<1>1. ASSUME NEW s \in Subs, Own(s) \/ Recv(s) PROVE TypeInv'
  BY <1>1, TypeSubscribe, TypeInsertEntry, TypeIndexEntry, TypeUnsubscribe, TypeUnindex,
     TypeClose, TypeWake, TypeReceive, TypeAwait
     DEF Own, Recv
<1>2. ASSUME NEW p \in Publishers, NEW s \in Subs,
             Collect(p, s) \/ Skip(p, s) \/ SpawnAsync(p, s) \/ Enter(p, s)
      PROVE TypeInv'
  BY <1>2, TypeCollect, TypeSkip, TypeSpawnAsync, TypeEnter
<1>3. ASSUME NEW p \in Publishers,
             Publish(p) \/ PublishRefused(p) \/ Dispatch(p) \/ RetryPush(p)
      PROVE TypeInv'
  BY <1>2, <1>3, TypePublish, TypePublishRefused, TypeSyncDone, TypePushCheck,
     TypeEnqueue, TypeDropNew, TypeRetryPush, TypePushNotify, TypePublishDone
     DEF Dispatch
<1>4. ASSUME NEW x \in tasks, HandlerDone(x) \/ HandlerPanics(x) PROVE TypeInv'
  BY <1>4, TypeHandlerDone, TypeHandlerPanics
<1>5. CASE SetShutdown \/ Shutdown
  BY <1>5, TypeSetShutdown, TypePollInFlight, TypeClearWake, TypeClearIndex,
     TypeClearTypes, TypeClearEntry
     DEF Shutdown
<1>6. CASE Rest \/ UNCHANGED vars
  BY <1>6
     DEF Rest, index, reg, counts, chan, msg, pub, stop, seen, vars, TypeInv, TypeOK,
         WellPlaced, MapsOK, ChannelsOK, PublishersOK, ShutdownOK, Covered
<1> QED
  BY <1>1, <1>3, <1>4, <1>5, <1>6 DEF Next

\* Every variable keeps its type, no queue outgrows its capacity and in_flight
\* never goes below zero, for any number of publishers and subscriptions.
THEOREM BusTyped == Spec => []TypeOK
<1>1. TypeInv => TypeOK
  BY DEF TypeInv
<1> QED
  BY <1>1, TypeInit, TypeStep, PTL DEF Spec

\* What the proofs below use of the types: where each process is says what it
\* holds, and in_flight covers every unfinished handler.
THEOREM BusTypeInv == Spec => []TypeInv
  BY TypeInit, TypeStep, PTL DEF Spec

-----------------------------------------------------------------------------
(* Removal of a subscription is final.                                     *)

\* The life of an entry: in the map only between insert and removal, never
\* both in the map and closed, and held by dispatchers only while in the map.
Entries ==
    /\ \A s \in Subs :
          /\ opc[s] \in {"new", "insert"} => s \notin subs /\ s \notin closed
          /\ opc[s] \in {"unindex", "close", "wake", "gone"} => s \notin subs
          /\ s \in closed => s \notin subs
          /\ rpc[s] = "ended" => s \in closed /\ queue[s] = << >>
    /\ \A p \in Publishers : cur[p] # None => cur[p] \in subs

\* Until shutdown, a subscription whose owner has not indexed it, or has
\* unindexed it, is in no index, and a live one is in the map.
Indexed ==
    \A s \in Subs :
        /\ opc[s] \in {"new", "insert", "index"} =>
              s \notin wildcard /\ \A ty \in EventTypes : s \notin byType[ty]
        /\ spc = "idle" /\ opc[s] \in {"close", "wake", "gone"} =>
              s \notin wildcard /\ \A ty \in EventTypes : s \notin byType[ty]
        /\ spc = "idle" /\ opc[s] \in {"index", "live"} => s \in subs

EntryInv == Entries /\ Indexed

LEMMA EntryInit == Init => EntryInv
  BY DEF Init, EntryInv, Entries, Indexed

LEMMA EntrySubscribe ==
  ASSUME TypeInv, EntryInv, NEW s \in Subs, Subscribe(s) PROVE EntryInv'
  BY BusParams
     DEF Subscribe, OwnerGoto, index, reg, counts, chan, msg, pub, stop, seen, EntryInv,
         Entries, Indexed, Unguarded, TypeInv, TypeOK, WellPlaced, MapsOK, ChannelsOK,
         PublishersOK, ShutdownOK

LEMMA EntryInsertEntry ==
  ASSUME TypeInv, EntryInv, NEW s \in Subs, InsertEntry(s) PROVE EntryInv'
  BY BusParams
     DEF InsertEntry, OwnerGoto, index, reg, counts, chan, msg, pub, stop, seen,
         EntryInv, Entries, Indexed, Unguarded, TypeInv, TypeOK, WellPlaced, MapsOK,
         ChannelsOK, PublishersOK, ShutdownOK

LEMMA EntryIndexEntry ==
  ASSUME TypeInv, EntryInv, NEW s \in Subs, IndexEntry(s) PROVE EntryInv'
  BY BusParams
     DEF IndexEntry, OwnerGoto, Channels, index, reg, counts, chan, msg, pub, stop,
         seen, EntryInv, Entries, Indexed, Unguarded, TypeInv, TypeOK, WellPlaced,
         MapsOK, ChannelsOK, PublishersOK, ShutdownOK

LEMMA EntryUnsubscribe ==
  ASSUME TypeInv, EntryInv, NEW s \in Subs, Unsubscribe(s) PROVE EntryInv'
  BY BusParams
     DEF Unsubscribe, OwnerGoto, index, reg, counts, chan, msg, pub, stop, seen,
         EntryInv, Entries, Indexed, Unguarded, TypeInv, TypeOK, WellPlaced, MapsOK,
         ChannelsOK, PublishersOK, ShutdownOK

LEMMA EntryUnindex ==
  ASSUME TypeInv, EntryInv, NEW s \in Subs, Unindex(s) PROVE EntryInv'
  BY BusParams
     DEF Unindex, OwnerGoto, index, reg, counts, chan, msg, pub, stop, seen, EntryInv,
         Entries, Indexed, Unguarded, TypeInv, TypeOK, WellPlaced, MapsOK, ChannelsOK,
         PublishersOK, ShutdownOK

LEMMA EntryClose ==
  ASSUME TypeInv, EntryInv, NEW s \in Subs, Close(s) PROVE EntryInv'
  BY BusParams
     DEF Close, OwnerGoto, index, reg, counts, chan, msg, pub, stop, seen, EntryInv,
         Entries, Indexed, Unguarded, TypeInv, TypeOK, WellPlaced, MapsOK, ChannelsOK,
         PublishersOK, ShutdownOK

LEMMA EntryWake ==
  ASSUME TypeInv, EntryInv, NEW s \in Subs, Wake(s) PROVE EntryInv'
  BY BusParams
     DEF Wake, OwnerGoto, NotifyWaiters, index, reg, counts, chan, msg, pub, stop, seen,
         EntryInv, Entries, Indexed, Unguarded, TypeInv, TypeOK, WellPlaced, MapsOK,
         ChannelsOK, PublishersOK, ShutdownOK

LEMMA EntryReceive ==
  ASSUME TypeInv, EntryInv, NEW s \in Subs, Receive(s) PROVE EntryInv'
  BY BusParams, SMTT(30)
     DEF Receive, Events, index, reg, counts, chan, msg, pub, stop, seen, EntryInv,
         Entries, Indexed, Unguarded, TypeInv, TypeOK, WellPlaced, MapsOK, ChannelsOK,
         PublishersOK, ShutdownOK

LEMMA EntryAwait ==
  ASSUME TypeInv, EntryInv, NEW s \in Subs, Await(s) PROVE EntryInv'
  BY BusParams
     DEF Await, index, reg, counts, chan, msg, pub, stop, seen, EntryInv, Entries,
         Indexed, Unguarded, TypeInv, TypeOK, WellPlaced, MapsOK, ChannelsOK,
         PublishersOK, ShutdownOK

LEMMA EntryPublish ==
  ASSUME TypeInv, EntryInv, NEW p \in Publishers, Publish(p) PROVE EntryInv'
  BY BusParams
     DEF Publish, Goto, index, reg, counts, chan, msg, pub, stop, seen, EntryInv,
         Entries, Indexed, Unguarded, TypeInv, TypeOK, WellPlaced, MapsOK, ChannelsOK,
         PublishersOK, ShutdownOK

LEMMA EntryPublishRefused ==
  ASSUME TypeInv, EntryInv, NEW p \in Publishers, PublishRefused(p) PROVE EntryInv'
  BY BusParams
     DEF PublishRefused, index, reg, counts, chan, msg, pub, stop, seen, EntryInv,
         Entries, Indexed, Unguarded, TypeInv, TypeOK, WellPlaced, MapsOK, ChannelsOK,
         PublishersOK, ShutdownOK

LEMMA EntrySyncDone ==
  ASSUME TypeInv, EntryInv, NEW p \in Publishers, SyncDone(p) PROVE EntryInv'
  BY BusParams
     DEF SyncDone, Goto, Leave, index, reg, counts, chan, msg, pub, stop, seen,
         EntryInv, Entries, Indexed, Unguarded, TypeInv, TypeOK, WellPlaced, MapsOK,
         ChannelsOK, PublishersOK, ShutdownOK

LEMMA EntryPushCheck ==
  ASSUME TypeInv, EntryInv, NEW p \in Publishers, PushCheck(p) PROVE EntryInv'
  BY BusParams
     DEF PushCheck, Goto, Leave, index, reg, counts, chan, msg, pub, stop, seen,
         EntryInv, Entries, Indexed, Unguarded, TypeInv, TypeOK, WellPlaced, MapsOK,
         ChannelsOK, PublishersOK, ShutdownOK

LEMMA EntryEnqueue ==
  ASSUME TypeInv, EntryInv, NEW p \in Publishers, Enqueue(p) PROVE EntryInv'
  BY BusParams
     DEF Enqueue, Goto, Full, Events, index, reg, counts, chan, msg, pub, stop, seen,
         EntryInv, Entries, Indexed, Unguarded, TypeInv, TypeOK, WellPlaced, MapsOK,
         ChannelsOK, PublishersOK, ShutdownOK

LEMMA EntryDropNew ==
  ASSUME TypeInv, EntryInv, NEW p \in Publishers, DropNew(p) PROVE EntryInv'
  BY BusParams
     DEF DropNew, Goto, Leave, index, reg, counts, chan, msg, pub, stop, seen, EntryInv,
         Entries, Indexed, Unguarded, TypeInv, TypeOK, WellPlaced, MapsOK, ChannelsOK,
         PublishersOK, ShutdownOK

LEMMA EntryRetryPush ==
  ASSUME TypeInv, EntryInv, NEW p \in Publishers, RetryPush(p) PROVE EntryInv'
  BY BusParams
     DEF RetryPush, Goto, index, reg, counts, chan, msg, pub, stop, seen, EntryInv,
         Entries, Indexed, Unguarded, TypeInv, TypeOK, WellPlaced, MapsOK, ChannelsOK,
         PublishersOK, ShutdownOK

LEMMA EntryPushNotify ==
  ASSUME TypeInv, EntryInv, NEW p \in Publishers, PushNotify(p) PROVE EntryInv'
  BY BusParams
     DEF PushNotify, Goto, Leave, NotifyOne, index, reg, counts, chan, msg, pub, stop,
         seen, EntryInv, Entries, Indexed, Unguarded, TypeInv, TypeOK, WellPlaced,
         MapsOK, ChannelsOK, PublishersOK, ShutdownOK

LEMMA EntryPublishDone ==
  ASSUME TypeInv, EntryInv, NEW p \in Publishers, PublishDone(p) PROVE EntryInv'
  BY BusParams
     DEF PublishDone, Goto, index, reg, counts, chan, msg, pub, stop, seen, EntryInv,
         Entries, Indexed, Unguarded, TypeInv, TypeOK, WellPlaced, MapsOK, ChannelsOK,
         PublishersOK, ShutdownOK

LEMMA EntryCollect ==
  ASSUME TypeInv, EntryInv, NEW p \in Publishers, NEW s \in Subs, Collect(p, s) PROVE EntryInv'
  BY BusParams
     DEF Collect, Goto, Matching, index, reg, counts, chan, msg, pub, stop, seen,
         EntryInv, Entries, Indexed, Unguarded, TypeInv, TypeOK, WellPlaced, MapsOK,
         ChannelsOK, PublishersOK, ShutdownOK

LEMMA EntrySkip ==
  ASSUME TypeInv, EntryInv, NEW p \in Publishers, NEW s \in Subs, Skip(p, s) PROVE EntryInv'
  BY BusParams
     DEF Skip, Visited, First, index, reg, counts, chan, msg, pub, stop, seen, EntryInv,
         Entries, Indexed, Unguarded, TypeInv, TypeOK, WellPlaced, MapsOK, ChannelsOK,
         PublishersOK, ShutdownOK

LEMMA EntrySpawnAsync ==
  ASSUME TypeInv, EntryInv, NEW p \in Publishers, NEW s \in Subs, SpawnAsync(p, s) PROVE EntryInv'
  BY BusParams
     DEF SpawnAsync, Visited, First, Handlers, index, reg, counts, chan, msg, pub, stop,
         seen, EntryInv, Entries, Indexed, Unguarded, TypeInv, TypeOK, WellPlaced,
         MapsOK, ChannelsOK, PublishersOK, ShutdownOK

LEMMA EntryEnter ==
  ASSUME TypeInv, EntryInv, NEW p \in Publishers, NEW s \in Subs, Enter(p, s) PROVE EntryInv'
  BY BusParams
     DEF Enter, Visited, First, Goto, Channels, index, reg, counts, chan, msg, pub,
         stop, seen, EntryInv, Entries, Indexed, Unguarded, TypeInv, TypeOK, WellPlaced,
         MapsOK, ChannelsOK, PublishersOK, ShutdownOK

LEMMA EntryHandlerDone ==
  ASSUME TypeInv, EntryInv, NEW x \in tasks, HandlerDone(x) PROVE EntryInv'
  BY BusParams
     DEF HandlerDone, index, reg, counts, chan, msg, pub, stop, seen, EntryInv, Entries,
         Indexed, Unguarded, TypeInv, TypeOK, WellPlaced, MapsOK, ChannelsOK,
         PublishersOK, ShutdownOK

LEMMA EntryHandlerPanics ==
  ASSUME TypeInv, EntryInv, NEW x \in tasks, HandlerPanics(x) PROVE EntryInv'
  BY BusParams
     DEF HandlerPanics, index, reg, counts, chan, msg, pub, stop, seen, EntryInv,
         Entries, Indexed, Unguarded, TypeInv, TypeOK, WellPlaced, MapsOK, ChannelsOK,
         PublishersOK, ShutdownOK

LEMMA EntrySetShutdown ==
  ASSUME TypeInv, EntryInv, SetShutdown PROVE EntryInv'
  BY BusParams
     DEF SetShutdown, index, reg, counts, chan, msg, pub, stop, seen, EntryInv, Entries,
         Indexed, Unguarded, TypeInv, TypeOK, WellPlaced, MapsOK, ChannelsOK,
         PublishersOK, ShutdownOK

LEMMA EntryPollInFlight ==
  ASSUME TypeInv, EntryInv, PollInFlight PROVE EntryInv'
  BY BusParams
     DEF PollInFlight, index, reg, counts, chan, msg, pub, stop, seen, EntryInv,
         Entries, Indexed, Unguarded, TypeInv, TypeOK, WellPlaced, MapsOK, ChannelsOK,
         PublishersOK, ShutdownOK

LEMMA EntryClearWake ==
  ASSUME TypeInv, EntryInv, ClearWake PROVE EntryInv'
  BY BusParams
     DEF ClearWake, NotifyWaiters, index, reg, counts, chan, msg, pub, stop, seen,
         EntryInv, Entries, Indexed, Unguarded, TypeInv, TypeOK, WellPlaced, MapsOK,
         ChannelsOK, PublishersOK, ShutdownOK

LEMMA EntryClearIndex ==
  ASSUME TypeInv, EntryInv, ClearIndex PROVE EntryInv'
  BY BusParams
     DEF ClearIndex, index, reg, counts, chan, msg, pub, stop, seen, EntryInv, Entries,
         Indexed, Unguarded, TypeInv, TypeOK, WellPlaced, MapsOK, ChannelsOK,
         PublishersOK, ShutdownOK

LEMMA EntryClearTypes ==
  ASSUME TypeInv, EntryInv, ClearTypes PROVE EntryInv'
  BY BusParams
     DEF ClearTypes, index, reg, counts, chan, msg, pub, stop, seen, EntryInv, Entries,
         Indexed, Unguarded, TypeInv, TypeOK, WellPlaced, MapsOK, ChannelsOK,
         PublishersOK, ShutdownOK

LEMMA EntryClearEntry ==
  ASSUME TypeInv, EntryInv, NEW s \in Subs, ClearEntry(s) PROVE EntryInv'
  BY BusParams, SMTT(30)
     DEF ClearEntry, Channels, index, reg, counts, chan, msg, pub, stop, seen, EntryInv,
         Entries, Indexed, Unguarded, TypeInv, TypeOK, WellPlaced, MapsOK, ChannelsOK,
         PublishersOK, ShutdownOK

LEMMA EntryStep == TypeInv /\ EntryInv /\ [Next]_vars => EntryInv'
<1> SUFFICES ASSUME TypeInv, EntryInv, [Next]_vars PROVE EntryInv'
  OBVIOUS
<1>1. ASSUME NEW s \in Subs, Own(s) \/ Recv(s) PROVE EntryInv'
  BY <1>1, EntrySubscribe, EntryInsertEntry, EntryIndexEntry, EntryUnsubscribe,
     EntryUnindex, EntryClose, EntryWake, EntryReceive, EntryAwait
     DEF Own, Recv
<1>2. ASSUME NEW p \in Publishers, NEW s \in Subs,
             Collect(p, s) \/ Skip(p, s) \/ SpawnAsync(p, s) \/ Enter(p, s)
      PROVE EntryInv'
  BY <1>2, EntryCollect, EntrySkip, EntrySpawnAsync, EntryEnter
<1>3. ASSUME NEW p \in Publishers,
             Publish(p) \/ PublishRefused(p) \/ Dispatch(p) \/ RetryPush(p)
      PROVE EntryInv'
  BY <1>2, <1>3, EntryPublish, EntryPublishRefused, EntrySyncDone, EntryPushCheck,
     EntryEnqueue, EntryDropNew, EntryRetryPush, EntryPushNotify, EntryPublishDone
     DEF Dispatch
<1>4. ASSUME NEW x \in tasks, HandlerDone(x) \/ HandlerPanics(x) PROVE EntryInv'
  BY <1>4, EntryHandlerDone, EntryHandlerPanics
<1>5. CASE SetShutdown \/ Shutdown
  BY <1>5, EntrySetShutdown, EntryPollInFlight, EntryClearWake, EntryClearIndex,
     EntryClearTypes, EntryClearEntry
     DEF Shutdown
<1>6. CASE Rest \/ UNCHANGED vars
  BY <1>6
     DEF Rest, index, reg, counts, chan, msg, pub, stop, seen, vars, EntryInv, Entries,
         Indexed
<1> QED
  BY <1>1, <1>3, <1>4, <1>5, <1>6 DEF Next

\* A receiver that recv has told the end never has an event in its queue:
\* the entry, and with it the sender, is only dropped when no dispatcher is
\* inside it, so no push follows the close, for any number of publishers.
THEOREM EndKept == Spec => []EndIsFinal
<1>1. EntryInv => EndIsFinal
  BY DEF EntryInv, Entries, EndIsFinal
<1> QED
  BY <1>1, BusTypeInv, EntryInit, EntryStep, PTL DEF Spec

\* Once the drop of a handle has returned, nothing is dispatched to the
\* subscription and no index names it, for any number of publishers.
THEOREM UnsubscribeKept == Spec => []UnsubscribeFinal
<1>1. TypeInv /\ EntryInv => UnsubscribeFinal
  BY BusParams
     DEF TypeInv, TypeOK, PublishersOK, EntryInv, Entries, Indexed, UnsubscribeFinal,
         Unguarded
<1> QED
  BY <1>1, BusTypeInv, EntryInit, EntryStep, PTL DEF Spec

-----------------------------------------------------------------------------
(* Shutdown waits for the handlers spawned before it.                      *)

\* A dispatcher visits a subscription once for an event: a handler it has
\* spawned is not spawned again.
Spent ==
    \A x \in tasks \cup early :
        /\ x[3] <= num[x[2]]
        /\ x[3] = num[x[2]] => x[1] \notin scan[x[2]] \cup todo[x[2]]

\* Before shutdown there are no early handlers.
DrainInv == Spent /\ EarlyHandlersDrain /\ (spc = "idle" => early = {})

LEMMA DrainInit == Init => DrainInv
  BY DEF Init, DrainInv, Spent, EarlyHandlersDrain

LEMMA DrainSubscribe ==
  ASSUME TypeInv, DrainInv, NEW s \in Subs, Subscribe(s) PROVE DrainInv'
  BY BusParams
     DEF Subscribe, OwnerGoto, pub, msg, stop, DrainInv, Spent, EarlyHandlersDrain,
         Handlers, TypeInv, TypeOK, PublishersOK, ShutdownOK, WellPlaced

LEMMA DrainInsertEntry ==
  ASSUME TypeInv, DrainInv, NEW s \in Subs, InsertEntry(s) PROVE DrainInv'
  BY BusParams
     DEF InsertEntry, OwnerGoto, pub, msg, stop, DrainInv, Spent, EarlyHandlersDrain,
         Handlers, TypeInv, TypeOK, PublishersOK, ShutdownOK, WellPlaced

LEMMA DrainIndexEntry ==
  ASSUME TypeInv, DrainInv, NEW s \in Subs, IndexEntry(s) PROVE DrainInv'
  BY BusParams
     DEF IndexEntry, OwnerGoto, Channels, pub, msg, stop, DrainInv, Spent,
         EarlyHandlersDrain, Handlers, TypeInv, TypeOK, PublishersOK, ShutdownOK,
         WellPlaced

LEMMA DrainUnsubscribe ==
  ASSUME TypeInv, DrainInv, NEW s \in Subs, Unsubscribe(s) PROVE DrainInv'
  BY BusParams
     DEF Unsubscribe, OwnerGoto, pub, msg, stop, DrainInv, Spent, EarlyHandlersDrain,
         Handlers, TypeInv, TypeOK, PublishersOK, ShutdownOK, WellPlaced

LEMMA DrainUnindex ==
  ASSUME TypeInv, DrainInv, NEW s \in Subs, Unindex(s) PROVE DrainInv'
  BY BusParams
     DEF Unindex, OwnerGoto, pub, msg, stop, DrainInv, Spent, EarlyHandlersDrain,
         Handlers, TypeInv, TypeOK, PublishersOK, ShutdownOK, WellPlaced

LEMMA DrainClose ==
  ASSUME TypeInv, DrainInv, NEW s \in Subs, Close(s) PROVE DrainInv'
  BY BusParams
     DEF Close, OwnerGoto, pub, msg, stop, DrainInv, Spent, EarlyHandlersDrain,
         Handlers, TypeInv, TypeOK, PublishersOK, ShutdownOK, WellPlaced

LEMMA DrainWake ==
  ASSUME TypeInv, DrainInv, NEW s \in Subs, Wake(s) PROVE DrainInv'
  BY BusParams
     DEF Wake, OwnerGoto, NotifyWaiters, pub, msg, stop, DrainInv, Spent,
         EarlyHandlersDrain, Handlers, TypeInv, TypeOK, PublishersOK, ShutdownOK,
         WellPlaced

LEMMA DrainReceive ==
  ASSUME TypeInv, DrainInv, NEW s \in Subs, Receive(s) PROVE DrainInv'
  BY BusParams
     DEF Receive, Events, pub, msg, stop, DrainInv, Spent, EarlyHandlersDrain, Handlers,
         TypeInv, TypeOK, PublishersOK, ShutdownOK, WellPlaced

LEMMA DrainAwait ==
  ASSUME TypeInv, DrainInv, NEW s \in Subs, Await(s) PROVE DrainInv'
  BY BusParams
     DEF Await, pub, msg, stop, DrainInv, Spent, EarlyHandlersDrain, Handlers, TypeInv,
         TypeOK, PublishersOK, ShutdownOK, WellPlaced

LEMMA DrainPublish ==
  ASSUME TypeInv, DrainInv, NEW p \in Publishers, Publish(p) PROVE DrainInv'
  BY BusParams
     DEF Publish, Goto, pub, msg, stop, DrainInv, Spent, EarlyHandlersDrain, Handlers,
         TypeInv, TypeOK, PublishersOK, ShutdownOK, WellPlaced

LEMMA DrainPublishRefused ==
  ASSUME TypeInv, DrainInv, NEW p \in Publishers, PublishRefused(p) PROVE DrainInv'
  BY BusParams
     DEF PublishRefused, pub, msg, stop, DrainInv, Spent, EarlyHandlersDrain, Handlers,
         TypeInv, TypeOK, PublishersOK, ShutdownOK, WellPlaced

LEMMA DrainSyncDone ==
  ASSUME TypeInv, DrainInv, NEW p \in Publishers, SyncDone(p) PROVE DrainInv'
  BY BusParams
     DEF SyncDone, Goto, Leave, pub, msg, stop, DrainInv, Spent, EarlyHandlersDrain,
         Handlers, TypeInv, TypeOK, PublishersOK, ShutdownOK, WellPlaced

LEMMA DrainPushCheck ==
  ASSUME TypeInv, DrainInv, NEW p \in Publishers, PushCheck(p) PROVE DrainInv'
  BY BusParams
     DEF PushCheck, Goto, Leave, pub, msg, stop, DrainInv, Spent, EarlyHandlersDrain,
         Handlers, TypeInv, TypeOK, PublishersOK, ShutdownOK, WellPlaced

LEMMA DrainEnqueue ==
  ASSUME TypeInv, DrainInv, NEW p \in Publishers, Enqueue(p) PROVE DrainInv'
  BY BusParams
     DEF Enqueue, Goto, Full, Events, pub, msg, stop, DrainInv, Spent,
         EarlyHandlersDrain, Handlers, TypeInv, TypeOK, PublishersOK, ShutdownOK,
         WellPlaced

LEMMA DrainDropNew ==
  ASSUME TypeInv, DrainInv, NEW p \in Publishers, DropNew(p) PROVE DrainInv'
  BY BusParams
     DEF DropNew, Goto, Leave, pub, msg, stop, DrainInv, Spent, EarlyHandlersDrain,
         Handlers, TypeInv, TypeOK, PublishersOK, ShutdownOK, WellPlaced

LEMMA DrainRetryPush ==
  ASSUME TypeInv, DrainInv, NEW p \in Publishers, RetryPush(p) PROVE DrainInv'
  BY BusParams
     DEF RetryPush, Goto, pub, msg, stop, DrainInv, Spent, EarlyHandlersDrain, Handlers,
         TypeInv, TypeOK, PublishersOK, ShutdownOK, WellPlaced

LEMMA DrainPushNotify ==
  ASSUME TypeInv, DrainInv, NEW p \in Publishers, PushNotify(p) PROVE DrainInv'
  BY BusParams
     DEF PushNotify, Goto, Leave, NotifyOne, pub, msg, stop, DrainInv, Spent,
         EarlyHandlersDrain, Handlers, TypeInv, TypeOK, PublishersOK, ShutdownOK,
         WellPlaced

LEMMA DrainPublishDone ==
  ASSUME TypeInv, DrainInv, NEW p \in Publishers, PublishDone(p) PROVE DrainInv'
  BY BusParams
     DEF PublishDone, Goto, pub, msg, stop, DrainInv, Spent, EarlyHandlersDrain,
         Handlers, TypeInv, TypeOK, PublishersOK, ShutdownOK, WellPlaced

LEMMA DrainCollect ==
  ASSUME TypeInv, DrainInv, NEW p \in Publishers, NEW s \in Subs, Collect(p, s) PROVE DrainInv'
  BY BusParams
     DEF Collect, Goto, Matching, pub, msg, stop, DrainInv, Spent, EarlyHandlersDrain,
         Handlers, TypeInv, TypeOK, PublishersOK, ShutdownOK, WellPlaced

LEMMA DrainSkip ==
  ASSUME TypeInv, DrainInv, NEW p \in Publishers, NEW s \in Subs, Skip(p, s) PROVE DrainInv'
  BY BusParams
     DEF Skip, Visited, First, pub, msg, stop, DrainInv, Spent, EarlyHandlersDrain,
         Handlers, TypeInv, TypeOK, PublishersOK, ShutdownOK, WellPlaced

LEMMA DrainSpawnAsync ==
  ASSUME TypeInv, DrainInv, NEW p \in Publishers, NEW s \in Subs, SpawnAsync(p, s) PROVE DrainInv'
<1> DEFINE y == <<s, p, num[p]>>
<1>1. y[1] = s /\ y[2] = p /\ y[3] = num[p]
  OBVIOUS
<1>2. /\ ppc[p] = "next" /\ s \in todo[p]
      /\ num' = num /\ scan' = scan /\ early' = early /\ spc' = spc
      /\ todo' = [todo EXCEPT ![p] = @ \ {s}]
      /\ tasks' = tasks \cup {y}
  BY DEF SpawnAsync, First, Visited, msg, stop
<1>3. y \notin early
  BY <1>1, <1>2 DEF DrainInv, Spent
<1>4. s \notin scan[p] \cup todo'[p]
  BY <1>2 DEF TypeInv, TypeOK, PublishersOK, WellPlaced
<1>5. \A x \in tasks \cup early : x[2] \in Publishers /\ todo'[x[2]] \subseteq todo[x[2]]
  BY <1>2 DEF TypeInv, TypeOK, PublishersOK, ShutdownOK, Handlers
<1> HIDE DEF y
<1>6. num[p] <= num[p]
  BY DEF TypeInv, TypeOK, PublishersOK
<1>7. Spent'
  BY <1>1, <1>2, <1>4, <1>5, <1>6 DEF DrainInv, Spent
<1> QED
  BY <1>2, <1>3, <1>7 DEF DrainInv, EarlyHandlersDrain

LEMMA DrainEnter ==
  ASSUME TypeInv, DrainInv, NEW p \in Publishers, NEW s \in Subs, Enter(p, s) PROVE DrainInv'
  BY BusParams
     DEF Enter, Visited, First, Goto, Channels, pub, msg, stop, DrainInv, Spent,
         EarlyHandlersDrain, Handlers, TypeInv, TypeOK, PublishersOK, ShutdownOK,
         WellPlaced

LEMMA DrainHandlerDone ==
  ASSUME TypeInv, DrainInv, NEW x \in tasks, HandlerDone(x) PROVE DrainInv'
  BY BusParams
     DEF HandlerDone, pub, msg, stop, DrainInv, Spent, EarlyHandlersDrain, Handlers,
         TypeInv, TypeOK, PublishersOK, ShutdownOK, WellPlaced

LEMMA DrainHandlerPanics ==
  ASSUME TypeInv, DrainInv, NEW x \in tasks, HandlerPanics(x) PROVE DrainInv'
  BY BusParams
     DEF HandlerPanics, pub, msg, stop, DrainInv, Spent, EarlyHandlersDrain, Handlers,
         TypeInv, TypeOK, PublishersOK, ShutdownOK, WellPlaced

LEMMA DrainSetShutdown ==
  ASSUME TypeInv, DrainInv, SetShutdown PROVE DrainInv'
  BY BusParams
     DEF SetShutdown, pub, msg, stop, DrainInv, Spent, EarlyHandlersDrain, Handlers,
         TypeInv, TypeOK, PublishersOK, ShutdownOK, WellPlaced

LEMMA DrainPollInFlight ==
  ASSUME TypeInv, DrainInv, PollInFlight PROVE DrainInv'
<1>1. IsFiniteSet(tasks) /\ Cardinality(tasks) \in Nat /\ Cardinality(tasks) <= 0
  BY FS_CardinalityType DEF TypeInv, Covered, PollInFlight
<1>2. tasks = {}
  BY <1>1, FS_EmptySet
<1> QED
  BY <1>2 DEF PollInFlight, pub, msg, DrainInv, Spent, EarlyHandlersDrain

LEMMA DrainClearWake ==
  ASSUME TypeInv, DrainInv, ClearWake PROVE DrainInv'
  BY BusParams
     DEF ClearWake, NotifyWaiters, pub, msg, stop, DrainInv, Spent, EarlyHandlersDrain,
         Handlers, TypeInv, TypeOK, PublishersOK, ShutdownOK, WellPlaced

LEMMA DrainClearIndex ==
  ASSUME TypeInv, DrainInv, ClearIndex PROVE DrainInv'
  BY BusParams
     DEF ClearIndex, pub, msg, stop, DrainInv, Spent, EarlyHandlersDrain, Handlers,
         TypeInv, TypeOK, PublishersOK, ShutdownOK, WellPlaced

LEMMA DrainClearTypes ==
  ASSUME TypeInv, DrainInv, ClearTypes PROVE DrainInv'
  BY BusParams
     DEF ClearTypes, pub, msg, stop, DrainInv, Spent, EarlyHandlersDrain, Handlers,
         TypeInv, TypeOK, PublishersOK, ShutdownOK, WellPlaced

LEMMA DrainClearEntry ==
  ASSUME TypeInv, DrainInv, NEW s \in Subs, ClearEntry(s) PROVE DrainInv'
  BY BusParams
     DEF ClearEntry, Channels, pub, msg, stop, DrainInv, Spent, EarlyHandlersDrain,
         Handlers, TypeInv, TypeOK, PublishersOK, ShutdownOK, WellPlaced

LEMMA DrainStep == TypeInv /\ DrainInv /\ [Next]_vars => DrainInv'
<1> SUFFICES ASSUME TypeInv, DrainInv, [Next]_vars PROVE DrainInv'
  OBVIOUS
<1>1. ASSUME NEW s \in Subs, Own(s) \/ Recv(s) PROVE DrainInv'
  BY <1>1, DrainSubscribe, DrainInsertEntry, DrainIndexEntry, DrainUnsubscribe,
     DrainUnindex, DrainClose, DrainWake, DrainReceive, DrainAwait
     DEF Own, Recv
<1>2. ASSUME NEW p \in Publishers, NEW s \in Subs,
             Collect(p, s) \/ Skip(p, s) \/ SpawnAsync(p, s) \/ Enter(p, s)
      PROVE DrainInv'
  BY <1>2, DrainCollect, DrainSkip, DrainSpawnAsync, DrainEnter
<1>3. ASSUME NEW p \in Publishers,
             Publish(p) \/ PublishRefused(p) \/ Dispatch(p) \/ RetryPush(p)
      PROVE DrainInv'
  BY <1>2, <1>3, DrainPublish, DrainPublishRefused, DrainSyncDone, DrainPushCheck,
     DrainEnqueue, DrainDropNew, DrainRetryPush, DrainPushNotify, DrainPublishDone
     DEF Dispatch
<1>4. ASSUME NEW x \in tasks, HandlerDone(x) \/ HandlerPanics(x) PROVE DrainInv'
  BY <1>4, DrainHandlerDone, DrainHandlerPanics
<1>5. CASE SetShutdown \/ Shutdown
  BY <1>5, DrainSetShutdown, DrainPollInFlight, DrainClearWake, DrainClearIndex,
     DrainClearTypes, DrainClearEntry
     DEF Shutdown
<1>6. CASE Rest \/ UNCHANGED vars
  BY <1>6
     DEF Rest, index, reg, counts, chan, msg, pub, stop, seen, vars, DrainInv, Spent,
         EarlyHandlersDrain
<1> QED
  BY <1>1, <1>3, <1>4, <1>5, <1>6 DEF Next

\* When shutdown starts to clear the subscriptions, every handler spawned before
\* it was called has ended, for any number of publishers and handlers.
THEOREM EarlyDrained == Spec => []EarlyHandlersDrain
<1>1. DrainInv => EarlyHandlersDrain
  BY DEF DrainInv
<1> QED
  BY <1>1, BusTypeInv, DrainInit, DrainStep, PTL DEF Spec

-----------------------------------------------------------------------------
(* A channel yields the events of a publisher in the order of publication. *)

\* p may still push its latest event into s.
Ahead(p, s) ==
    \/ s \in scan[p] \cup todo[p]
    \/ cur[p] = s /\ ppc[p] \in {"push", "enqueue"}

\* A dispatcher does not come back to the subscription it is in, and it has
\* visited them all when publish returns.
VisitsOnce ==
    \A p \in Publishers :
        /\ cur[p] \notin todo[p]
        /\ ppc[p] = "idle" => todo[p] = {}

\* What a channel has yielded is no newer than the latest event of its
\* publisher, and older while that event may still be pushed...
YieldedOld ==
    \A s \in Subs : \A p \in Publishers :
        /\ last[s][p] <= num[p]
        /\ Ahead(p, s) => last[s][p] < num[p]

\* ...and so is what it holds.
QueuedOld ==
    \A s \in Subs : \A i \in 1 .. Len(queue[s]) :
        /\ queue[s][i][2] <= num[queue[s][i][1]]
        /\ Ahead(queue[s][i][1], s) => queue[s][i][2] < num[queue[s][i][1]]

OrderInv == InOrder /\ VisitsOnce /\ YieldedOld /\ QueuedOld

LEMMA OrderInit == Init => OrderInv
  BY BusParams
     DEF Init, OrderInv, InOrder, VisitsOnce, YieldedOld, QueuedOld, Ahead

LEMMA QueuedEvent ==
  ASSUME TypeInv, NEW s \in Subs, NEW i \in 1 .. Len(queue[s])
  PROVE  /\ queue[s][i] \in Events
         /\ queue[s][i][1] \in Publishers
         /\ queue[s][i][2] \in 1 .. MaxEvents
<1>1. queue[s] \in Seq(Events)
  BY DEF TypeInv, TypeOK, ChannelsOK
<1>2. queue[s][i] \in Events
  BY <1>1
<1> QED
  BY <1>2 DEF Events

\* A step that leaves the queues and the numbers alone, and gives no
\* dispatcher a push it did not have ahead of it.
LEMMA OrderFrame ==
  ASSUME TypeInv, OrderInv, UNCHANGED <<queue, last, num>>, VisitsOnce',
         \A p \in Publishers : \A s \in Subs : Ahead(p, s)' => Ahead(p, s)
  PROVE  OrderInv'
<1>1. InOrder'
  BY DEF OrderInv, InOrder
<1>2. YieldedOld'
  BY DEF OrderInv, YieldedOld
<1>3. QueuedOld'
  BY QueuedEvent DEF OrderInv, QueuedOld
<1> QED
  BY <1>1, <1>2, <1>3 DEF OrderInv

LEMMA OrderQuiet ==
  ASSUME TypeInv, OrderInv, UNCHANGED <<queue, last, num, scan, todo, cur, ppc>>
  PROVE  OrderInv'
<1>1. VisitsOnce'
  BY DEF OrderInv, VisitsOnce
<1>2. \A p \in Publishers : \A s \in Subs : Ahead(p, s)' => Ahead(p, s)
  BY DEF Ahead
<1> QED
  BY <1>1, <1>2, OrderFrame

\* The next event is newer than everything before it.
LEMMA OrderPublish ==
  ASSUME TypeInv, OrderInv, NEW p \in Publishers, ppc[p] = "idle", num[p] < MaxEvents,
         num' = [num EXCEPT ![p] = @ + 1], UNCHANGED <<queue, last, todo, cur>>,
         \A r \in Publishers \ {p} : ppc'[r] = ppc[r] /\ scan'[r] = scan[r]
  PROVE  OrderInv'
<1>1. InOrder'
  BY DEF OrderInv, InOrder
<1>2. todo[p] = {} /\ VisitsOnce'
  BY DEF OrderInv, VisitsOnce
<1>3. /\ num \in [Publishers -> 0 .. MaxEvents] /\ MaxEvents \in Nat
      /\ last \in [Subs -> [Publishers -> 0 .. MaxEvents]]
  BY BusParams DEF TypeInv, TypeOK, PublishersOK, ChannelsOK
<1>4. \A r \in Publishers \ {p} : \A s \in Subs : Ahead(r, s)' => Ahead(r, s)
  BY DEF Ahead
<1>5. /\ num'[p] = num[p] + 1 /\ num[p] \in Int
      /\ \A r \in Publishers \ {p} : num'[r] = num[r]
  BY <1>3
<1>6. YieldedOld'
  <2> SUFFICES ASSUME NEW s \in Subs, NEW r \in Publishers
               PROVE  /\ last[s][r] <= num'[r]
                      /\ Ahead(r, s)' => last[s][r] < num'[r]
    BY DEF YieldedOld
  <2>1. last[s][r] \in Int /\ last[s][r] <= num[r]
    BY <1>3 DEF OrderInv, YieldedOld
  <2>2. CASE r = p
    BY <2>1, <2>2, <1>5
  <2>3. CASE r # p
    BY <2>1, <2>3, <1>4, <1>5 DEF OrderInv, YieldedOld
  <2> QED
    BY <2>2, <2>3
<1>7. QueuedOld'
  <2> SUFFICES ASSUME NEW s \in Subs, NEW i \in 1 .. Len(queue[s])
               PROVE  /\ queue[s][i][2] <= num'[queue[s][i][1]]
                      /\ Ahead(queue[s][i][1], s)' =>
                           queue[s][i][2] < num'[queue[s][i][1]]
    BY DEF QueuedOld
  <2> DEFINE r == queue[s][i][1]
             n == queue[s][i][2]
  <2>1. r \in Publishers /\ n \in Int /\ n <= num[r] /\ (Ahead(r, s) => n < num[r])
    BY QueuedEvent DEF OrderInv, QueuedOld
  <2>2. Ahead(queue[s][i][1], s)' <=> Ahead(r, s)'
    BY DEF Ahead
  <2> QED
    <3>1. CASE r = p
      BY <2>1, <3>1, <1>5
    <3>2. CASE r # p
      BY <2>1, <2>2, <3>2, <1>4, <1>5
    <3> QED
      BY <3>1, <3>2
<1> QED
  BY <1>1, <1>2, <1>6, <1>7 DEF OrderInv

LEMMA TailAt ==
  ASSUME NEW S, NEW q \in Seq(S), q # << >>
  PROVE  /\ Tail(q) \in Seq(S) /\ Len(Tail(q)) = Len(q) - 1 /\ Len(q) \in Nat \ {0}
         /\ \A i \in 1 .. Len(Tail(q)) : i + 1 \in 1 .. Len(q) /\ Tail(q)[i] = q[i + 1]
  OBVIOUS

\* The oldest event is taken: the rest of its publisher's is newer.
LEMMA OrderReceive ==
  ASSUME TypeInv, OrderInv, NEW s \in Subs, Receive(s) PROVE OrderInv'
<1>1. CASE queue[s] = << >>
  BY <1>1, OrderQuiet DEF Receive, pub, msg, seen
<1>2. CASE queue[s] # << >>
  <2> DEFINE q == queue[s]
             b == Head(q)[1]
             n == Head(q)[2]
  <2>1. /\ queue' = [queue EXCEPT ![s] = Tail(q)]
        /\ last' = [last EXCEPT ![s] = [last[s] EXCEPT ![b] = n]]
        /\ UNCHANGED <<num, scan, todo, cur, ppc>>
    BY <1>2 DEF Receive, pub, msg
  <2>2. /\ queue \in [Subs -> Seq(Events)] /\ num \in [Publishers -> 0 .. MaxEvents]
        /\ last \in [Subs -> [Publishers -> 0 .. MaxEvents]] /\ MaxEvents \in Nat
    BY BusParams DEF TypeInv, TypeOK, ChannelsOK, PublishersOK
  <2>3. /\ Len(Tail(q)) = Len(q) - 1 /\ Len(q) \in Nat \ {0}
        /\ \A i \in 1 .. Len(Tail(q)) : i + 1 \in 1 .. Len(q) /\ Tail(q)[i] = q[i + 1]
        /\ 1 \in 1 .. Len(q) /\ Head(q) = q[1]
    BY <1>2, <2>2, TailAt
  <2>4. \A i \in 1 .. Len(q) : q[i][1] \in Publishers /\ q[i][2] \in Int
    BY QueuedEvent
  <2>5. b \in Publishers /\ n \in Int /\ b = q[1][1] /\ n = q[1][2]
    BY <2>3, <2>4
  <2>6. /\ queue'[s] = Tail(q) /\ \A u \in Subs \ {s} : queue'[u] = queue[u]
        /\ last'[s][b] = n /\ \A r \in Publishers \ {b} : last'[s][r] = last[s][r]
        /\ \A u \in Subs \ {s} : last'[u] = last[u]
    BY <2>1, <2>2, <2>5
  <2>7. \A p \in Publishers : \A u \in Subs : Ahead(p, u)' <=> Ahead(p, u)
    BY <2>1 DEF Ahead
  <2>8. \A i \in 1 .. Len(q) :
           /\ q[i][2] > last[s][q[i][1]] /\ q[i][2] <= num[q[i][1]]
           /\ Ahead(q[i][1], s) => q[i][2] < num[q[i][1]]
           /\ \A j \in 1 .. Len(q) : i < j /\ q[i][1] = q[j][1] => q[i][2] < q[j][2]
    BY DEF OrderInv, InOrder, QueuedOld
  <2> HIDE DEF q, b, n
  <2>9. InOrder'
    <3>1. \A i \in 1 .. Len(Tail(q)) :
             /\ Tail(q)[i][2] > last'[s][Tail(q)[i][1]]
             /\ \A j \in 1 .. Len(Tail(q)) :
                   i < j /\ Tail(q)[i][1] = Tail(q)[j][1] => Tail(q)[i][2] < Tail(q)[j][2]
      <4> SUFFICES ASSUME NEW i \in 1 .. Len(Tail(q))
                   PROVE  /\ q[i + 1][2] > last'[s][q[i + 1][1]]
                          /\ \A j \in 1 .. Len(Tail(q)) :
                                i < j /\ q[i + 1][1] = q[j + 1][1]
                                  => q[i + 1][2] < q[j + 1][2]
        BY <2>3
      <4>1. i + 1 \in 1 .. Len(q) /\ 1 < i + 1
        BY <2>3
      <4>2. q[i + 1][2] > last'[s][q[i + 1][1]]
        <5>1. CASE q[i + 1][1] = b
          <6>1. q[1][2] < q[i + 1][2]
            BY <4>1, <5>1, <2>3, <2>5, <2>8
          <6> QED
            BY <6>1, <4>1, <5>1, <2>3, <2>4, <2>5, <2>6
        <5>2. CASE q[i + 1][1] # b
          BY <4>1, <5>2, <2>4, <2>6, <2>8
        <5> QED
          BY <5>1, <5>2
      <4>3. ASSUME NEW j \in 1 .. Len(Tail(q)), i < j, q[i + 1][1] = q[j + 1][1]
            PROVE  q[i + 1][2] < q[j + 1][2]
        <5>1. j + 1 \in 1 .. Len(q) /\ i + 1 < j + 1
          BY <4>3, <2>3
        <5> QED
          BY <5>1, <4>1, <4>3, <2>8
      <4> QED
        BY <4>2, <4>3
    <3>2. ASSUME NEW u \in Subs, NEW i \in 1 .. Len(queue'[u])
          PROVE  /\ queue'[u][i][2] > last'[u][queue'[u][i][1]]
                 /\ \A j \in 1 .. Len(queue'[u]) :
                       i < j /\ queue'[u][i][1] = queue'[u][j][1]
                         => queue'[u][i][2] < queue'[u][j][2]
      <4>1. CASE u = s
        BY <4>1, <3>1, <2>6
      <4>2. CASE u # s
        BY <4>2, <3>2, <2>6 DEF OrderInv, InOrder
      <4> QED
        BY <4>1, <4>2
    <3> QED
      BY <3>2 DEF InOrder
  <2>10. YieldedOld'
    <3>1. n <= num[b] /\ (Ahead(b, s) => n < num[b])
      BY <2>3, <2>5, <2>8
    <3> SUFFICES ASSUME NEW u \in Subs, NEW r \in Publishers
                 PROVE  last'[u][r] <= num[r] /\ (Ahead(r, u) => last'[u][r] < num[r])
      BY <2>1, <2>7 DEF YieldedOld
    <3>2. CASE u = s /\ r = b
      BY <3>1, <3>2, <2>6
    <3>3. CASE ~(u = s /\ r = b)
      BY <3>3, <2>6 DEF OrderInv, YieldedOld
    <3> QED
      BY <3>2, <3>3
  <2>11. QueuedOld'
    <3> SUFFICES ASSUME NEW u \in Subs, NEW i \in 1 .. Len(queue'[u])
                 PROVE  /\ queue'[u][i][2] <= num[queue'[u][i][1]]
                        /\ Ahead(queue[u][i][1], u)' =>
                              queue'[u][i][2] < num[queue'[u][i][1]]
      BY <2>1 DEF QueuedOld
    <3>1. CASE u = s
      <4>1. queue'[u][i] = q[i + 1] /\ i + 1 \in 1 .. Len(q)
        BY <3>1, <2>3, <2>6
      <4>2. Ahead(queue[u][i][1], u)' => Ahead(q[i + 1][1], s)
        BY <4>1, <3>1, <2>1 DEF Ahead
      <4> QED
        BY <4>1, <4>2, <2>8
    <3>2. CASE u # s
      <4>1. queue'[u] = queue[u]
        BY <3>2, <2>6
      <4>2. Ahead(queue[u][i][1], u)' => Ahead(queue[u][i][1], u)
        BY <4>1, <2>1 DEF Ahead
      <4> QED
        BY <4>1, <4>2 DEF OrderInv, QueuedOld
    <3> QED
      BY <3>1, <3>2
  <2>12. VisitsOnce'
    BY <2>1 DEF OrderInv, VisitsOnce
  <2> QED
    BY <2>9, <2>10, <2>11, <2>12 DEF OrderInv
<1> QED
  BY <1>1, <1>2

\* The event that is pushed is newer than what its publisher had pushed, and
\* an eviction takes the oldest event away.
LEMMA OrderEnqueue ==
  ASSUME TypeInv, OrderInv, NEW p \in Publishers, Enqueue(p) PROVE OrderInv'
<1> DEFINE s == cur[p]
           q == queue[s]
           k == IF Full(s) THEN Tail(q) ELSE q
           d == IF Full(s) THEN 1 ELSE 0
           e == <<p, num[p]>>
           a == Append(k, e)
<1>1. /\ ppc[p] = "enqueue" /\ ppc' = [ppc EXCEPT ![p] = "notify"]
      /\ queue' = [queue EXCEPT ![s] = a]
      /\ UNCHANGED <<num, scan, todo, cur, last>>
  BY DEF Enqueue, Goto, msg, seen
<1>2. /\ queue \in [Subs -> Seq(Events)] /\ num \in [Publishers -> 0 .. MaxEvents]
      /\ last \in [Subs -> [Publishers -> 0 .. MaxEvents]] /\ MaxEvents \in Nat
      /\ ppc \in [Publishers -> {"idle", "scan", "next", "sync", "push", "enqueue",
                                 "notify"}]
      /\ Capacity \in Nat \ {0}
  BY BusParams DEF TypeInv, TypeOK, ChannelsOK, PublishersOK
<1>3. s \in Subs /\ num[p] \in 1 .. MaxEvents /\ scan[p] = {} /\ s \notin todo[p]
  <2>1. s \in Channels /\ num[p] > 0 /\ scan[p] = {}
    BY <1>1 DEF TypeInv, WellPlaced
  <2>2. s \notin todo[p] /\ num[p] \in 0 .. MaxEvents
    BY <1>2 DEF OrderInv, VisitsOnce
  <2> QED
    BY <2>1, <2>2, <1>2 DEF Channels
<1>4. q \in Seq(Events) /\ Len(q) \in Nat /\ e \in Events /\ e[1] = p /\ e[2] = num[p]
  BY <1>2, <1>3 DEF Events
<1>5. /\ k \in Seq(Events) /\ Len(k) = Len(q) - d /\ d \in {0, 1} /\ Len(k) \in Nat
      /\ \A i \in 1 .. Len(k) : i + d \in 1 .. Len(q) /\ k[i] = q[i + d]
  <2>1. CASE Full(s)
    <3>1. q # << >> /\ d = 1 /\ k = Tail(q)
      BY <2>1, <1>2, <1>4 DEF Full
    <3> QED
      BY <3>1, <1>4, TailAt
  <2>2. CASE ~Full(s)
    <3>1. d = 0 /\ k = q
      BY <2>2
    <3> QED
      BY <3>1, <1>4
  <2> QED
    BY <2>1, <2>2
<1>6. \A i \in 1 .. Len(q) : q[i][1] \in Publishers /\ q[i][2] \in Int
  BY <1>3, QueuedEvent
<1>7. \A i \in 1 .. Len(q) :
         /\ q[i][2] > last[s][q[i][1]] /\ q[i][2] <= num[q[i][1]]
         /\ Ahead(q[i][1], s) => q[i][2] < num[q[i][1]]
         /\ \A j \in 1 .. Len(q) : i < j /\ q[i][1] = q[j][1] => q[i][2] < q[j][2]
  BY <1>3 DEF OrderInv, InOrder, QueuedOld
<1>8. Ahead(p, s) /\ last[s][p] < num[p] /\ last[s][p] \in Int
  BY <1>1, <1>2, <1>3 DEF OrderInv, YieldedOld, Ahead
<1>9. /\ \A u \in Subs : ~Ahead(p, u)' \/ u # s
      /\ \A r \in Publishers : \A u \in Subs : Ahead(r, u)' => Ahead(r, u)
  BY <1>1, <1>2, <1>3 DEF Ahead
<1> HIDE DEF s, q, k, d, e
<1>10. /\ Len(a) = Len(k) + 1 /\ a[Len(k) + 1] = e
       /\ \A i \in 1 .. Len(k) : a[i] = k[i]
  BY <1>4, <1>5
<1>11. queue'[s] = a /\ \A u \in Subs \ {s} : queue'[u] = queue[u]
  BY <1>1, <1>2, <1>3
<1>12. \A i \in 1 .. Len(a) :
          \/ i \in 1 .. Len(k) /\ i + d \in 1 .. Len(q) /\ a[i] = q[i + d]
          \/ i = Len(k) + 1 /\ a[i] = e
  BY <1>5, <1>10
<1> HIDE DEF a
<1>13. InOrder'
  <2>1. \A i \in 1 .. Len(a) : a[i][2] > last[s][a[i][1]]
    BY <1>4, <1>7, <1>8, <1>12, <1>3
  <2>2. ASSUME NEW i \in 1 .. Len(a), NEW j \in 1 .. Len(a), i < j, a[i][1] = a[j][1]
        PROVE  a[i][2] < a[j][2]
    <3>1. i \in 1 .. Len(k) /\ i + d \in 1 .. Len(q) /\ a[i] = q[i + d]
      BY <2>2, <1>5, <1>10, <1>12
    <3>2. CASE j = Len(k) + 1 /\ a[j] = e
      BY <3>1, <3>2, <2>2, <1>4, <1>7, <1>8
    <3>3. CASE j + d \in 1 .. Len(q) /\ a[j] = q[j + d]
      <4>1. i + d < j + d
        BY <2>2, <1>5
      <4> QED
        BY <4>1, <3>1, <3>3, <2>2, <1>7
    <3> QED
      BY <3>2, <3>3, <1>12
  <2> QED
    BY <2>1, <2>2, <1>1, <1>11 DEF OrderInv, InOrder
<1>14. YieldedOld'
  BY <1>1, <1>9 DEF OrderInv, YieldedOld
<1>15. QueuedOld'
  <2> SUFFICES ASSUME NEW u \in Subs, NEW i \in 1 .. Len(queue'[u])
               PROVE  /\ queue'[u][i][2] <= num[queue'[u][i][1]]
                      /\ Ahead(queue[u][i][1], u)' =>
                            queue'[u][i][2] < num[queue'[u][i][1]]
    BY <1>1 DEF QueuedOld
  <2>1. CASE u # s
    <3>1. queue'[u] = queue[u]
      BY <2>1, <1>11
    <3>2. queue[u][i][1] \in Publishers
      BY <3>1, QueuedEvent
    <3>3. Ahead(queue[u][i][1], u)' => Ahead(queue[u][i][1], u)
      BY <3>1, <3>2, <1>1, <1>2 DEF Ahead
    <3> QED
      BY <3>1, <3>3 DEF OrderInv, QueuedOld
  <2>2. CASE u = s /\ i + d \in 1 .. Len(q) /\ a[i] = q[i + d]
    <3>1. queue'[u][i] = q[i + d]
      BY <2>2, <1>11
    <3>2. Ahead(queue[u][i][1], u)' => Ahead(q[i + d][1], s)
      BY <3>1, <2>2, <1>1, <1>2, <1>6 DEF Ahead
    <3> QED
      BY <3>1, <3>2, <2>2, <1>7
  <2>3. CASE u = s /\ a[i] = e
    <3>1. queue'[u][i] = e
      BY <2>3, <1>11
    <3>2. ~Ahead(queue[u][i][1], u)'
      BY <3>1, <2>3, <1>1, <1>2, <1>3, <1>4 DEF Ahead
    <3> QED
      BY <3>1, <3>2, <1>3, <1>4
  <2> QED
    BY <2>1, <2>2, <2>3, <1>11, <1>12
<1>16. VisitsOnce'
  BY <1>1, <1>2 DEF OrderInv, VisitsOnce
<1> QED
  BY <1>13, <1>14, <1>15, <1>16 DEF OrderInv

\* Collecting moves a subscription from the scan to the list of visits.
LEMMA OrderCollect ==
  ASSUME TypeInv, OrderInv, NEW p \in Publishers, NEW s \in Subs, Collect(p, s)
  PROVE  OrderInv'
<1>1. /\ UNCHANGED <<queue, last, num, cur>> /\ ppc[p] = "scan" /\ cur[p] = None
      /\ s \in scan[p] /\ scan' = [scan EXCEPT ![p] = @ \ {s}]
  BY DEF Collect, chan, seen, TypeInv, WellPlaced
<1>2. /\ todo'[p] \subseteq todo[p] \cup {s} /\ todo'[p] \subseteq Subs
      /\ \A r \in Publishers \ {p} : todo'[r] = todo[r]
      /\ ppc'[p] \in {"scan", "next"}
      /\ \A r \in Publishers \ {p} : ppc'[r] = ppc[r]
  BY DEF Collect, Goto, TypeInv, TypeOK, PublishersOK
<1>3. VisitsOnce'
  BY <1>1, <1>2, BusParams DEF OrderInv, VisitsOnce
<1>4. \A r \in Publishers : \A u \in Subs : Ahead(r, u)' => Ahead(r, u)
  BY <1>1, <1>2 DEF Ahead, TypeInv, TypeOK, PublishersOK
<1> QED
  BY <1>1, <1>3, <1>4, OrderFrame

\* A visit takes the subscription off the list.
LEMMA OrderVisit ==
  ASSUME TypeInv, OrderInv, NEW p \in Publishers, NEW s \in Subs,
         Skip(p, s) \/ SpawnAsync(p, s) \/ Enter(p, s)
  PROVE  OrderInv'
<1>1. /\ UNCHANGED <<queue, last, num, scan>> /\ s \in todo[p] /\ ppc[p] = "next"
      /\ todo' = [todo EXCEPT ![p] = @ \ {s}]
      /\ \/ UNCHANGED <<cur, ppc>>
         \/ /\ cur' = [cur EXCEPT ![p] = s]
            /\ ppc' = [ppc EXCEPT ![p] = IF Kind[s] = "sync" THEN "sync" ELSE "push"]
  BY DEF Skip, SpawnAsync, Enter, First, Visited, Goto, chan, seen, msg
<1>2. VisitsOnce'
  BY <1>1 DEF OrderInv, VisitsOnce, TypeInv, TypeOK, PublishersOK
<1>3. \A r \in Publishers : \A u \in Subs : Ahead(r, u)' => Ahead(r, u)
  BY <1>1 DEF Ahead, TypeInv, TypeOK, PublishersOK
<1> QED
  BY <1>1, <1>2, <1>3, OrderFrame

\* The dispatcher goes on with, or leaves, the subscription it is in.
LEMMA OrderInside ==
  ASSUME TypeInv, OrderInv, NEW p \in Publishers,
         \/ SyncDone(p) \/ PushCheck(p) \/ DropNew(p) \/ RetryPush(p) \/ PushNotify(p)
         \/ PublishDone(p)
  PROVE  OrderInv'
<1>1. /\ UNCHANGED <<queue, last, num, scan, todo>>
      /\ \/ /\ cur' = [cur EXCEPT ![p] = None] /\ ppc' = [ppc EXCEPT ![p] = "next"]
         \/ /\ cur' = cur
            /\ \/ ppc[p] = "push" /\ ppc' = [ppc EXCEPT ![p] = "enqueue"]
               \/ ppc[p] = "enqueue" /\ ppc' = [ppc EXCEPT ![p] = "push"]
               \/ todo[p] = {} /\ ppc' = [ppc EXCEPT ![p] = "idle"]
  BY DEF SyncDone, PushCheck, DropNew, RetryPush, PushNotify, PublishDone, Leave, Goto,
         chan, seen, msg
<1>2. VisitsOnce'
  BY <1>1, BusParams DEF OrderInv, VisitsOnce, TypeInv, TypeOK, PublishersOK
<1>3. \A r \in Publishers : \A u \in Subs : Ahead(r, u)' => Ahead(r, u)
  BY <1>1, BusParams DEF Ahead, TypeInv, TypeOK, PublishersOK
<1> QED
  BY <1>1, <1>2, <1>3, OrderFrame

LEMMA OrderStep == TypeInv /\ OrderInv /\ [Next]_vars => OrderInv'
<1> SUFFICES ASSUME TypeInv, OrderInv, [Next]_vars PROVE OrderInv'
  OBVIOUS
<1> USE DEF chan, pub, msg, seen
<1>1. ASSUME NEW s \in Subs, Own(s) \/ Await(s) PROVE OrderInv'
  <2>1. UNCHANGED <<queue, last, num, scan, todo, cur, ppc>>
    BY <1>1 DEF Own, Await, Subscribe, InsertEntry, IndexEntry, Unsubscribe, Unindex,
                Close, Wake
  <2> QED
    BY <2>1, OrderQuiet
<1>2. ASSUME NEW p \in Publishers, Publish(p) \/ PublishRefused(p) PROVE OrderInv'
  <2>1. /\ ppc[p] = "idle" /\ num[p] < MaxEvents
        /\ num' = [num EXCEPT ![p] = @ + 1] /\ UNCHANGED <<queue, last, todo, cur>>
        /\ \A r \in Publishers \ {p} : ppc'[r] = ppc[r] /\ scan'[r] = scan[r]
    BY <1>2 DEF Publish, PublishRefused, Goto, TypeInv, TypeOK, PublishersOK
  <2> QED
    BY <2>1, OrderPublish
<1>3. ASSUME NEW p \in Publishers, Dispatch(p) \/ RetryPush(p) PROVE OrderInv'
  BY <1>3, OrderCollect, OrderVisit, OrderInside, OrderEnqueue DEF Dispatch
<1>4. ASSUME NEW x \in tasks, HandlerDone(x) \/ HandlerPanics(x) PROVE OrderInv'
  <2>1. UNCHANGED <<queue, last, num, scan, todo, cur, ppc>>
    BY <1>4 DEF HandlerDone, HandlerPanics
  <2> QED
    BY <2>1, OrderQuiet
<1>5. CASE SetShutdown \/ Shutdown \/ Rest \/ UNCHANGED vars
  <2>1. UNCHANGED <<queue, last, num, scan, todo, cur, ppc>>
    BY <1>5 DEF SetShutdown, Shutdown, PollInFlight, ClearEntry, ClearWake, ClearIndex,
                ClearTypes, Rest, vars
  <2> QED
    BY <2>1, OrderQuiet
<1> QED
  BY <1>1, <1>2, <1>3, <1>4, <1>5, OrderReceive DEF Next, Recv

\* A channel yields the events of a publisher in the order they were
\* published, each at most once, for any number of publishers, capacity and
\* slow-consumer policy, and whatever is evicted, retried or dropped.
THEOREM ChannelsInOrder == Spec => []InOrder
<1>1. OrderInv => InOrder
  BY DEF OrderInv
<1> QED
  BY <1>1, BusTypeInv, OrderInit, OrderStep, PTL DEF Spec

-----------------------------------------------------------------------------
(* The metrics account for every event.                                    *)

CountInv == Conserved /\ IsFiniteSet(Counting) /\ IsFiniteSet(InQueues)

LEMMA CountInit == Init => CountInv
<1> SUFFICES ASSUME Init PROVE CountInv
  OBVIOUS
<1>1. Counting = {} /\ InQueues = {} /\ Counting \cap evicts = {}
  BY DEF Init, Counting, InQueues
<1>2. delivered = 0 /\ taken = 0 /\ dropped = 0
  BY DEF Init
<1> QED
  BY <1>1, <1>2, FS_EmptySet DEF CountInv, Conserved

\* What is counted are numbers.
LEMMA CountNat ==
  ASSUME TypeInv, CountInv
  PROVE  /\ delivered \in Nat /\ taken \in Nat /\ dropped \in Nat
         /\ Cardinality(Counting) \in Nat /\ Cardinality(InQueues) \in Nat
         /\ IsFiniteSet(Counting \cap evicts) /\ Cardinality(Counting \cap evicts) \in Nat
<1>1. IsFiniteSet(Counting \cap evicts)
  BY FS_Subset DEF CountInv
<1> QED
  BY <1>1, FS_CardinalityType DEF CountInv, TypeInv, TypeOK, ChannelsOK, ShutdownOK

\* A step that no counter, queue or push takes part in; a refused event is
\* counted as dropped under the policies that evict none.
LEMMA CountQuiet ==
  ASSUME CountInv, UNCHANGED <<queue, delivered, taken, evicts>>,
         dropped' = dropped \/ Policy # "oldest", Counting' = Counting
  PROVE  CountInv'
BY DEF CountInv, Conserved, InQueues

\* A handler that ends is counted twice: as delivered and as handled.
LEMMA CountHandled ==
  ASSUME TypeInv, CountInv, UNCHANGED <<queue, dropped, evicts>>, Counting' = Counting,
         delivered' = delivered + 1, taken' = taken + 1
  PROVE  CountInv'
<1>1. InQueues' = InQueues /\ (Counting \cap evicts)' = Counting \cap evicts
  BY DEF InQueues
<1> QED
  BY <1>1, CountNat DEF CountInv, Conserved

\* The receiver takes the oldest event.
LEMMA CountReceive ==
  ASSUME TypeInv, CountInv, NEW s \in Subs, Receive(s)
  PROVE  CountInv'
<1>1. Counting' = Counting /\ UNCHANGED <<delivered, dropped, evicts>>
  BY DEF Receive, Counting, counts, pub
<1>2. CASE queue[s] = << >>
  BY <1>1, <1>2, CountQuiet DEF Receive, seen
<1>3. CASE queue[s] # << >>
  <2> DEFINE n == Len(queue[s])
  <2>1. /\ queue \in [Subs -> Seq(Events)] /\ n \in Nat /\ n >= 1
        /\ queue' = [queue EXCEPT ![s] = Tail(@)] /\ taken' = taken + 1
        /\ Len(queue'[s]) = n - 1
    BY <1>3 DEF Receive, TypeInv, TypeOK, ChannelsOK
  <2>2. \A u \in Subs \ {s} : queue'[u] = queue[u]
    BY <2>1
  <2> HIDE DEF n
  <2>3. 1 .. Len(queue'[s]) = (1 .. n) \ {n} /\ n \in 1 .. n
    BY <2>1
  <2>4. InQueues' = InQueues \ {<<s, n>>} /\ <<s, n>> \in InQueues
    <3>1. InQueues' \subseteq InQueues \ {<<s, n>>}
      BY <2>2, <2>3 DEF InQueues, n
    <3>2. InQueues \ {<<s, n>>} \subseteq InQueues'
      BY <2>2, <2>3 DEF InQueues, n
    <3>3. <<s, n>> \in InQueues
      BY <2>3 DEF InQueues, n
    <3> QED
      BY <3>1, <3>2, <3>3
  <2>5. IsFiniteSet(InQueues') /\ Cardinality(InQueues') = Cardinality(InQueues) - 1
    BY <2>4, FS_RemoveElement DEF CountInv
  <2> QED
    BY <1>1, <2>1, <2>5, CountNat DEF CountInv, Conserved
<1> QED
  BY <1>2, <1>3

\* A push is in the queue, and to be counted; what it evicted is to be counted
\* as dropped.
LEMMA CountEnqueue ==
  ASSUME TypeInv, CountInv, NEW p \in Publishers, Enqueue(p)
  PROVE  CountInv'
<1> DEFINE s == cur[p]
           n == Len(queue[s])
<1>1. /\ queue \in [Subs -> Seq(Events)] /\ s \in Subs /\ n \in Nat
      /\ ppc \in [Publishers -> {"idle", "scan", "next", "sync", "push", "enqueue",
                                 "notify"}]
      /\ ppc[p] = "enqueue" /\ ppc' = [ppc EXCEPT ![p] = "notify"]
      /\ UNCHANGED <<delivered, dropped, taken>> /\ (Full(s) => n >= 1)
  BY BusParams DEF Enqueue, Goto, Full, TypeInv, TypeOK, WellPlaced, ChannelsOK, PublishersOK,
         counts, seen, Channels
<1>2. /\ queue' = [queue EXCEPT ![s] = Append(IF Full(s) THEN Tail(@) ELSE @, <<p, num[p]>>)]
      /\ evicts' = IF Full(s) THEN evicts \cup {p} ELSE evicts \ {p}
      /\ ~Full(s) \/ Policy = "oldest"
  BY DEF Enqueue
<1>3. Len(queue'[s]) = IF Full(s) THEN n ELSE n + 1
  <2>1. <<p, num[p]>> \in Events
    <3>1. num[p] \in 0 .. MaxEvents /\ num[p] > 0
      BY <1>1 DEF TypeInv, TypeOK, PublishersOK, WellPlaced
    <3>2. num[p] \in 1 .. MaxEvents
      BY <3>1, BusParams
    <3> QED
      BY <3>2 DEF Events
  <2>2. queue[s] \in Seq(Events) /\ (Full(s) => queue[s] # << >>)
    BY <1>1
  <2>3. Len(Append(queue[s], <<p, num[p]>>)) = n + 1
    BY <2>1, <2>2
  <2>4. Full(s) => Tail(queue[s]) \in Seq(Events) /\ Len(Tail(queue[s])) = n - 1
    BY <2>2
  <2>5. Full(s) => Len(Append(Tail(queue[s]), <<p, num[p]>>)) = n
    BY <1>1, <2>1, <2>4
  <2> QED
    BY <1>1, <1>2, <2>3, <2>5
<1>4. \A u \in Subs \ {s} : queue'[u] = queue[u]
  BY <1>1, <1>2
<1>5. Counting' = Counting \cup {p} /\ p \notin Counting
  BY <1>1 DEF Counting
<1>6. IsFiniteSet(Counting') /\ Cardinality(Counting') = Cardinality(Counting) + 1
  BY <1>5, FS_AddElement DEF CountInv
<1> HIDE DEF s, n
<1>7. CASE Full(s)
  <2>1. InQueues' = InQueues
    BY <1>1, <1>3, <1>4, <1>7 DEF InQueues, n
  <2>2. (Counting \cap evicts)' = (Counting \cap evicts) \cup {p} /\ p \notin Counting \cap evicts
    BY <1>2, <1>5, <1>7
  <2>3. Cardinality((Counting \cap evicts)') = Cardinality(Counting \cap evicts) + 1
    BY <2>2, CountNat, FS_AddElement
  <2> QED
    <3>1. /\ Cardinality(Counting)' = Cardinality(Counting) + 1
          /\ Cardinality(InQueues)' = Cardinality(InQueues)
          /\ Cardinality(Counting \cap evicts)' = Cardinality(Counting \cap evicts) + 1
          /\ delivered' = delivered /\ dropped' = dropped /\ taken' = taken
          /\ Policy = "oldest" /\ Conserved
      BY <1>1, <1>2, <1>6, <1>7, <2>1, <2>3 DEF CountInv
    <3>2. Conserved'
      BY <3>1, CountNat DEF Conserved
    <3> QED
      BY <3>2, <1>6, <2>1 DEF CountInv
<1>8. CASE ~Full(s)
  <2>1. 1 .. Len(queue'[s]) = (1 .. n) \cup {n + 1} /\ n + 1 \notin 1 .. n
    BY <1>1, <1>3, <1>8
  <2>2. InQueues' = InQueues \cup {<<s, n + 1>>} /\ <<s, n + 1>> \notin InQueues
    <3>1. InQueues' \subseteq InQueues \cup {<<s, n + 1>>}
      BY <1>1, <1>4, <2>1 DEF InQueues, n
    <3>2. InQueues \cup {<<s, n + 1>>} \subseteq InQueues'
      BY <1>1, <1>4, <2>1 DEF InQueues, n
    <3>3. <<s, n + 1>> \notin InQueues
      BY <2>1 DEF InQueues, n
    <3> QED
      BY <3>1, <3>2, <3>3
  <2>3. IsFiniteSet(InQueues') /\ Cardinality(InQueues') = Cardinality(InQueues) + 1
    BY <2>2, FS_AddElement DEF CountInv
  <2>4. (Counting \cap evicts)' = Counting \cap evicts
    BY <1>2, <1>5, <1>8
  <2> QED
    <3>1. /\ Cardinality(Counting)' = Cardinality(Counting) + 1
          /\ Cardinality(InQueues)' = Cardinality(InQueues) + 1
          /\ Cardinality(Counting \cap evicts)' = Cardinality(Counting \cap evicts)
          /\ delivered' = delivered /\ dropped' = dropped /\ taken' = taken
          /\ Conserved
      BY <1>1, <1>6, <2>3, <2>4 DEF CountInv
    <3>2. Conserved'
      BY <3>1, CountNat DEF Conserved
    <3> QED
      BY <3>2, <1>6, <2>3 DEF CountInv
<1> QED
  BY <1>7, <1>8

\* The push is counted, with what it evicted.
LEMMA CountNotify ==
  ASSUME TypeInv, CountInv, NEW p \in Publishers, PushNotify(p)
  PROVE  CountInv'
<1>1. /\ ppc[p] = "notify" /\ ppc' = [ppc EXCEPT ![p] = "next"]
      /\ delivered' = delivered + 1 /\ UNCHANGED <<queue, taken>>
      /\ dropped' = IF p \in evicts THEN dropped + 1 ELSE dropped
      /\ evicts' = evicts \ {p}
  BY DEF PushNotify, Leave, Goto, seen
<1>2. /\ Counting' = Counting \ {p} /\ p \in Counting
      /\ (Counting \cap evicts)' = (Counting \cap evicts) \ {p}
  BY <1>1 DEF Counting, TypeInv, TypeOK, PublishersOK
<1>3. IsFiniteSet(Counting') /\ Cardinality(Counting') = Cardinality(Counting) - 1
  BY <1>2, FS_RemoveElement DEF CountInv
<1>4. Cardinality((Counting \cap evicts)') =
        IF p \in evicts THEN Cardinality(Counting \cap evicts) - 1
                        ELSE Cardinality(Counting \cap evicts)
  BY <1>2, CountNat, FS_RemoveElement
<1>5. InQueues' = InQueues
  BY <1>1 DEF InQueues
<1> QED
  BY <1>1, <1>3, <1>4, <1>5, CountNat DEF CountInv, Conserved

LEMMA CountStep == TypeInv /\ EntryInv /\ CountInv /\ [Next]_vars => CountInv'
<1> SUFFICES ASSUME TypeInv, EntryInv, CountInv, [Next]_vars PROVE CountInv'
  OBVIOUS
<1> USE DEF chan, pub, msg, seen, counts
<1>q. ASSUME UNCHANGED <<queue, delivered, taken, evicts, dropped, ppc>> PROVE CountInv'
  BY <1>q, CountQuiet DEF Counting
<1>1. ASSUME NEW s \in Subs, Own(s) \/ Await(s) PROVE CountInv'
  BY <1>1, <1>q DEF Own, Await, Subscribe, InsertEntry, IndexEntry, Unsubscribe, Unindex,
                Close, Wake
<1>n. ASSUME NEW p \in Publishers, NEW l, l # "notify", ppc[p] # "notify",
             ppc' = [ppc EXCEPT ![p] = l]
      PROVE  Counting' = Counting
  BY <1>n DEF Counting, TypeInv, TypeOK, PublishersOK
<1>2. ASSUME NEW p \in Publishers, NEW s \in Subs,
             Collect(p, s) \/ Skip(p, s) \/ SpawnAsync(p, s) \/ Enter(p, s)
      PROVE  CountInv'
  <2>1. UNCHANGED <<queue, delivered, taken, evicts, dropped>>
    BY <1>2 DEF Collect, Skip, SpawnAsync, Enter
  <2>2. CASE UNCHANGED ppc
    BY <2>1, <2>2, <1>q
  <2>3. CASE ppc[p] \in {"scan", "next"} /\ \E l \in {"next", "scan", "sync", "push"} :
               ppc' = [ppc EXCEPT ![p] = l]
    BY <2>1, <2>3, <1>n, CountQuiet
  <2> QED
    BY <1>2, <2>2, <2>3 DEF Collect, Skip, SpawnAsync, Enter, First, Goto
<1>3. ASSUME NEW p \in Publishers, SyncDone(p) PROVE CountInv'
  <2>1. ppc[p] = "sync" /\ ppc' = [ppc EXCEPT ![p] = "next"]
    BY <1>3 DEF SyncDone, Leave, Goto
  <2>2. Counting' = Counting
    BY <2>1, <1>n
  <2> QED
    BY <1>3, <2>2, CountHandled DEF SyncDone
<1>4. ASSUME NEW p \in Publishers, PushCheck(p) PROVE CountInv'
  <2>1. ppc[p] = "push" /\ cur[p] \in Channels
    BY <1>4 DEF PushCheck, TypeInv, WellPlaced
  <2>2. cur[p] \notin closed
    BY <2>1, BusParams DEF EntryInv, Entries, Channels
  <2>3. ppc' = [ppc EXCEPT ![p] = "enqueue"]
        /\ UNCHANGED <<queue, delivered, taken, evicts, dropped>>
    BY <1>4, <2>2 DEF PushCheck, Goto
  <2>4. Counting' = Counting
    BY <2>1, <2>3, <1>n
  <2> QED
    BY <2>3, <2>4, CountQuiet
<1>5. ASSUME NEW p \in Publishers, DropNew(p) PROVE CountInv'
  <2>1. /\ ppc[p] = "enqueue" /\ ppc' = [ppc EXCEPT ![p] = "next"]
        /\ Policy # "oldest" /\ UNCHANGED <<queue, delivered, taken, evicts>>
    BY <1>5 DEF DropNew, Leave, Goto
  <2>2. Counting' = Counting
    BY <2>1, <1>n
  <2> QED
    BY <2>1, <2>2, CountQuiet
<1>6. ASSUME NEW p \in Publishers,
             RetryPush(p) \/ PublishDone(p) \/ Publish(p) \/ PublishRefused(p)
      PROVE  CountInv'
  <2>1. UNCHANGED <<queue, delivered, taken, evicts, dropped>>
    BY <1>6 DEF RetryPush, PublishDone, Publish, PublishRefused
  <2>2. CASE UNCHANGED ppc
    BY <2>1, <2>2, <1>q
  <2>3. CASE ppc[p] \in {"enqueue", "next", "idle"} /\ \E l \in {"push", "idle", "scan"} :
               ppc' = [ppc EXCEPT ![p] = l]
    BY <2>1, <2>3, <1>n, CountQuiet
  <2> QED
    BY <1>6, <2>2, <2>3 DEF RetryPush, PublishDone, Publish, PublishRefused, Goto
<1>7. ASSUME NEW x \in tasks, HandlerDone(x) \/ HandlerPanics(x) PROVE CountInv'
  <2>1. CASE HandlerDone(x)
    BY <2>1, CountHandled DEF HandlerDone, Counting
  <2>2. CASE HandlerPanics(x)
    BY <2>2, <1>q DEF HandlerPanics
  <2> QED
    BY <1>7, <2>1, <2>2
<1>8. CASE SetShutdown \/ Shutdown \/ Rest \/ UNCHANGED vars
  BY <1>8, <1>q DEF SetShutdown, Shutdown, PollInFlight, ClearEntry, ClearWake, ClearIndex,
                    ClearTypes, Rest, vars
<1>9. ASSUME NEW p \in Publishers, Dispatch(p) PROVE CountInv'
  BY <1>9, <1>2, <1>3, <1>4, <1>5, <1>6, CountEnqueue, CountNotify DEF Dispatch
<1> QED
  BY <1>1, <1>6, <1>7, <1>8, <1>9, CountReceive DEF Next, Recv

\* The metrics account for every event, for any number of publishers and
\* subscriptions, any capacity and each slow-consumer policy: what delivered
\* counts was received, handled, is queued, or was evicted and is in dropped.
THEOREM EventsCounted == Spec => []Conserved
<1>1. CountInv => Conserved
  BY DEF CountInv
<1>2. Init => TypeInv /\ EntryInv /\ CountInv
  BY TypeInit, EntryInit, CountInit
<1>3. TypeInv /\ EntryInv /\ CountInv /\ [Next]_vars => (TypeInv /\ EntryInv /\ CountInv)'
  BY TypeStep, EntryStep, CountStep
<1> QED
  BY <1>1, <1>2, <1>3, PTL DEF Spec

-----------------------------------------------------------------------------
(* No wake-up is lost.                                                     *)

\* A publisher has pushed into s and is about to notify its receiver.
Notifying(p, s) == ppc[p] = "notify" /\ cur[p] = s

\* A receiver that found its queue empty and sees no event that was pushed
\* since is going to: it will find a permit, or a publisher is at notify_one.
WakeComing ==
    \A s \in Subs : rpc[s] \in {"arm", "wait"} /\ queue[s] # << >> =>
        \/ rpc[s] = "arm" /\ s \in permit
        \/ \E p \in Publishers : Notifying(p, s)

\* No channel gets an event or a receiver that goes to wait, no permit is
\* used, and no publisher leaves its notify.
LEMMA WakeFrame ==
  ASSUME WakeComing, UNCHANGED <<queue, permit>>,
         \A s \in Subs : rpc'[s] = rpc[s] \/ rpc'[s] \notin {"arm", "wait"},
         \A p \in Publishers : ppc[p] = "notify" => ppc'[p] = "notify" /\ cur'[p] = cur[p]
  PROVE  WakeComing'
<1> SUFFICES ASSUME NEW s \in Subs, rpc'[s] \in {"arm", "wait"}, queue[s] # << >>
             PROVE  \/ rpc'[s] = "arm" /\ s \in permit
                    \/ \E p \in Publishers : Notifying(p, s)'
  BY DEF WakeComing
<1>1. rpc'[s] = rpc[s]
  OBVIOUS
<1>2. \A p \in Publishers : Notifying(p, s) => Notifying(p, s)'
  BY DEF Notifying
<1> QED
  BY <1>1, <1>2 DEF WakeComing

LEMMA WakeReceive ==
  ASSUME TypeInv, WakeComing, NEW u \in Subs, Receive(u)
  PROVE  WakeComing'
<1>1. /\ UNCHANGED <<permit, ppc, cur>>
      /\ \A s \in Subs : s # u => rpc'[s] = rpc[s] /\ queue'[s] = queue[s]
      /\ rpc'[u] \in {"arm", "wait"} => queue'[u] = << >>
  BY DEF Receive, pub, TypeInv, TypeOK, ChannelsOK
<1> QED
  BY <1>1 DEF WakeComing, Notifying

LEMMA WakeAwait ==
  ASSUME TypeInv, WakeComing, NEW u \in Subs, Await(u)
  PROVE  WakeComing'
<1>1. /\ UNCHANGED <<queue, ppc, cur>> /\ rpc[u] = "arm"
      /\ \A s \in Subs : s # u => rpc'[s] = rpc[s] /\ (s \in permit' <=> s \in permit)
      /\ u \in permit => rpc'[u] = "check"
  BY DEF Await, pub, TypeInv, TypeOK, ChannelsOK
<1> QED
  BY <1>1 DEF WakeComing, Notifying

\* An event is pushed: its publisher is to notify.
LEMMA WakeEnqueue ==
  ASSUME TypeInv, WakeComing, NEW r \in Publishers, Enqueue(r)
  PROVE  WakeComing'
<1>1. /\ UNCHANGED <<permit, rpc, cur>> /\ ppc[r] = "enqueue" /\ ppc'[r] = "notify"
      /\ \A p \in Publishers : p # r => ppc'[p] = ppc[p]
      /\ \A s \in Subs : s # cur[r] => queue'[s] = queue[s]
  BY DEF Enqueue, Goto, TypeInv, TypeOK, PublishersOK, ChannelsOK
<1> SUFFICES ASSUME NEW s \in Subs, rpc[s] \in {"arm", "wait"}, queue'[s] # << >>
             PROVE  \/ rpc[s] = "arm" /\ s \in permit
                    \/ \E p \in Publishers : Notifying(p, s)'
  BY <1>1 DEF WakeComing
<1>2. CASE s = cur[r]
  BY <1>1, <1>2 DEF Notifying
<1>3. CASE s # cur[r]
  BY <1>1, <1>3 DEF WakeComing, Notifying
<1> QED
  BY <1>2, <1>3

LEMMA WakeNotify ==
  ASSUME TypeInv, WakeComing, NEW r \in Publishers, PushNotify(r)
  PROVE  WakeComing'
<1>0. cur[r] \in Subs
  BY DEF PushNotify, TypeInv, WellPlaced, Channels
<1>1. /\ UNCHANGED queue
      /\ \A p \in Publishers : p # r => ppc'[p] = ppc[p] /\ cur'[p] = cur[p]
      /\ \A s \in Subs : s # cur[r] => rpc'[s] = rpc[s] /\ (s \in permit' <=> s \in permit)
      /\ rpc'[cur[r]] # "wait" /\ (rpc'[cur[r]] = "arm" => cur[r] \in permit')
  BY <1>0 DEF PushNotify, NotifyOne, Leave, Goto, TypeInv, TypeOK, PublishersOK, ChannelsOK
<1> SUFFICES ASSUME NEW s \in Subs, rpc'[s] \in {"arm", "wait"}, queue[s] # << >>
             PROVE  \/ rpc'[s] = "arm" /\ s \in permit'
                    \/ \E p \in Publishers : Notifying(p, s)'
  BY <1>1 DEF WakeComing
<1>2. CASE s = cur[r]
  BY <1>1, <1>2
<1>3. CASE s # cur[r]
  <2>1. \A p \in Publishers : Notifying(p, s) => Notifying(p, s)'
    BY <1>1, <1>3 DEF Notifying
  <2> QED
    BY <1>1, <1>3, <2>1 DEF WakeComing
<1> QED
  BY <1>2, <1>3

LEMMA WakeStep == TypeInv /\ WakeComing /\ [Next]_vars => WakeComing'
<1> SUFFICES ASSUME TypeInv, WakeComing, [Next]_vars PROVE WakeComing'
  OBVIOUS
<1> USE DEF chan, pub, msg
<1>1. ASSUME NEW u \in Subs, Own(u) PROVE WakeComing'
  <2>1. /\ UNCHANGED <<queue, permit, ppc, cur>>
        /\ UNCHANGED rpc \/ rpc' = [rpc EXCEPT ![u] = "check"]
    BY <1>1 DEF Own, Subscribe, InsertEntry, IndexEntry, Unsubscribe, Unindex, Close, Wake,
                NotifyWaiters
  <2> QED
    BY <2>1, WakeFrame DEF TypeInv, TypeOK, ChannelsOK
<1>2. ASSUME NEW p \in Publishers, NEW s \in Subs,
             Collect(p, s) \/ Skip(p, s) \/ SpawnAsync(p, s) \/ Enter(p, s)
      PROVE  WakeComing'
  <2>1. /\ UNCHANGED <<queue, permit, rpc>> /\ ppc[p] # "notify"
        /\ \A r \in Publishers : r # p => ppc'[r] = ppc[r] /\ cur'[r] = cur[r]
    BY <1>2 DEF Collect, Skip, SpawnAsync, Enter, First, Goto, TypeInv, TypeOK, PublishersOK
  <2> QED
    BY <2>1, WakeFrame
<1>3. ASSUME NEW p \in Publishers,
             \/ Publish(p) \/ PublishRefused(p) \/ SyncDone(p) \/ PushCheck(p) \/ DropNew(p)
             \/ RetryPush(p) \/ PublishDone(p)
      PROVE  WakeComing'
  <2>1. /\ UNCHANGED <<queue, permit, rpc>> /\ ppc[p] # "notify"
        /\ \A r \in Publishers : r # p => ppc'[r] = ppc[r] /\ cur'[r] = cur[r]
    BY <1>3 DEF Publish, PublishRefused, SyncDone, PushCheck, DropNew, RetryPush,
                PublishDone, Leave, Goto, TypeInv, TypeOK, PublishersOK
  <2> QED
    BY <2>1, WakeFrame
<1>4. ASSUME NEW x \in tasks, HandlerDone(x) \/ HandlerPanics(x) PROVE WakeComing'
  BY <1>4, WakeFrame DEF HandlerDone, HandlerPanics
<1>5. CASE SetShutdown \/ Shutdown \/ Rest \/ UNCHANGED vars
  <2>1. /\ UNCHANGED <<queue, permit, ppc, cur>>
        /\ UNCHANGED rpc \/ rpc' = [rpc EXCEPT ![closing] = "check"]
    BY <1>5 DEF SetShutdown, Shutdown, PollInFlight, ClearEntry, ClearWake, ClearIndex,
                ClearTypes, NotifyWaiters, Rest, vars
  <2> QED
    BY <2>1, WakeFrame DEF TypeInv, TypeOK, ChannelsOK
<1>6. ASSUME NEW p \in Publishers, Dispatch(p) PROVE WakeComing'
  BY <1>2, <1>3, <1>6, WakeEnqueue, WakeNotify DEF Dispatch
<1> QED
  BY <1>1, <1>3, <1>4, <1>5, <1>6, WakeReceive, WakeAwait DEF Next, Recv

\* A receiver sleeps on a queue with an event only while the publisher of one
\* is between its push and notify_one: an event pushed between the receiver's
\* look at the queue and its wait leaves a permit.  QueuesDrain adds that the
\* publishers and the receiver go on.
NoLostWakeup ==
    \A s \in Subs : rpc[s] = "wait" /\ queue[s] # << >> =>
        \E p \in Publishers : Notifying(p, s)

THEOREM NoWakeupLost == Spec => []NoLostWakeup
<1>1. Init => WakeComing
  BY DEF Init, WakeComing
<1>2. WakeComing => NoLostWakeup
  BY DEF WakeComing, NoLostWakeup
<1> QED
  BY <1>1, <1>2, BusTypeInv, WakeStep, PTL DEF Spec

-----------------------------------------------------------------------------
(* Shutdown waits for nothing but handlers.                                *)

\* Unless a handler panics, in_flight is the number of unfinished handlers:
\* the loop of shutdown ends with the last of them.  (A panic leaves in_flight
\* raised for good.)
InFlightExact == ~Panics => inFlight = Cardinality(tasks)

LEMMA ExactStep == TypeInv /\ DrainInv /\ InFlightExact /\ [Next]_vars => InFlightExact'
<1> SUFFICES ASSUME TypeInv, DrainInv, InFlightExact, [Next]_vars, ~Panics
             PROVE  inFlight' = Cardinality(tasks')
  BY DEF InFlightExact
<1>0. /\ inFlight = Cardinality(tasks) /\ IsFiniteSet(tasks) /\ inFlight \in Nat
  BY DEF InFlightExact, TypeInv, TypeOK, ShutdownOK, Covered
<1>1. CASE UNCHANGED <<inFlight, tasks>>
  BY <1>0, <1>1
<1>2. ASSUME NEW p \in Publishers, NEW s \in Subs, SpawnAsync(p, s)
      PROVE  inFlight' = Cardinality(tasks')
  <2> DEFINE x == <<s, p, num[p]>>
  <2>1. tasks' = tasks \cup {x} /\ inFlight' = inFlight + 1 /\ s \in todo[p]
    BY <1>2 DEF SpawnAsync, First
  <2>2. x \notin tasks
    BY <2>1 DEF DrainInv, Spent
  <2> HIDE DEF x
  <2>3. Cardinality(tasks') = Cardinality(tasks) + 1
    BY <1>0, <2>1, <2>2, FS_AddElement
  <2> QED
    BY <1>0, <2>1, <2>3
<1>3. ASSUME NEW x \in tasks, HandlerDone(x) PROVE inFlight' = Cardinality(tasks')
  <2>1. tasks' = tasks \ {x} /\ inFlight' = inFlight - 1
    BY <1>3 DEF HandlerDone
  <2>2. Cardinality(tasks') = Cardinality(tasks) - 1
    BY <1>0, <2>1, FS_RemoveElement
  <2> QED
    BY <1>0, <2>1, <2>2
<1>4. ASSUME NEW s \in Subs, Own(s) \/ Recv(s) PROVE UNCHANGED <<inFlight, tasks>>
  BY <1>4 DEF Own, Recv, Subscribe, InsertEntry, IndexEntry, Unsubscribe, Unindex, Close,
              Wake, Receive, Await
<1>5. ASSUME NEW p \in Publishers, NEW s \in Subs, Collect(p, s) \/ Skip(p, s) \/ Enter(p, s)
      PROVE  UNCHANGED <<inFlight, tasks>>
  BY <1>5 DEF Collect, Skip, Enter
<1>6. ASSUME NEW p \in Publishers,
             \/ Publish(p) \/ PublishRefused(p) \/ SyncDone(p) \/ PushCheck(p) \/ DropNew(p)
             \/ RetryPush(p) \/ PublishDone(p) \/ Enqueue(p) \/ PushNotify(p)
      PROVE  UNCHANGED <<inFlight, tasks>>
  BY <1>6 DEF Publish, PublishRefused, SyncDone, PushCheck, DropNew, RetryPush, PublishDone,
              Enqueue, PushNotify
<1>7. CASE SetShutdown \/ Shutdown \/ Rest \/ UNCHANGED vars
  BY <1>1, <1>7 DEF SetShutdown, Shutdown, PollInFlight, ClearEntry, ClearWake, ClearIndex,
                    ClearTypes, Rest, vars
<1>8. ASSUME NEW p \in Publishers, Dispatch(p) PROVE inFlight' = Cardinality(tasks')
  BY <1>1, <1>2, <1>5, <1>6, <1>8 DEF Dispatch
<1>9. ASSUME NEW x \in tasks, HandlerDone(x) \/ HandlerPanics(x)
      PROVE  inFlight' = Cardinality(tasks')
  BY <1>3, <1>9 DEF HandlerPanics
<1> QED
  BY <1>1, <1>4, <1>6, <1>7, <1>8, <1>9 DEF Next

THEOREM InFlightCounts == Spec => []InFlightExact
<1>1. Init => InFlightExact
  BY FS_EmptySet DEF Init, InFlightExact
<1>2. Init => TypeInv /\ DrainInv /\ InFlightExact
  BY <1>1, TypeInit, DrainInit
<1>3. TypeInv /\ DrainInv /\ InFlightExact /\ [Next]_vars
        => (TypeInv /\ DrainInv /\ InFlightExact)'
  BY TypeStep, DrainStep, ExactStep
<1> QED
  BY <1>2, <1>3, PTL DEF Spec

=============================================================================
