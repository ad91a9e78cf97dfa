-------------------------- MODULE SearchIndexProofs --------------------------
(***************************************************************************)
(* Proofs about SearchIndex, for any files, batch size, faults and number  *)
(* of incidents.                                                           *)
(***************************************************************************)
EXTENDS SearchIndex, WellFoundedInduction, TLAPS

-----------------------------------------------------------------------------
(* Batches.                                                                *)

\* A nonempty set of positions has a last one.
LEMMA LastPosition ==
    ASSUME NEW n \in Nat, NEW S, S \subseteq 1..n, S # {}
    PROVE  \E i \in S : \A j \in S : j <= i
<1> DEFINE T == {n - i : i \in S}
<1>0. \A i \in S : i \in Nat /\ i <= n /\ n - i \in Nat
  OBVIOUS
<1>1. T \subseteq Nat /\ T # {}
  BY <1>0
<1>2. PICK m \in T : \A y \in T : <<y, m>> \notin OpToRel(<, Nat)
  BY <1>1, NatLessThanWellFounded, WFMin
<1>3. \A y \in T : m <= y
  <2> SUFFICES ASSUME NEW y \in T PROVE m <= y
    OBVIOUS
  <2>1. y \in Nat /\ m \in Nat
    BY <1>1
  <2>2. ~(y < m)
    BY <1>2, <2>1 DEF OpToRel
  <2> HIDE DEF T
  <2> QED
    BY <2>1, <2>2
<1>4. PICK i \in S : m = n - i
  OBVIOUS
<1>5. \A j \in S : n - j \in T
  OBVIOUS
<1> QED
  <2> SUFFICES ASSUME NEW j \in S PROVE j <= i
    OBVIOUS
  <2>1. n - i <= n - j
    BY <1>3, <1>4, <1>5
  <2> QED
    BY <1>0, <2>1

\* A path has no document in a batch exactly when no entry names it.
LEMMA LastDoc ==
    ASSUME NEW b \in Seq(UpsertTask), NEW p
    PROVE  /\ Last(b, p) \in Doc
           /\ (\A i \in 1..Len(b) : b[i].path # p) => Last(b, p) = None
<1> DEFINE at == {i \in 1..Len(b) : b[i].path = p}
<1>1. CASE at = {}
  BY <1>1 DEF Last, Doc
<1>2. CASE at # {}
  <2>1. \E i \in at : \A j \in at : j <= i
    <3>1. at \subseteq 1..Len(b) /\ Len(b) \in Nat
      OBVIOUS
    <3> HIDE DEF at
    <3> QED
      BY <1>2, <3>1, LastPosition
  <2> DEFINE l == CHOOSE i \in at : \A j \in at : j <= i
  <2>2. l \in at
    BY <2>1
  <2>3. b[l] \in UpsertTask
    BY <2>2
  <2>4. b[l].doc \in Nat
    BY <2>3 DEF UpsertTask
  <2>5. Last(b, p) = b[l].doc
    BY <1>2 DEF Last
  <2> QED
    BY <1>2, <2>4, <2>5 DEF Doc
<1> QED
  BY <1>1, <1>2

\* An empty batch changes nothing.
LEMMA EmptyBatch ==
    ASSUME TypeOK, batch = <<>>, UpsertThenRemove(None)
    PROVE  pend' = pend
<1>1. \A p : Last(batch, p) = None
  BY DEF Last
<1>2. Indexed(batch) = pend
  BY <1>1 DEF Indexed, TypeOK
<1>3. Without(pend, None) = pend
  BY SearchConstants DEF Without, TypeOK
<1>4. 1..Len(batch) = {}
  OBVIOUS
<1> QED
  BY <1>2, <1>3, <1>4 DEF UpsertThenRemove

-----------------------------------------------------------------------------
(* Type correctness.                                                       *)

LEMMA TypeInit == Init => TypeOK
<1> SUFFICES ASSUME Init PROVE TypeOK
  OBVIOUS
<1>1. incidents \in 0..MaxIncidents
  BY SearchConstants DEF Init
<1>2. /\ pend \in [Paths -> Doc] /\ index \in [Paths -> Doc]
      /\ ann \in [Paths -> Doc] /\ snap \in [Paths -> Doc]
  BY DEF Init, Empty, Doc
<1>3. disk \in [Paths -> Nat]
  BY DEF Init
<1>4. /\ events \in Seq(Event) /\ tasks \in Seq(Task)
      /\ batch \in Seq(UpsertTask)
  BY DEF Init
<1> QED
  BY <1>1, <1>2, <1>3, <1>4 DEF Init, TypeOK

LEMMA TypeIncident ==
    ASSUME TypeOK, Incident
    PROVE  incidents' \in 0..MaxIncidents
BY SearchConstants DEF TypeOK, Incident

\* A document read from the disk, or one without text.
LEMMA TypeSend ==
    ASSUME TypeOK, NEW t \in Task, Send(t)
    PROVE  tasks' \in Seq(Task)
BY DEF TypeOK, Send

LEMMA TaskTypes ==
    /\ \A p \in Paths : Remove(p) \in Task
    /\ \A p \in Paths, d \in Nat : Upsert(p, d) \in Task
    /\ Flush \in Task
BY DEF Task, UpsertTask, Remove, Upsert

LEMMA TypeFiles ==
    ASSUME TypeOK, NEW p \in Paths, NEW q \in Paths,
           Change(p) \/ Delete(p) \/ Rename(p, q)
    PROVE  TypeOK'
<1>1. PICK kind \in {"changed", "deleted", "renamed"}, r \in Paths : Happens(kind, p, r)
  BY DEF Change, Delete, Rename
<1>2. incidents' \in 0..MaxIncidents
  BY <1>1, TypeIncident DEF Happens
<1>3. Newest \in Nat
  BY SearchConstants DEF TypeOK, Newest
<1>4. disk' \in [Paths -> Nat]
  <2>1. CASE disk' = [disk EXCEPT ![p] = Newest]
    BY <1>3, <2>1 DEF TypeOK
  <2>2. CASE disk' = [disk EXCEPT ![p] = 0]
    BY <2>2 DEF TypeOK
  <2>3. CASE disk' = [disk EXCEPT ![p] = 0, ![q] = Newest]
    BY <1>3, <2>3 DEF TypeOK
  <2> QED
    BY <2>1, <2>2, <2>3 DEF Change, Delete, Rename
<1>5. [kind |-> kind, path |-> p, to |-> r] \in Event
  BY DEF Event
<1>6. events' \in Seq(Event)
  BY <1>1, <1>5 DEF Happens, TypeOK
<1> QED
  BY <1>1, <1>2, <1>4, <1>6 DEF Happens, TypeOK, crawlv, workv, engine

LEMMA TypeWatch == ASSUME TypeOK, Watch PROVE TypeOK'
<1> USE DEF crawlv, workv, engine
<1>1. CASE WatchEvent
  <2>1. Head(events) \in Event /\ events' \in Seq(Event)
    BY <1>1 DEF WatchEvent, TypeOK
  <2>2. Head(events).path \in Paths /\ Head(events).to \in Paths
    BY <2>1 DEF Event
  <2>3. tasks' \in Seq(Task)
    <3>1. CASE Send(Remove(Head(events).path))
      BY <3>1, <2>2, TaskTypes, TypeSend
    <3>2. CASE UNCHANGED tasks
      BY <3>2 DEF TypeOK
    <3> QED
      BY <1>1, <3>1, <3>2 DEF WatchEvent
  <2>4. /\ wat' \in {"recv", "meta"}
        /\ wat' # "recv" => wpath' \in Paths
    BY <1>1, <2>2 DEF WatchEvent
  <2> QED
    BY <1>1, <2>1, <2>3, <2>4 DEF WatchEvent, TypeOK
<1>2. CASE WatchMeta
  BY <1>2 DEF WatchMeta, TypeOK
<1>3. CASE WatchExtract
  <2>1. incidents' \in 0..MaxIncidents
    BY <1>3, TypeIncident DEF WatchExtract, Fault, TypeOK
  <2>2. wdoc' \in Nat /\ failed' \subseteq Paths
    BY <1>3 DEF WatchExtract, TypeOK
  <2> QED
    BY <1>3, <2>1, <2>2 DEF WatchExtract, TypeOK
<1>4. CASE WatchSend
  <2>1. tasks' \in Seq(Task)
    BY <1>4, TaskTypes, TypeSend DEF WatchSend, TypeOK
  <2> QED
    BY <1>4, <2>1 DEF WatchSend, TypeOK
<1> QED
  BY <1>1, <1>2, <1>3, <1>4 DEF Watch

LEMMA TypeCrawl == ASSUME TypeOK, Crawl PROVE TypeOK'
<1> USE DEF watchv, workv, engine
<1>1. CASE CrawlList
  BY <1>1 DEF CrawlList, TypeOK
<1>2. ASSUME NEW p \in Paths, CrawlExtract(p) PROVE TypeOK'
  <2>1. incidents' \in 0..MaxIncidents
    BY <1>2, TypeIncident DEF CrawlExtract, Fault, TypeOK
  <2>2. cdoc' \in Nat /\ failed' \subseteq Paths
    BY <1>2 DEF CrawlExtract, TypeOK
  <2> QED
    BY <1>2, <2>1, <2>2 DEF CrawlExtract, TypeOK
<1>3. CASE CrawlSend
  <2>1. tasks' \in Seq(Task)
    BY <1>3, TaskTypes, TypeSend DEF CrawlSend, TypeOK
  <2>2. raced' \subseteq Paths
    BY <1>3 DEF CrawlSend, TypeOK
  <2> QED
    BY <1>3, <2>1, <2>2 DEF CrawlSend, TypeOK
<1>4. CASE CrawlEnd
  <2>1. tasks' \in Seq(Task)
    BY <1>4, TaskTypes, TypeSend DEF CrawlEnd, TypeOK
  <2> QED
    BY <1>4, <2>1, ZenonT(40) DEF CrawlEnd, TypeOK
<1> QED
  BY <1>1, <1>2, <1>3, <1>4 DEF Crawl

\* What a batch and a removal leave in the engine.
LEMMA TypeEngine ==
    ASSUME TypeOK, NEW gone, UpsertThenRemove(gone)
    PROVE  /\ pend' \in [Paths -> Doc] /\ ann' \in [Paths -> Doc]
           /\ incidents' \in 0..MaxIncidents /\ failed' \subseteq Paths
<1>1. \A b \in Seq(UpsertTask) : Indexed(b) \in [Paths -> Doc]
  BY LastDoc DEF Indexed, TypeOK
<1>2. \A f \in [Paths -> Doc] : Without(f, gone) \in [Paths -> Doc]
  BY DEF Without, Doc
<1>3. CASE /\ pend' = Without(Indexed(batch), gone)
           /\ ann' = Without([p \in Paths |-> IF Last(batch, p) = None THEN ann[p]
                                              ELSE Vector(Last(batch, p))], gone)
           /\ UNCHANGED <<incidents, failed>>
  <2>1. [p \in Paths |-> IF Last(batch, p) = None THEN ann[p]
                         ELSE Vector(Last(batch, p))] \in [Paths -> Doc]
    BY LastDoc DEF TypeOK, Vector, Doc
  <2> QED
    BY <1>1, <1>2, <1>3, <2>1 DEF TypeOK
<1>4. CASE /\ Fault("upsert")
           /\ \E k \in 1..Len(batch) :
                pend' = Without([Indexed(SubSeq(batch, 1, k - 1))
                                    EXCEPT ![batch[k].path] = None], gone)
           /\ ann' = Without(ann, gone)
           /\ failed' = failed \cup {batch[i].path : i \in 1..Len(batch)}
  <2>1. PICK k \in 1..Len(batch) :
          pend' = Without([Indexed(SubSeq(batch, 1, k - 1))
                              EXCEPT ![batch[k].path] = None], gone)
    BY <1>4
  <2>2. SubSeq(batch, 1, k - 1) \in Seq(UpsertTask)
    BY DEF TypeOK
  <2>3. [Indexed(SubSeq(batch, 1, k - 1)) EXCEPT ![batch[k].path] = None]
            \in [Paths -> Doc]
    BY <1>1, <2>2 DEF Doc
  <2>4. \A i \in 1..Len(batch) : batch[i].path \in Paths
    <3>1. \A i \in 1..Len(batch) : batch[i] \in UpsertTask
      BY DEF TypeOK
    <3> QED
      BY <3>1 DEF UpsertTask
  <2>5. incidents' \in 0..MaxIncidents
    BY <1>4, TypeIncident DEF Fault
  <2>6. failed' \subseteq Paths
    BY <1>4, <2>4 DEF TypeOK
  <2>7. pend' \in [Paths -> Doc]
    BY <1>2, <2>1, <2>3
  <2>8. ann' \in [Paths -> Doc]
    BY <1>2, <1>4 DEF TypeOK
  <2> QED
    BY <2>5, <2>6, <2>7, <2>8
<1> QED
  BY <1>3, <1>4 DEF UpsertThenRemove

LEMMA TypeWork == ASSUME TypeOK, Work PROVE TypeOK'
<1> USE DEF Goto, watchv, crawlv
<1>w. \A f \in [Paths -> Doc], p \in Paths : Without(f, p) \in [Paths -> Doc]
  BY DEF Without, Doc
<1>h. tasks # <<>> => Head(tasks) \in Task /\ Tail(tasks) \in Seq(Task)
  BY DEF TypeOK
<1>u. ASSUME NEW t \in Task, t.op = "upsert" PROVE t \in UpsertTask
  BY <1>u DEF Task, Flush
<1>r. ASSUME NEW t \in Task, t.op = "remove" PROVE t.path \in Paths
  BY <1>r DEF Task, UpsertTask, Flush
<1>1. CASE Recv
  <2>1. Head(tasks) \in Task /\ tasks' \in Seq(Task)
    BY <1>1, <1>h DEF Recv
  <2>2. CASE Head(tasks).op = "upsert" /\ batch' = <<Head(tasks)>>
             /\ UNCHANGED <<force, dirty, pend, ann, incidents, failed>>
    <3>1. batch' \in Seq(UpsertTask)
      BY <2>1, <2>2, <1>u
    <3> QED
      BY <1>1, <2>1, <2>2, <3>1 DEF Recv, WorkerFrame, TypeOK
  <2>3. CASE Head(tasks).op = "remove" /\ pend' = Without(pend, Head(tasks).path)
             /\ ann' = Without(ann, Head(tasks).path) /\ dirty' = TRUE
             /\ UNCHANGED <<batch, force, incidents, failed>>
    <3>1. pend' \in [Paths -> Doc] /\ ann' \in [Paths -> Doc]
      BY <2>1, <2>3, <1>r, <1>w DEF TypeOK
    <3> QED
      BY <1>1, <2>1, <2>3, <3>1 DEF Recv, WorkerFrame, TypeOK
  <2>4. CASE force' = TRUE /\ UNCHANGED <<batch, dirty, pend, ann, incidents, failed>>
    BY <1>1, <2>1, <2>4 DEF Recv, WorkerFrame, TypeOK
  <2> QED
    BY <1>1, <2>2, <2>3, <2>4 DEF Recv
<1>2. CASE Drain
  <2>1. Head(tasks) \in Task /\ tasks' \in Seq(Task)
    BY <1>2, <1>h DEF Drain
  <2>2. CASE Head(tasks).op = "upsert" /\ batch' = Append(batch, Head(tasks))
             /\ UNCHANGED <<kat, force, dirty, pend, ann, incidents, failed>>
    <3>1. batch' \in Seq(UpsertTask)
      BY <2>1, <2>2, <1>u DEF TypeOK
    <3> QED
      BY <1>2, <2>1, <2>2, <3>1 DEF Drain, WorkerFrame, TypeOK
  <2>3. CASE UpsertThenRemove(Head(tasks).path) /\ batch' = <<>> /\ dirty' = TRUE
             /\ Goto("decide") /\ UNCHANGED force
    <3>1. /\ pend' \in [Paths -> Doc] /\ ann' \in [Paths -> Doc]
          /\ incidents' \in 0..MaxIncidents /\ failed' \subseteq Paths
      BY <2>3, TypeEngine
    <3> QED
      BY <1>2, <2>1, <2>3, <3>1 DEF Drain, WorkerFrame, TypeOK
  <2>4. CASE force' = TRUE /\ Goto("apply")
             /\ UNCHANGED <<batch, dirty, pend, ann, incidents, failed>>
    BY <1>2, <2>1, <2>4 DEF Drain, WorkerFrame, TypeOK
  <2> QED
    BY <1>2, <2>2, <2>3, <2>4 DEF Drain
<1>3. CASE Apply
  <2>1. /\ pend' \in [Paths -> Doc] /\ ann' \in [Paths -> Doc]
        /\ incidents' \in 0..MaxIncidents /\ failed' \subseteq Paths
    BY <1>3, TypeEngine DEF Apply
  <2>2. dirty' \in BOOLEAN
    BY <1>3, Zenon DEF Apply
  <2> QED
    BY <1>3, <2>1, <2>2 DEF Apply, WorkerFrame, TypeOK
<1>4. CASE Decide
  BY <1>4, ZenonT(40) DEF Decide, WorkerFrame, TypeOK
<1>5. CASE Commit
  <2>1. incidents' \in 0..MaxIncidents
    BY <1>5, TypeIncident DEF Commit, Fault, TypeOK
  <2> QED
    BY <1>5, <2>1, ZenonT(40) DEF Commit, TypeOK
<1>6. CASE Persist
  <2>1. incidents' \in 0..MaxIncidents
    BY <1>6, TypeIncident DEF Persist, Fault, TypeOK
  <2> QED
    BY <1>6, <2>1 DEF Persist, TypeOK
<1> QED
  BY <1>1, <1>2, <1>3, <1>4, <1>5, <1>6 DEF Work

LEMMA TypeStep == TypeOK /\ [Next]_vars => TypeOK'
<1> SUFFICES ASSUME TypeOK, [Next]_vars PROVE TypeOK'
  OBVIOUS
<1>1. ASSUME NEW p \in Paths, NEW q \in Paths, Change(p) \/ Delete(p) \/ Rename(p, q)
      PROVE  TypeOK'
  BY <1>1, TypeFiles
<1>2. CASE Watch
  BY <1>2, TypeWatch
<1>3. CASE Crawl
  BY <1>3, TypeCrawl
<1>4. CASE Work
  BY <1>4, TypeWork
<1>5. CASE Crash
  <2>1. incidents' \in 0..MaxIncidents
    BY <1>5, TypeIncident DEF Crash
  <2>2. snap' \in [Paths -> Doc]
    BY <1>5 DEF Crash, TypeOK, Empty, Doc
  <2>3. /\ events' \in Seq(Event) /\ tasks' \in Seq(Task)
        /\ batch' \in Seq(UpsertTask)
    BY <1>5 DEF Crash
  <2> QED
    BY <1>5, <2>1, <2>2, <2>3 DEF Crash, TypeOK
<1>6. CASE Start
  BY <1>6 DEF Start, TypeOK, watchv, workv, engine
<1>7. CASE UNCHANGED vars
  BY <1>7 DEF TypeOK, vars
<1> QED
  BY <1>1, <1>2, <1>3, <1>4, <1>5, <1>6, <1>7 DEF Next

\* Every step of the files, the subscriber, the crawl, the worker and a crash
\* keeps the types; a batch leaves a document or nothing at every path.
THEOREM Typed == Spec => []TypeOK
BY TypeInit, TypeStep, PTL DEF Spec

-----------------------------------------------------------------------------
(* Text index and vectors.                                                 *)

LEMMA LockstepInit == Init => Lockstep
BY SearchConstants DEF Init, Lockstep, Empty, Vector

\* A batch moves both, or puts the paths it parts into failed.
LEMMA LockstepEngine ==
    ASSUME TypeOK, Lockstep, NEW gone, UpsertThenRemove(gone), torn' = torn
    PROVE  Lockstep'
<1> SUFFICES ASSUME NEW p \in Paths, p \notin failed', p \notin torn
             PROVE  ann'[p] = Vector(pend'[p])
  BY DEF Lockstep
<1>1. Vector(None) = None
  BY SearchConstants DEF Vector
<1>2. p \notin failed
  BY DEF UpsertThenRemove
<1>3. ann[p] = Vector(pend[p])
  BY <1>2 DEF Lockstep
<1>4. CASE /\ pend' = Without(Indexed(batch), gone)
           /\ ann' = Without([q \in Paths |-> IF Last(batch, q) = None THEN ann[q]
                                              ELSE Vector(Last(batch, q))], gone)
  BY <1>1, <1>3, <1>4 DEF Without, Indexed
<1>5. CASE /\ \E k \in 1..Len(batch) :
                pend' = Without([Indexed(SubSeq(batch, 1, k - 1))
                                    EXCEPT ![batch[k].path] = None], gone)
           /\ ann' = Without(ann, gone)
           /\ failed' = failed \cup {batch[i].path : i \in 1..Len(batch)}
  <2>1. PICK k \in 1..Len(batch) :
          pend' = Without([Indexed(SubSeq(batch, 1, k - 1))
                              EXCEPT ![batch[k].path] = None], gone)
    BY <1>5
  <2>2. \A i \in 1..Len(batch) : batch[i].path # p
    BY <1>5
  <2> DEFINE b == SubSeq(batch, 1, k - 1)
  <2>3. b \in Seq(UpsertTask) /\ \A i \in 1..Len(b) : b[i].path # p
    BY <2>2 DEF TypeOK
  <2>4. Last(b, p) = None
    BY <2>3, LastDoc
  <2>5. Indexed(b)[p] = pend[p]
    BY <2>4 DEF Indexed
  <2>6. [Indexed(b) EXCEPT ![batch[k].path] = None][p] = pend[p]
    BY <2>2, <2>5 DEF Indexed
  <2> QED
    BY <1>1, <1>3, <1>5, <2>1, <2>6 DEF Without
<1> QED
  BY <1>4, <1>5 DEF UpsertThenRemove

LEMMA LockstepStep == TypeOK /\ Lockstep /\ [Next]_vars => Lockstep'
<1> SUFFICES ASSUME TypeOK, Lockstep, [Next]_vars PROVE Lockstep'
  OBVIOUS
<1> USE DEF watchv, crawlv, workv, engine
<1>s. ASSUME UNCHANGED <<pend, ann, torn>>, failed \subseteq failed' PROVE Lockstep'
  BY <1>s DEF Lockstep
<1>1. ASSUME NEW p \in Paths, NEW q \in Paths, Change(p) \/ Delete(p) \/ Rename(p, q)
      PROVE  Lockstep'
  BY <1>1, <1>s DEF Change, Delete, Rename, Happens
<1>2. CASE Watch
  BY <1>2, <1>s DEF Watch, WatchEvent, WatchMeta, WatchExtract, WatchSend
<1>3. CASE Crawl
  BY <1>3, <1>s DEF Crawl, CrawlList, CrawlExtract, CrawlSend, CrawlEnd
<1>4. CASE Work
  <2>1. CASE Recv
    <3>1. CASE UNCHANGED <<pend, ann, failed>>
      BY <2>1, <3>1, <1>s DEF Recv, WorkerFrame
    <3>2. CASE \E p : pend' = Without(pend, p) /\ ann' = Without(ann, p)
                      /\ UNCHANGED failed
      <4>1. Vector(None) = None
        BY SearchConstants DEF Vector
      <4> QED
        BY <2>1, <3>2, <4>1 DEF Recv, WorkerFrame, Lockstep, Without
    <3> QED
      BY <2>1, <3>1, <3>2 DEF Recv
  <2>2. CASE Drain
    <3>1. CASE UNCHANGED <<pend, ann, failed>>
      BY <2>2, <3>1, <1>s DEF Drain, WorkerFrame
    <3>2. CASE \E p : UpsertThenRemove(p)
      BY <2>2, <3>2, LockstepEngine DEF Drain, WorkerFrame
    <3> QED
      BY <2>2, <3>1, <3>2 DEF Drain
  <2>3. CASE Apply
    BY <2>3, LockstepEngine DEF Apply, WorkerFrame
  <2>4. CASE Decide
    BY <2>4, <1>s DEF Decide, WorkerFrame
  <2>5. CASE Commit \/ Persist
    BY <2>5, <1>s DEF Commit, Persist
  <2> QED
    BY <1>4, <2>1, <2>2, <2>3, <2>4, <2>5 DEF Work
<1>5. CASE Crash
  BY <1>5 DEF Crash, Lockstep
<1>6. CASE Start
  BY <1>6, <1>s DEF Start
<1>7. CASE UNCHANGED vars
  BY <1>7, <1>s DEF vars
<1> QED
  BY <1>1, <1>2, <1>3, <1>4, <1>5, <1>6, <1>7 DEF Next

\* Text index and vectors hold the same version of every document, after every
\* batch, removal and restart: only a failed batch, or a crash between the
\* commit and the end of the snapshot, parts them (engine.rs).
THEOREM InLockstep == Spec => []Lockstep
<1>1. TypeOK /\ Lockstep /\ [Next]_vars => (TypeOK /\ Lockstep)'
  BY TypeStep, LockstepStep
<1>2. Init => TypeOK /\ Lockstep
  BY TypeInit, LockstepInit
<1> QED
  BY <1>1, <1>2, PTL DEF Spec

-----------------------------------------------------------------------------
(* Coalesced commits.                                                      *)

\* dirty tells what is uncommitted, and a worker that goes back to wait with
\* something uncommitted has a task to be woken by.
CommitInv ==
    /\ ~dirty /\ ~unsaved => index = pend
    /\ kat = "recv" /\ dirty => tasks # <<>>
    /\ kat = "persist" => ~dirty

LEMMA CommitInit == Init => CommitInv
BY DEF Init, CommitInv

\* Tasks only come while the worker does nothing.
LEMMA CommitSend ==
    ASSUME TypeOK, CommitInv, UNCHANGED <<workv, engine, unsaved>>,
           tasks' = tasks \/ \E t : Send(t)
    PROVE  CommitInv'
BY DEF CommitInv, workv, engine, Send, TypeOK

LEMMA CommitStep == TypeOK /\ CommitInv /\ [Next]_vars => CommitInv'
<1> SUFFICES ASSUME TypeOK, CommitInv, [Next]_vars PROVE CommitInv'
  OBVIOUS
<1>1. ASSUME NEW p \in Paths, NEW q \in Paths, Change(p) \/ Delete(p) \/ Rename(p, q)
      PROVE  CommitInv'
  BY <1>1, CommitSend DEF Change, Delete, Rename, Happens
<1>2. CASE Watch
  BY <1>2, CommitSend DEF Watch, WatchEvent, WatchMeta, WatchExtract, WatchSend
<1>3. CASE Crawl
  BY <1>3, CommitSend DEF Crawl, CrawlList, CrawlExtract, CrawlSend, CrawlEnd
<1>4. CASE Work
  <2> USE DEF Goto
  <2>1. CASE Recv
    BY <2>1 DEF Recv, WorkerFrame, CommitInv
  <2>2. CASE Drain
    BY <2>2 DEF Drain, WorkerFrame, CommitInv
  <2>3. CASE Apply
    <3>1. batch = <<>> => pend' = pend
      BY <2>3, EmptyBatch DEF Apply
    <3>2. ~dirty' => ~dirty /\ batch = <<>>
      BY <2>3 DEF Apply
    <3>3. UNCHANGED <<index, unsaved>> /\ kat' = "decide"
      BY <2>3 DEF Apply, WorkerFrame
    <3> QED
      BY <3>1, <3>2, <3>3 DEF CommitInv
  <2>4. CASE Decide
    BY <2>4 DEF Decide, WorkerFrame, CommitInv, TypeOK
  <2>5. CASE Commit
    BY <2>5 DEF Commit, CommitInv
  <2>6. CASE Persist
    BY <2>6 DEF Persist, CommitInv
  <2> QED
    BY <1>4, <2>1, <2>2, <2>3, <2>4, <2>5, <2>6 DEF Work
<1>5. CASE Crash
  BY <1>5 DEF Crash, CommitInv
<1>6. CASE Start
  BY <1>6 DEF Start, CommitInv, workv, engine
<1>7. CASE UNCHANGED vars
  BY <1>7 DEF vars, CommitInv
<1> QED
  BY <1>1, <1>2, <1>3, <1>4, <1>5, <1>6, <1>7 DEF Next

\* Whatever the burst of tasks, the batch size and the 750 ms clock do, a worker
\* that waits on an empty channel has committed everything, unless the commit
\* itself failed (worker_loop).
THEOREM NothingStranded == Spec => []IdleIsCommitted
<1>1. TypeOK /\ CommitInv /\ [Next]_vars => (TypeOK /\ CommitInv)'
  BY TypeStep, CommitStep
<1>2. Init => TypeOK /\ CommitInv
  BY TypeInit, CommitInit
<1>3. TypeOK /\ CommitInv => IdleIsCommitted
  BY DEF CommitInv, IdleIsCommitted, TypeOK
<1> QED
  BY <1>1, <1>2, <1>3, PTL DEF Spec

-----------------------------------------------------------------------------
(* The index is the files.                                                 *)

\* The last entry of a sequence of tasks for a path, or that there is none.
LastAt(s, p, i) ==
    /\ i \in 1..Len(s)
    /\ s[i].path = p
    /\ \A j \in 1..Len(s) : i < j => s[j].path # p
Absent(s, p) == \A i \in 1..Len(s) : s[i].path # p

\* A document and a vector that say what the file is.
Fits(p, d, v) ==
    IF disk[p] # 0 THEN d = disk[p] /\ v = disk[p] ELSE d = None \/ p \in orphans

\* The last entry for a path fits its file.
Said(s, p) ==
    \E i \in 1..Len(s) : LastAt(s, p, i) /\ Fits(p, s[i].doc, Vector(s[i].doc))

\* Once the worker has done all it has been sent, the engine fits the file.
Due(p) ==
    \/ Said(tasks, p)
    \/ /\ Absent(tasks, p)
       /\ (Said(batch, p) \/ (Absent(batch, p) /\ Fits(p, pend[p], ann[p])))

Names(e, p) == p \in {e.path, e.to}
GoneAfter(e, p) == e.kind = "deleted" \/ (e.kind = "renamed" /\ e.path = p)
Named(p) == \E i \in 1..Len(events) : Names(events[i], p)
Watched(p) == Named(p) \/ (wat # "recv" /\ wpath = p)
CrawlComing(p) ==
    \/ cat = "list" /\ disk[p] # 0
    \/ p \in cleft
    \/ cat = "send" /\ cpath = p

\* The last event that names a file says whether there is one.
EventsTell ==
    /\ \A i \in 1..Len(events) :
          (events[i].kind = "renamed") <=> (events[i].path # events[i].to)
    /\ \A p \in Paths : \A i \in 1..Len(events) :
          Names(events[i], p) /\ (\A j \in 1..Len(events) : i < j => ~Names(events[j], p))
            => (GoneAfter(events[i], p) <=> disk[p] = 0)

\* The subscriber looks at a file that is there, unless a later event says that
\* it has changed, and has read its content.
WatchTrue ==
    \A p \in Paths : wat # "recv" /\ wpath = p /\ ~Named(p) =>
        /\ disk[p] # 0
        /\ wat = "send" => wdoc = disk[p] \/ p \in failed

\* A file that neither the subscriber nor the crawl will come back to is what
\* the engine will hold.
RestTrue ==
    \A p \in Paths \ (failed \cup raced) : Watched(p) \/ CrawlComing(p) \/ Due(p)

\* What is at rest between two steps of the crawl and the worker, and while the
\* process is down.
AtRest ==
    /\ cat \in {"list", "done"} => cleft = {}
    /\ kat \in {"recv", "decide", "commit", "persist"} => batch = <<>>
    /\ ~up => /\ events = <<>> /\ wat = "recv" /\ cat = "done"
              /\ tasks = <<>> /\ kat = "recv" /\ pend = index

FilesInv == AtRest /\ (up => EventsTell /\ WatchTrue /\ RestTrue)

LEMMA FilesInit == Init => FilesInv
BY DEF Init, FilesInv, AtRest

LEMMA AppendSaid ==
    ASSUME NEW S, NEW s \in Seq(S), NEW t \in S, NEW p
    PROVE  /\ t.path = p /\ Fits(p, t.doc, Vector(t.doc)) => Said(Append(s, t), p)
           /\ t.path # p /\ Said(s, p) => Said(Append(s, t), p)
           /\ t.path # p /\ Absent(s, p) => Absent(Append(s, t), p)
<1> DEFINE a == Append(s, t)
<1>1. /\ Len(s) \in Nat /\ Len(a) = Len(s) + 1 /\ a[Len(s) + 1] = t
      /\ \A i \in 1..Len(s) : a[i] = s[i]
  OBVIOUS
<1>2. \A i \in 1..Len(a) : i \in 1..Len(s) \/ i = Len(s) + 1
  BY <1>1
<1>3. 1..Len(s) \subseteq 1..Len(a) /\ Len(s) + 1 \in 1..Len(a)
  BY <1>1
<1> HIDE DEF a
<1>4. ASSUME t.path = p, Fits(p, t.doc, Vector(t.doc)) PROVE Said(a, p)
  <2>1. LastAt(a, p, Len(s) + 1)
    BY <1>1, <1>2, <1>3, <1>4 DEF LastAt
  <2> QED
    BY <2>1, <1>1, <1>3, <1>4 DEF Said
<1>5. ASSUME t.path # p, Said(s, p) PROVE Said(a, p)
  <2>1. PICK i \in 1..Len(s) : LastAt(s, p, i) /\ Fits(p, s[i].doc, Vector(s[i].doc))
    BY <1>5 DEF Said
  <2>2. LastAt(a, p, i)
    BY <2>1, <1>1, <1>2, <1>3, <1>5 DEF LastAt
  <2> QED
    BY <2>1, <2>2, <1>1, <1>3 DEF Said
<1>6. ASSUME t.path # p, Absent(s, p) PROVE Absent(a, p)
  BY <1>1, <1>2, <1>6 DEF Absent
<1> QED
  BY <1>4, <1>5, <1>6 DEF a

LEMMA TailSaid ==
    ASSUME NEW S, NEW s \in Seq(S), s # <<>>, NEW p
    PROVE  /\ Said(s, p) =>
                \/ Said(Tail(s), p)
                \/ /\ Absent(Tail(s), p) /\ Head(s).path = p
                   /\ Fits(p, Head(s).doc, Vector(Head(s).doc))
           /\ Absent(s, p) => Absent(Tail(s), p) /\ Head(s).path # p
<1> DEFINE u == Tail(s)
<1>1. /\ Len(s) \in Nat /\ Len(s) >= 1 /\ Len(u) = Len(s) - 1 /\ Head(s) = s[1]
      /\ \A i \in 1..Len(u) : u[i] = s[i + 1] /\ i + 1 \in 1..Len(s)
  OBVIOUS
<1> HIDE DEF u
<1>2. ASSUME Said(s, p)
      PROVE  \/ Said(u, p)
             \/ /\ Absent(u, p) /\ Head(s).path = p
                /\ Fits(p, Head(s).doc, Vector(Head(s).doc))
  <2>1. PICK i \in 1..Len(s) : LastAt(s, p, i) /\ Fits(p, s[i].doc, Vector(s[i].doc))
    BY <1>2 DEF Said
  <2>2. CASE i = 1
    <3>1. Absent(u, p)
      BY <2>1, <2>2, <1>1 DEF LastAt, Absent
    <3> QED
      BY <3>1, <2>1, <2>2, <1>1 DEF LastAt
  <2>3. CASE i # 1
    <3>1. i - 1 \in 1..Len(u) /\ u[i - 1] = s[i]
      BY <2>3, <1>1
    <3>2. LastAt(u, p, i - 1)
      BY <3>1, <2>1, <1>1 DEF LastAt
    <3> QED
      BY <3>1, <3>2, <2>1 DEF Said
  <2> QED
    BY <2>2, <2>3
<1>3. ASSUME Absent(s, p) PROVE Absent(u, p) /\ Head(s).path # p
  BY <1>1, <1>3 DEF Absent
<1> QED
  BY <1>2, <1>3 DEF u

\* What Last finds is the last entry.
LEMMA LastIs ==
    ASSUME NEW b \in Seq(UpsertTask), NEW p, NEW i \in 1..Len(b), LastAt(b, p, i)
    PROVE  Last(b, p) = b[i].doc /\ b[i].doc \in Nat
<1> DEFINE at == {j \in 1..Len(b) : b[j].path = p}
           Is(l) == l \in at /\ \A j \in at : j <= l
<1>1. Is(i) /\ \A l : Is(l) => l = i
  BY DEF LastAt
<1>2. at # {}
  BY <1>1
<1>3. (CHOOSE l \in at : \A j \in at : j <= l) = i
  BY <1>1
<1>4. b[i] \in UpsertTask
  OBVIOUS
<1> QED
  BY <1>2, <1>3, <1>4 DEF Last, UpsertTask

\* What is not in the batch, or not lost with it, ends in the engine.
LEMMA EngineFits ==
    ASSUME TypeOK, NEW gone, UpsertThenRemove(gone), NEW p \in Paths, p \notin failed'
    PROVE  /\ p = gone => pend'[p] = None /\ ann'[p] = None
           /\ p # gone /\ Said(batch, p) => Fits(p, pend'[p], ann'[p])
           /\ p # gone /\ Absent(batch, p) => pend'[p] = pend[p] /\ ann'[p] = ann[p]
<1>1. p = gone => pend'[p] = None /\ ann'[p] = None
  BY DEF UpsertThenRemove, Without
<1>2. CASE /\ pend' = Without(Indexed(batch), gone)
           /\ ann' = Without([q \in Paths |-> IF Last(batch, q) = None THEN ann[q]
                                              ELSE Vector(Last(batch, q))], gone)
  <2>1. ASSUME p # gone
        PROVE  /\ pend'[p] = IF Last(batch, p) = None THEN pend[p] ELSE Last(batch, p)
               /\ ann'[p] = IF Last(batch, p) = None THEN ann[p]
                                                     ELSE Vector(Last(batch, p))
    BY <1>2, <2>1 DEF Without, Indexed
  <2>2. batch \in Seq(UpsertTask) /\ None \notin Nat
    BY SearchConstants DEF TypeOK
  <2>3. Absent(batch, p) => Last(batch, p) = None
    BY <2>2, LastDoc DEF Absent
  <2>4. ASSUME Said(batch, p), p # gone PROVE Fits(p, pend'[p], ann'[p])
    <3>1. PICK i \in 1..Len(batch) :
             LastAt(batch, p, i) /\ Fits(p, batch[i].doc, Vector(batch[i].doc))
      BY <2>4 DEF Said
    <3>2. Last(batch, p) = batch[i].doc /\ Last(batch, p) # None
      BY <3>1, <2>2, LastIs
    <3> QED
      BY <3>1, <3>2, <2>1, <2>4
  <2> QED
    BY <1>1, <2>1, <2>3, <2>4
<1>3. CASE /\ \E k \in 1..Len(batch) :
                pend' = Without([Indexed(SubSeq(batch, 1, k - 1))
                                    EXCEPT ![batch[k].path] = None], gone)
           /\ ann' = Without(ann, gone)
           /\ failed' = failed \cup {batch[i].path : i \in 1..Len(batch)}
  <2>1. PICK k \in 1..Len(batch) :
          pend' = Without([Indexed(SubSeq(batch, 1, k - 1))
                              EXCEPT ![batch[k].path] = None], gone)
    BY <1>3
  <2>2. \A i \in 1..Len(batch) : batch[i].path # p
    BY <1>3
  <2>3. ~Said(batch, p)
    BY <2>2 DEF Said, LastAt
  <2> DEFINE b == SubSeq(batch, 1, k - 1)
  <2>4. b \in Seq(UpsertTask) /\ \A i \in 1..Len(b) : b[i].path # p
    BY <2>2 DEF TypeOK
  <2>5. Last(b, p) = None
    BY <2>4, LastDoc
  <2>6. [Indexed(b) EXCEPT ![batch[k].path] = None][p] = pend[p]
    BY <2>2, <2>5 DEF Indexed
  <2> QED
    BY <1>1, <1>3, <2>1, <2>3, <2>6 DEF Without
<1> QED
  BY <1>2, <1>3 DEF UpsertThenRemove

\* Sending a task: one that fits its file, or one for another file.
LEMMA DueSend ==
    ASSUME TypeOK, NEW t \in Task, Send(t), NEW p \in Paths,
           UNCHANGED <<batch, pend, ann>>, disk'[p] = disk[p],
           p \in orphans' <=> p \in orphans,
           \/ t.path = p /\ Fits(p, t.doc, Vector(t.doc))
           \/ t.path # p /\ Due(p)
    PROVE  Due(p)'
<1>1. tasks \in Seq(Task) /\ tasks' = Append(tasks, t)
  BY DEF TypeOK, Send
<1>2. \/ Said(tasks', p)
      \/ Absent(tasks', p) /\ ((Said(batch, p) \/ (Absent(batch, p) /\ Fits(p, pend[p], ann[p]))))
  BY <1>1, AppendSaid DEF Due
<1> QED
  BY <1>2 DEF Due, Said, LastAt, Absent, Fits

LEMMA DueFrame ==
    ASSUME NEW p \in Paths, UNCHANGED <<tasks, batch, pend, ann>>, disk'[p] = disk[p],
           p \in orphans' <=> p \in orphans, Due(p)
    PROVE  Due(p)'
  BY DEF Due, Said, LastAt, Absent, Fits

\* The worker takes a task: what was due stays due, in the batch or the engine.
LEMMA DueTake ==
    ASSUME TypeOK, tasks # <<>>, tasks' = Tail(tasks), UNCHANGED <<disk, orphans>>,
           NEW p \in Paths, Due(p),
           (/\ Head(tasks).path = p
            /\ Fits(p, Head(tasks).doc, Vector(Head(tasks).doc))) =>
               \/ Said(batch', p)
               \/ Absent(batch', p) /\ Fits(p, pend'[p], ann'[p]),
           (/\ Head(tasks).path # p
            /\ (Said(batch, p) \/ (Absent(batch, p) /\ Fits(p, pend[p], ann[p])))) =>
               \/ Said(batch', p)
               \/ Absent(batch', p) /\ Fits(p, pend'[p], ann'[p])
    PROVE  Due(p)'
<1>1. tasks \in Seq(Task)
  BY DEF TypeOK
<1>2. \/ Said(tasks', p)
      \/ /\ Absent(tasks', p)
         /\ (Said(batch', p) \/ (Absent(batch', p) /\ Fits(p, pend'[p], ann'[p])))
  <2>1. /\ Said(tasks, p) =>
               \/ Said(tasks', p)
               \/ /\ Absent(tasks', p) /\ Head(tasks).path = p
                  /\ Fits(p, Head(tasks).doc, Vector(Head(tasks).doc))
        /\ Absent(tasks, p) => Absent(tasks', p) /\ Head(tasks).path # p
    BY <1>1, TailSaid, Zenon
  <2>2. CASE Said(tasks, p)
    BY <2>1, <2>2, Zenon
  <2>3. CASE ~Said(tasks, p)
    <3>1. /\ Absent(tasks, p)
          /\ (Said(batch, p) \/ (Absent(batch, p) /\ Fits(p, pend[p], ann[p])))
      BY <2>3, Zenon DEF Due
    <3> QED
      BY <2>1, <3>1, Zenon
  <2> QED
    BY <2>2, <2>3
<1> QED
  BY <1>2 DEF Due, Said, LastAt, Absent, Fits

-----------------------------------------------------------------------------
\* A change of the files is on its way to the subscriber.
LEMMA FilesChanged ==
    ASSUME TypeOK, FilesInv, NEW p \in Paths, NEW q \in Paths,
           Change(p) \/ Delete(p) \/ Rename(p, q)
    PROVE  FilesInv'
<1> USE DEF watchv, crawlv, workv, engine
<1>1. PICK kind \in {"changed", "deleted", "renamed"}, r \in Paths :
         /\ Happens(kind, p, r)
         /\ kind = "renamed" <=> p # r
         /\ \A u \in Paths : u \notin {p, r} => disk'[u] = disk[u]
         /\ kind = "changed" => disk'[p] # 0
         /\ kind = "deleted" => disk'[p] = 0
         /\ kind = "renamed" => disk'[p] = 0 /\ disk'[r] # 0
  <2>1. Newest # 0
    BY DEF Newest, TypeOK
  <2>2. CASE Change(p)
    BY <2>1, <2>2 DEF Change, TypeOK
  <2>3. CASE Delete(p)
    BY <2>1, <2>3 DEF Delete, TypeOK
  <2>4. CASE Rename(p, q)
    BY <2>1, <2>4 DEF Rename, TypeOK
  <2> QED
    BY <2>2, <2>3, <2>4
<1>2. AtRest'
  BY <1>1 DEF Happens, FilesInv, AtRest
<1>3. CASE ~up
  BY <1>1, <1>2, <1>3 DEF Happens, FilesInv
<1>4. CASE up
  <2> DEFINE e == [kind |-> kind, path |-> p, to |-> r]
  <2>1. /\ events \in Seq(Event) /\ events' = Append(events, e) /\ e \in Event
        /\ UNCHANGED <<up, wat, wpath, wdoc, crawlv, tasks, workv, engine, failed>>
        /\ raced' = raced \ {p, r} /\ orphans' = orphans \ {p, r}
    BY <1>1, <1>4 DEF Happens, TypeOK, Event
  <2>2. /\ Len(events) \in Nat /\ Len(events') = Len(events) + 1
        /\ events'[Len(events) + 1] = e
        /\ \A i \in 1..Len(events) : events'[i] = events[i]
    BY <2>1
  <2>3. \A i \in 1..Len(events') : i \in 1..Len(events) \/ i = Len(events) + 1
    BY <2>2
  <2>4. 1..Len(events) \subseteq 1..Len(events') /\ Len(events) + 1 \in 1..Len(events')
    BY <2>2
  <2>5. /\ e.kind = kind /\ e.path = p /\ e.to = r
        /\ \A u : Names(e, u) <=> u \in {p, r}
    BY DEF Names
  <2> HIDE DEF e
  <2>6. \A u \in {p, r} : Named(u)'
    BY <2>2, <2>4, <2>5 DEF Named
  <2>7. \A u : Named(u) => Named(u)'
    BY <2>2, <2>4 DEF Named
  <2>8. EventsTell'
    <3>1. \A i \in 1..Len(events') :
             (events'[i].kind = "renamed") <=> (events'[i].path # events'[i].to)
      BY <1>1, <1>4, <2>2, <2>3, <2>5 DEF FilesInv, EventsTell
    <3>2. ASSUME NEW u \in Paths, NEW i \in 1..Len(events'), Names(events'[i], u),
                 \A j \in 1..Len(events') : i < j => ~Names(events'[j], u)
          PROVE  GoneAfter(events'[i], u) <=> disk'[u] = 0
      <4>1. CASE i \in 1..Len(events)
        <5>1. ~Names(e, u)
          BY <4>1, <3>2, <2>2, <2>4
        <5>2. disk'[u] = disk[u]
          BY <5>1, <2>5, <1>1
        <5> QED
          BY <4>1, <5>2, <3>2, <1>4, <2>2, <2>4 DEF FilesInv, EventsTell
      <4>2. CASE i = Len(events) + 1
        BY <4>2, <3>2, <1>1, <2>2, <2>5 DEF GoneAfter
      <4> QED
        BY <4>1, <4>2, <2>3
    <3> QED
      BY <3>1, <3>2 DEF EventsTell
  <2>9. WatchTrue'
    BY <1>1, <1>4, <2>1, <2>6, <2>7 DEF FilesInv, WatchTrue
  <2>10. RestTrue'
    <3> SUFFICES ASSUME NEW u \in Paths, u \notin failed', u \notin raced'
                 PROVE  Watched(u)' \/ CrawlComing(u)' \/ Due(u)'
      BY DEF RestTrue
    <3>1. CASE u \in {p, r}
      BY <3>1, <2>6 DEF Watched
    <3>2. CASE u \notin {p, r}
      <4>1. disk'[u] = disk[u] /\ u \notin failed \cup raced
        BY <3>2, <1>1, <2>1
      <4>2. Watched(u) \/ CrawlComing(u) \/ Due(u)
        BY <4>1, <1>4 DEF FilesInv, RestTrue
      <4>3. Watched(u) => Watched(u)'
        BY <2>1, <2>7 DEF Watched
      <4>4. CrawlComing(u) => CrawlComing(u)'
        BY <2>1, <4>1 DEF CrawlComing
      <4>5. Due(u) => Due(u)'
        BY <2>1, <3>2, <4>1, DueFrame
      <4> QED
        BY <4>2, <4>3, <4>4, <4>5
    <3> QED
      BY <3>1, <3>2
  <2> QED
    BY <1>2, <2>8, <2>9, <2>10 DEF FilesInv
<1> QED
  BY <1>3, <1>4

\* The subscriber takes an event: the others say what they said, and this one
\* was the last word on the files that no other names.
LEMMA TakeEvent ==
    ASSUME TypeOK, EventsTell, events # <<>>, events' = Tail(events), disk' = disk
    PROVE  /\ EventsTell'
           /\ \A u \in Paths : Named(u) => Names(Head(events), u) \/ Named(u)'
           /\ \A u \in Paths : Named(u)' => Named(u)
           /\ \A u \in Paths : Names(Head(events), u) /\ ~Named(u)' =>
                 (GoneAfter(Head(events), u) <=> disk[u] = 0)
<1>1. /\ Len(events) \in Nat /\ Len(events) >= 1 /\ Head(events) = events[1]
      /\ Len(events') = Len(events) - 1
      /\ \A i \in 1..Len(events') : events'[i] = events[i + 1]
  BY DEF TypeOK
<1>2. /\ \A i \in 1..Len(events') : i + 1 \in 1..Len(events)
      /\ \A i \in 1..Len(events) : i # 1 => i - 1 \in 1..Len(events')
                                            /\ events'[i - 1] = events[i]
  BY <1>1
<1>3. EventsTell'
  <2>1. \A i \in 1..Len(events') :
           (events'[i].kind = "renamed") <=> (events'[i].path # events'[i].to)
    BY <1>1, <1>2 DEF EventsTell
  <2>2. ASSUME NEW u \in Paths, NEW i \in 1..Len(events'), Names(events'[i], u),
               \A j \in 1..Len(events') : i < j => ~Names(events'[j], u)
        PROVE  GoneAfter(events'[i], u) <=> disk'[u] = 0
    <3>1. ASSUME NEW j \in 1..Len(events), i + 1 < j PROVE ~Names(events[j], u)
      <4>1. j - 1 \in 1..Len(events') /\ events'[j - 1] = events[j] /\ i < j - 1
        BY <1>2, <3>1
      <4> QED
        BY <4>1, <2>2
    <3>2. i + 1 \in 1..Len(events) /\ events'[i] = events[i + 1]
      BY <1>1, <1>2
    <3> QED
      BY <2>2, <3>1, <3>2 DEF EventsTell
  <2> QED
    BY <2>1, <2>2 DEF EventsTell
<1>4. \A u \in Paths : Named(u) => Names(Head(events), u) \/ Named(u)'
  BY <1>1, <1>2 DEF Named
<1>5. \A u \in Paths : Named(u)' => Named(u)
  BY <1>1, <1>2 DEF Named
<1>6. ASSUME NEW u \in Paths, Names(Head(events), u), ~Named(u)'
      PROVE  GoneAfter(Head(events), u) <=> disk[u] = 0
  <2>1. \A j \in 1..Len(events) : 1 < j => ~Names(events[j], u)
    BY <1>1, <1>2, <1>6 DEF Named
  <2> QED
    BY <2>1, <1>1, <1>6 DEF EventsTell
<1> QED
  BY <1>3, <1>4, <1>5, <1>6

\* The subscriber comes to a file, reads it and sends what it has read.
LEMMA FilesWatch ==
    ASSUME TypeOK, FilesInv, Watch
    PROVE  FilesInv'
<1> USE DEF crawlv, workv, engine
<1>1. up /\ up' /\ EventsTell /\ WatchTrue /\ RestTrue /\ AtRest'
  BY DEF Watch, WatchEvent, WatchMeta, WatchExtract, WatchSend, FilesInv, AtRest
<1>2. UNCHANGED <<disk, orphans, raced, cat, cleft, cpath, batch, pend, ann>>
  BY DEF Watch, WatchEvent, WatchMeta, WatchExtract, WatchSend
<1>3. \A u : CrawlComing(u) => CrawlComing(u)'
  BY <1>2 DEF CrawlComing
<1>4. failed \subseteq failed'
  BY DEF Watch, WatchEvent, WatchMeta, WatchExtract, WatchSend
<1>5. SUFFICES EventsTell' /\ WatchTrue' /\ RestTrue'
  BY <1>1 DEF FilesInv
<1>6. CASE WatchEvent
  <2> DEFINE e == Head(events)
  <2>1. /\ EventsTell'
        /\ \A u \in Paths : Named(u) => Names(e, u) \/ Named(u)'
        /\ \A u \in Paths : Named(u)' => Named(u)
        /\ \A u \in Paths : Names(e, u) /\ ~Named(u)' => (GoneAfter(e, u) <=> disk[u] = 0)
    BY <1>1, <1>6, TakeEvent DEF WatchEvent
  <2>2. e \in Event /\ ((e.kind = "renamed") <=> (e.path # e.to))
    <3>1. e = events[1] /\ 1 \in 1..Len(events) /\ e \in Event
      BY <1>6 DEF WatchEvent, TypeOK
    <3> QED
      BY <3>1, <1>1 DEF EventsTell
  <2>3. e.path \in Paths /\ e.to \in Paths /\ e.kind \in {"changed", "deleted", "renamed"}
    BY <2>2 DEF Event
  <2>4. /\ IF e.kind \in {"deleted", "renamed"} THEN Send(Remove(e.path))
                                                ELSE UNCHANGED tasks
        /\ IF e.kind = "deleted" THEN UNCHANGED <<wat, wpath>>
                                 ELSE wat' = "meta" /\ wpath' = e.to
        /\ wat = "recv"
    BY <1>6 DEF WatchEvent
  <2> HIDE DEF e
  <2>5. WatchTrue'
    <3> SUFFICES ASSUME NEW u \in Paths, wat' # "recv", wpath' = u, ~Named(u)'
                 PROVE  disk'[u] # 0 /\ wat' # "send"
      BY DEF WatchTrue
    <3>1. wat' = "meta" /\ u = e.to /\ e.kind # "deleted"
      BY <2>4
    <3>2. Names(e, u) /\ ~GoneAfter(e, u)
      BY <3>1, <2>2 DEF Names, GoneAfter
    <3> QED
      BY <3>1, <3>2, <2>1, <1>2
  <2>6. RestTrue'
    <3> SUFFICES ASSUME NEW u \in Paths, u \notin failed, u \notin raced,
                        ~Watched(u)', ~CrawlComing(u)'
                 PROVE  Due(u)'
      BY <1>2, <1>4 DEF RestTrue
    <3>1. ~Named(u)' /\ ~(wat' # "recv" /\ wpath' = u)
      BY DEF Watched
    <3>2. CASE Names(e, u)
      <4>1. GoneAfter(e, u) /\ u = e.path
        BY <3>1, <3>2, <2>2, <2>3, <2>4 DEF Names, GoneAfter
      <4>2. disk[u] = 0
        BY <4>1, <3>1, <3>2, <2>1
      <4>3. Send(Remove(e.path)) /\ Remove(e.path) \in Task
        BY <4>1, <2>3, <2>4, TaskTypes DEF GoneAfter
      <4>4. /\ Remove(e.path).path = u
            /\ Fits(u, Remove(e.path).doc, Vector(Remove(e.path).doc))
        BY <4>1, <4>2 DEF Remove, Fits
      <4> QED
        BY <4>3, <4>4, <1>2, DueSend
    <3>3. CASE ~Names(e, u)
      <4>1. Due(u)
        BY <3>1, <3>3, <1>1, <1>3, <2>1, <2>4 DEF RestTrue, Watched
      <4>2. CASE UNCHANGED tasks
        BY <4>1, <4>2, <1>2, DueFrame
      <4>3. CASE Send(Remove(e.path))
        <5>1. Remove(e.path) \in Task /\ Remove(e.path).path # u
          BY <3>3, <2>3, TaskTypes DEF Names, Remove
        <5> QED
          BY <4>1, <4>3, <5>1, <1>2, DueSend
      <4> QED
        BY <4>2, <4>3, <2>4
    <3> QED
      BY <3>2, <3>3
  <2> QED
    BY <2>1, <2>5, <2>6
<1>7. CASE WatchMeta
  <2>1. UNCHANGED <<events, wpath, wdoc, tasks>> /\ wat = "meta"
        /\ wat' = IF disk[wpath] = 0 THEN "recv" ELSE "extract"
    BY <1>7 DEF WatchMeta
  <2>2. EventsTell' /\ WatchTrue'
    BY <2>1, <1>1, <1>2 DEF EventsTell, WatchTrue, Named
  <2>3. \A u \in Paths : Watched(u) => Watched(u)'
    BY <2>1, <1>1 DEF Watched, WatchTrue, Named
  <2>4. \A u \in Paths : Due(u) => Due(u)'
    BY <2>1, <1>2, DueFrame
  <2> QED
    BY <2>2, <2>3, <2>4, <1>1, <1>2, <1>3, <1>4 DEF RestTrue
<1>8. CASE WatchExtract
  <2>1. UNCHANGED <<events, wpath, tasks>> /\ wat = "extract" /\ wat' = "send"
        /\ (wdoc' = disk[wpath] \/ wpath \in failed')
    BY <1>8 DEF WatchExtract
  <2>2. EventsTell' /\ WatchTrue'
    BY <2>1, <1>1, <1>2 DEF EventsTell, WatchTrue, Named
  <2>3. \A u \in Paths : Watched(u) => Watched(u)'
    BY <2>1 DEF Watched, Named
  <2>4. \A u \in Paths : Due(u) => Due(u)'
    BY <2>1, <1>2, DueFrame
  <2> QED
    BY <2>2, <2>3, <2>4, <1>1, <1>2, <1>3, <1>4 DEF RestTrue
<1>9. CASE WatchSend
  <2>1. /\ UNCHANGED <<events, failed>> /\ wat = "send" /\ wat' = "recv"
        /\ Send(Upsert(wpath, wdoc))
    BY <1>9 DEF WatchSend
  <2>2. EventsTell' /\ WatchTrue'
    BY <2>1, <1>1, <1>2 DEF EventsTell, WatchTrue, Named
  <2>3. Upsert(wpath, wdoc) \in Task
    BY <2>1, TaskTypes DEF TypeOK
  <2>4. RestTrue'
    <3> SUFFICES ASSUME NEW u \in Paths, u \notin failed, u \notin raced,
                        ~Watched(u)', ~CrawlComing(u)'
                 PROVE  Due(u)'
      BY <1>2, <1>4 DEF RestTrue
    <3>1. ~Named(u)
      BY <2>1 DEF Watched, Named
    <3>2. CASE u = wpath
      <4>1. disk[u] # 0 /\ wdoc = disk[u]
        BY <3>1, <3>2, <1>1, <2>1 DEF WatchTrue
      <4>2. /\ Upsert(wpath, wdoc).path = u
            /\ Fits(u, Upsert(wpath, wdoc).doc, Vector(Upsert(wpath, wdoc).doc))
        BY <4>1, <3>2 DEF Upsert, Fits, Vector
      <4> QED
        BY <4>2, <2>1, <2>3, <1>2, DueSend
    <3>3. CASE u # wpath
      <4>1. Due(u)
        BY <3>1, <3>3, <1>1, <1>3 DEF RestTrue, Watched
      <4>2. Upsert(wpath, wdoc).path # u
        BY <3>3 DEF Upsert
      <4> QED
        BY <4>1, <4>2, <2>1, <2>3, <1>2, DueSend
    <3> QED
      BY <3>2, <3>3
  <2> QED
    BY <2>2, <2>4
<1> QED
  BY <1>6, <1>7, <1>8, <1>9 DEF Watch

\* The crawl comes to every file there is and sends what it has read, which is
\* what the file is, unless the subscriber has yet to come to it.
LEMMA FilesCrawl ==
    ASSUME TypeOK, FilesInv, Crawl
    PROVE  FilesInv'
<1> USE DEF watchv, workv, engine
<1>1. up /\ up' /\ EventsTell /\ WatchTrue /\ RestTrue /\ AtRest'
  BY DEF Crawl, CrawlList, CrawlExtract, CrawlSend, CrawlEnd, FilesInv, AtRest
<1>2. UNCHANGED <<disk, orphans, events, wat, wpath, wdoc, batch, pend, ann>>
  BY DEF Crawl, CrawlList, CrawlExtract, CrawlSend, CrawlEnd
<1>3. failed \subseteq failed' /\ raced \subseteq raced'
  BY DEF Crawl, CrawlList, CrawlExtract, CrawlSend, CrawlEnd
<1>4. EventsTell' /\ WatchTrue' /\ \A u : Watched(u) => Watched(u)'
  BY <1>1, <1>2, <1>3 DEF EventsTell, WatchTrue, Watched, Named
<1>5. SUFFICES RestTrue'
  BY <1>1, <1>4 DEF FilesInv
<1>6. SUFFICES ASSUME NEW u \in Paths, u \notin failed', u \notin raced',
                      ~Watched(u)', ~CrawlComing(u)'
               PROVE  Due(u)'
  BY DEF RestTrue
<1>7. ~Watched(u) /\ (CrawlComing(u) \/ Due(u))
  BY <1>1, <1>3, <1>4, <1>6 DEF RestTrue
<1>8. Due(u) /\ tasks' = tasks => Due(u)'
  BY <1>2, DueFrame
<1>9. CASE CrawlList
  <2>1. ~CrawlComing(u)
    BY <1>6, <1>9 DEF CrawlList, CrawlComing, FilesInv, AtRest
  <2> QED
    BY <2>1, <1>7, <1>8, <1>9 DEF CrawlList
<1>10. ASSUME NEW p \in Paths, CrawlExtract(p) PROVE Due(u)'
  <2>1. ~CrawlComing(u)
    BY <1>6, <1>10 DEF CrawlExtract, CrawlComing
  <2> QED
    BY <2>1, <1>7, <1>8, <1>10 DEF CrawlExtract
<1>11. CASE CrawlSend
  <2>1. /\ cat = "send" /\ cat' = "next" /\ cleft' = cleft /\ Send(Upsert(cpath, cdoc))
        /\ raced' = IF (disk[cpath] # cdoc \/ disk[cpath] = 0) /\ Settled(cpath)
                    THEN raced \cup {cpath} ELSE raced
    BY <1>11 DEF CrawlSend
  <2>2. Upsert(cpath, cdoc) \in Task
    BY <2>1, TaskTypes DEF TypeOK
  <2>3. CASE u = cpath
    <3>1. Settled(cpath)
      BY <1>7, <2>3 DEF Settled, Watched, Named, Names
    <3>2. disk[u] = cdoc /\ disk[u] # 0
      BY <1>6, <2>1, <2>3, <3>1
    <3>3. /\ Upsert(cpath, cdoc).path = u
          /\ Fits(u, Upsert(cpath, cdoc).doc, Vector(Upsert(cpath, cdoc).doc))
      BY <2>3, <3>2 DEF Upsert, Fits, Vector
    <3> QED
      BY <2>1, <2>2, <3>3, <1>2, DueSend
  <2>4. CASE u # cpath
    <3>1. Due(u) /\ Upsert(cpath, cdoc).path # u
      BY <2>1, <2>4, <1>6, <1>7 DEF CrawlComing, Upsert
    <3> QED
      BY <2>1, <2>2, <3>1, <1>2, DueSend
  <2> QED
    BY <2>3, <2>4
<1>12. CASE CrawlEnd
  <2>1. Due(u)
    BY <1>7, <1>12 DEF CrawlEnd, CrawlComing
  <2>2. CASE Send(Flush)
    <3>1. Flush.path # u
      BY SearchConstants DEF Flush
    <3> QED
      BY <2>1, <2>2, <3>1, <1>2, TaskTypes, DueSend
  <2> QED
    BY <2>1, <2>2, <1>8, <1>12 DEF CrawlEnd
<1> QED
  BY <1>9, <1>10, <1>11, <1>12 DEF Crawl

\* A task on its own, or after others, is the last word on its file.
LEMMA OneSaid ==
    ASSUME NEW t \in Task, NEW p
    PROVE  /\ t.path = p /\ Fits(p, t.doc, Vector(t.doc)) => Said(<<t>>, p)
           /\ t.path # p => Absent(<<t>>, p)
<1>1. Len(<<t>>) = 1 /\ <<t>>[1] = t /\ 1..1 = {1}
  OBVIOUS
<1> QED
  BY <1>1 DEF Said, LastAt, Absent

\* Whatever the worker does, what it was to do is done or still to do.
LEMMA WorkDue ==
    ASSUME TypeOK, AtRest, Work, NEW p \in Paths, p \notin failed', Due(p)
    PROVE  Due(p)'
<1> USE DEF Goto
<1>1. UNCHANGED <<disk, orphans>>
  BY DEF Work, Recv, Drain, Apply, Decide, Commit, Persist, WorkerFrame
<1>t. tasks # <<>> => Head(tasks) \in Task
  BY DEF TypeOK
<1>f. tasks # <<>> /\ Head(tasks).op = "flush" => Head(tasks).path # p
  BY <1>t, SearchConstants DEF Task, UpsertTask, Flush
<1>r. tasks # <<>> /\ Head(tasks).op = "remove" => Head(tasks).doc = None
  BY <1>t DEF Task, UpsertTask, Flush
<1>v. Vector(None) = None
  BY DEF Vector
<1>2. CASE Recv
  <2>1. batch = <<>> /\ tasks # <<>> /\ tasks' = Tail(tasks)
    BY <1>2 DEF Recv, AtRest
  <2>2. ~Said(batch, p) /\ Absent(batch, p)
    BY <2>1 DEF Said, Absent
  <2>3. CASE /\ batch' = <<Head(tasks)>>
             /\ UNCHANGED <<force, dirty, pend, ann, incidents, failed>>
    BY <2>1, <2>2, <2>3, <1>1, <1>t, OneSaid, DueTake
  <2>4. CASE /\ Head(tasks).op = "remove"
             /\ pend' = Without(pend, Head(tasks).path)
             /\ ann' = Without(ann, Head(tasks).path)
             /\ UNCHANGED <<batch, force, incidents, failed>>
    <3>1. Absent(batch', p)
      BY <2>1, <2>4 DEF Absent
    <3>2. /\ Head(tasks).path = p => pend'[p] = None /\ ann'[p] = None
          /\ Head(tasks).path # p => pend'[p] = pend[p] /\ ann'[p] = ann[p]
      BY <2>4 DEF Without
    <3> QED
      BY <2>1, <2>2, <2>4, <3>1, <3>2, <1>1, <1>r, <1>v, DueTake
  <2>5. CASE /\ Head(tasks).op = "flush"
             /\ UNCHANGED <<batch, dirty, pend, ann, incidents, failed>>
    BY <2>1, <2>5, <1>1, <1>f, DueTake
  <2> QED
    BY <1>2, <2>3, <2>4, <2>5 DEF Recv
<1>3. CASE Drain
  <2>1. tasks # <<>> /\ tasks' = Tail(tasks)
    BY <1>3 DEF Drain
  <2>2. CASE /\ Head(tasks).op = "upsert"
             /\ batch' = Append(batch, Head(tasks))
             /\ UNCHANGED <<kat, force, dirty, pend, ann, incidents, failed>>
    <3>1. Head(tasks) \in UpsertTask /\ batch \in Seq(UpsertTask)
      BY <2>1, <2>2, <1>t DEF Task, Flush, TypeOK
    <3> QED
      BY <2>1, <2>2, <3>1, <1>1, AppendSaid, DueTake
  <2>3. CASE /\ Head(tasks).op = "remove"
             /\ UpsertThenRemove(Head(tasks).path)
             /\ batch' = <<>>
    <3>1. Absent(batch', p)
      BY <2>3 DEF Absent
    <3>2. /\ Head(tasks).path = p => pend'[p] = None /\ ann'[p] = None
          /\ Head(tasks).path # p /\ Said(batch, p) => Fits(p, pend'[p], ann'[p])
          /\ Head(tasks).path # p /\ Absent(batch, p) =>
               pend'[p] = pend[p] /\ ann'[p] = ann[p]
      BY <2>3, EngineFits
    <3> QED
      BY <2>1, <2>3, <3>1, <3>2, <1>1, <1>r, <1>v, DueTake
  <2>4. CASE /\ Head(tasks).op = "flush"
             /\ UNCHANGED <<batch, dirty, pend, ann, incidents, failed>>
    BY <2>1, <2>4, <1>1, <1>f, DueTake
  <2> QED
    BY <1>3, <2>2, <2>3, <2>4 DEF Drain
<1>4. CASE Apply
  <2>1. UpsertThenRemove(None) /\ batch' = <<>> /\ tasks' = tasks
    BY <1>4 DEF Apply
  <2>2. p # None
    BY SearchConstants
  <2>3. /\ Said(batch, p) => Fits(p, pend'[p], ann'[p])
        /\ Absent(batch, p) => pend'[p] = pend[p] /\ ann'[p] = ann[p]
    BY <2>1, <2>2, EngineFits
  <2>4. Absent(batch', p)
    BY <2>1 DEF Absent
  <2>5. \/ Said(tasks', p)
        \/ Absent(tasks', p) /\ Absent(batch', p) /\ Fits(p, pend'[p], ann'[p])
    BY <2>1, <2>3, <2>4 DEF Due
  <2> QED
    BY <2>5, <1>1 DEF Due, Said, LastAt, Absent, Fits
<1>5. CASE Decide \/ Commit \/ Persist
  BY <1>1, <1>5, DueFrame DEF Decide, Commit, Persist, WorkerFrame
<1> QED
  BY <1>2, <1>3, <1>4, <1>5 DEF Work

LEMMA FilesWork ==
    ASSUME TypeOK, FilesInv, Work
    PROVE  FilesInv'
<1> USE DEF Goto, watchv, crawlv
<1>1. up /\ up' /\ EventsTell /\ WatchTrue /\ RestTrue /\ AtRest
  BY DEF Work, Recv, Drain, Apply, Decide, Commit, Persist, FilesInv, AtRest, WorkerFrame
<1>2. UNCHANGED <<disk, events, wat, wpath, wdoc, cat, cleft, cpath, raced>>
  BY DEF Work, Recv, Drain, Apply, Decide, Commit, Persist, WorkerFrame
<1>3. failed \subseteq failed'
  BY DEF Work, Recv, Drain, Apply, Decide, Commit, Persist, WorkerFrame, UpsertThenRemove
<1>4. AtRest'
  BY <1>1, <1>2 DEF Work, Recv, Drain, Apply, Decide, Commit, Persist, AtRest
<1>5. EventsTell' /\ WatchTrue'
  BY <1>1, <1>2, <1>3 DEF EventsTell, WatchTrue, Named
<1>6. \A u : (Watched(u) => Watched(u)') /\ (CrawlComing(u) => CrawlComing(u)')
  BY <1>2 DEF Watched, Named, CrawlComing
<1>7. RestTrue'
  BY <1>1, <1>2, <1>3, <1>6, WorkDue DEF RestTrue
<1> QED
  BY <1>1, <1>4, <1>5, <1>7 DEF FilesInv

\* At the start the crawl is to come to every file there is, and the engine
\* holds a document of a file that is gone only if it went while nobody watched.
LEMMA FilesStart ==
    ASSUME TypeOK, FilesInv, Start
    PROVE  FilesInv'
<1> USE DEF watchv, workv, engine
<1>1. /\ events' = <<>> /\ wat' = "recv" /\ cat' = "list" /\ cleft' = {}
      /\ tasks' = <<>> /\ batch' = <<>> /\ pend' = index /\ disk' = disk /\ up'
      /\ orphans' = {p \in Paths : disk[p] = 0 /\ index[p] # None}
  BY DEF Start, FilesInv, AtRest
<1>2. AtRest'
  BY <1>1 DEF Start, FilesInv, AtRest
<1>3. EventsTell' /\ WatchTrue'
  BY <1>1 DEF EventsTell, WatchTrue
<1>4. ASSUME NEW u \in Paths PROVE CrawlComing(u)' \/ Due(u)'
  <2>1. CASE disk[u] # 0
    BY <1>1, <2>1 DEF CrawlComing
  <2>2. CASE disk[u] = 0
    <3>1. Absent(tasks', u) /\ Absent(batch', u)
      BY <1>1 DEF Absent
    <3>2. pend'[u] = None \/ u \in orphans'
      BY <1>1, <2>2
    <3> QED
      BY <1>1, <2>2, <3>1, <3>2 DEF Due, Absent, Fits
  <2> QED
    BY <2>1, <2>2
<1> QED
  BY <1>2, <1>3, <1>4 DEF FilesInv, RestTrue

LEMMA FilesStep == TypeOK /\ FilesInv /\ [Next]_vars => FilesInv'
<1> SUFFICES ASSUME TypeOK, FilesInv, [Next]_vars PROVE FilesInv'
  OBVIOUS
<1>1. ASSUME NEW p \in Paths, NEW q \in Paths, Change(p) \/ Delete(p) \/ Rename(p, q)
      PROVE  FilesInv'
  BY <1>1, FilesChanged
<1>2. CASE Crash
  BY <1>2 DEF Crash, FilesInv, AtRest
<1>3. CASE UNCHANGED vars
  <2>1. AtRest' /\ up' = up
    BY <1>3 DEF vars, FilesInv, AtRest
  <2>2. CASE up
    <3>1. EventsTell /\ WatchTrue /\ RestTrue
      BY <2>2 DEF FilesInv
    <3>2. EventsTell' /\ WatchTrue'
      BY <1>3, <3>1 DEF vars, EventsTell, WatchTrue, Named
    <3>3. \A u \in Paths : Due(u) => Due(u)'
      BY <1>3, DueFrame DEF vars
    <3>4. RestTrue'
      BY <1>3, <3>1, <3>3 DEF vars, RestTrue, Watched, Named, CrawlComing
    <3> QED
      BY <2>1, <3>2, <3>4 DEF FilesInv
  <2> QED
    BY <2>1, <2>2 DEF FilesInv
<1> QED
  BY <1>1, <1>2, <1>3, FilesWatch, FilesCrawl, FilesWork, FilesStart DEF Next

\* Once every channel is empty and nobody is at work, the searchable index and
\* the vectors are the files, in whatever order the changes of the files, the
\* subscriber, the crawl and the worker took their steps, and after a restart at
\* any of them (indexer/watcher.rs, crawl.rs and scheduler.rs, engine.rs).
THEOREM IndexMatchesFiles == Spec => []IndexIsFiles
<1>1. Init => TypeOK /\ CommitInv /\ FilesInv
  BY TypeInit, CommitInit, FilesInit
<1>2. TypeOK /\ CommitInv /\ FilesInv /\ [Next]_vars => (TypeOK /\ CommitInv /\ FilesInv)'
  BY TypeStep, CommitStep, FilesStep
<1>3. TypeOK /\ CommitInv /\ FilesInv => IndexIsFiles
  <2> SUFFICES ASSUME TypeOK, CommitInv, FilesInv, Quiet,
                      NEW p \in Paths \ (failed \cup raced)
               PROVE  \/ disk[p] # 0 /\ index[p] = disk[p] /\ ann[p] = disk[p]
                      \/ disk[p] = 0 /\ (index[p] = None \/ p \in orphans)
    BY DEF IndexIsFiles
  <2>1. /\ events = <<>> /\ wat = "recv" /\ cat = "done" /\ cleft = {}
        /\ tasks = <<>> /\ batch = <<>> /\ RestTrue
    BY DEF Quiet, Drained, FilesInv, AtRest
  <2>2. ~Watched(p) /\ ~CrawlComing(p)
    BY <2>1 DEF Watched, Named, CrawlComing
  <2>3. Due(p)
    BY <2>1, <2>2 DEF RestTrue
  <2>4. Fits(p, pend[p], ann[p])
    BY <2>1, <2>3 DEF Due, Said
  <2>5. index = pend
    BY DEF Quiet, Drained, CommitInv, TypeOK
  <2> QED
    BY <2>4, <2>5 DEF Fits
<1> QED
  BY <1>1, <1>2, <1>3, PTL DEF Spec

=============================================================================
