----------------------------- MODULE SearchIndex -----------------------------
(***************************************************************************)
(* Live indexing (crates/orchid-search): the bus subscriber of             *)
(* indexer/watcher.rs and the bootstrap crawl of indexer/crawl.rs read     *)
(* files and enqueue tasks, the single worker of indexer/scheduler.rs      *)
(* batches them into the engine of engine.rs, which keeps a Tantivy index  *)
(* and a vector index (ANN) that it snapshots after every commit.          *)
(*                                                                         *)
(* A file is the version of its content; a document is the version its     *)
(* text was read at, 0 when it has no text.  Every await is a step: files  *)
(* change between any two of them.                                         *)
(***************************************************************************)
EXTENDS Naturals, Sequences, FiniteSets

CONSTANTS
    Paths,       \* files in scope
    Existing,    \* those there before the first start
    None,
    BatchMax,    \* BATCH_MAX (64 in the code)
    Faults,      \* what may fail: "extract", "upsert", "commit", "persist"
    MaxIncidents \* bound: changes of the files, failures and crashes

ASSUME SearchConstants ==
    /\ Existing \subseteq Paths
    /\ BatchMax \in Nat \ {0}
    /\ MaxIncidents \in Nat
    /\ None \notin Nat \cup Paths

VARIABLES
    up,          \* the process runs and watches the roots
    disk,        \* files: version, 0 when there is none
    events,      \* channel of the bus subscriber
    wat, wpath, wdoc,          \* subscriber: step, path, document
    cat, cleft, cpath, cdoc,   \* crawl: step, files left, path, document
    csent,       \* crawl: files_enqueued > 0
    tasks,       \* channel of the scheduler
    kat,         \* worker: step
    batch,       \* worker: upserts held
    force, dirty,
    pend,        \* Tantivy: documents with the operations not yet committed
    index,       \* Tantivy: committed, searchable
    ann,         \* vectors in memory
    snap,        \* vectors in the snapshot file
    incidents,   \* changes, failures and crashes so far
    failed,      \* ghost: paths of documents a failure lost
    unsaved,     \* ghost: the last commit failed
    raced,       \* ghost: the crawl overwrote a newer document
    orphans,     \* ghost: deleted while nobody watched
    torn         \* ghost: snapshot and index differed at the start

watchv == <<events, wat, wpath, wdoc>>
crawlv == <<cat, cleft, cpath, cdoc, csent>>
workv == <<kat, batch, force, dirty>>
engine == <<pend, index, ann, snap>>
vars == <<up, disk, events, wat, wpath, wdoc, cat, cleft, cpath, cdoc, csent,
          tasks, kat, batch, force, dirty, pend, index, ann, snap,
          incidents, failed, unsaved, raced, orphans, torn>>

Empty == [p \in Paths |-> None]

\* The vector of a document: documents without text have none.
Vector(d) == IF d = 0 THEN None ELSE d

Upsert(p, d) == [op |-> "upsert", path |-> p, doc |-> d]
Remove(p) == [op |-> "remove", path |-> p, doc |-> None]
Flush == [op |-> "flush", path |-> None, doc |-> None]

Send(t) == tasks' = Append(tasks, t)

Init ==
    /\ up = FALSE
    /\ disk = [p \in Paths |-> IF p \in Existing THEN 1 ELSE 0]
    /\ events = <<>>
    /\ wat = "recv" /\ wpath = None /\ wdoc = None
    /\ cat = "done" /\ cleft = {} /\ cpath = None /\ cdoc = None /\ csent = FALSE
    /\ tasks = <<>>
    /\ kat = "recv" /\ batch = <<>>
    /\ force = FALSE /\ dirty = FALSE
    /\ pend = Empty /\ index = Empty /\ ann = Empty /\ snap = Empty
    /\ incidents = 0
    /\ failed = {} /\ unsaved = FALSE /\ raced = {} /\ orphans = {} /\ torn = {}

Incident == incidents < MaxIncidents /\ incidents' = incidents + 1

\* A call that may fail does.
Fault(f) == f \in Faults /\ Incident

-----------------------------------------------------------------------------
(* The files.  A change of the content or of the tags is a new version;    *)
(* the file watcher publishes an event for it while the process runs.      *)

Happens(kind, p, q) ==
    /\ Incident
    /\ events' = IF up THEN Append(events, [kind |-> kind, path |-> p, to |-> q])
                       ELSE events
    /\ raced' = raced \ {p, q}
    /\ orphans' = orphans \ {p, q}
    /\ UNCHANGED <<up, wat, wpath, wdoc, crawlv, tasks, workv, engine, failed,
                   unsaved, torn>>

\* No file had this version before.
Newest == incidents + 2

Change(p) ==
    /\ Happens("changed", p, p)
    /\ disk' = [disk EXCEPT ![p] = Newest]

Delete(p) ==
    /\ disk[p] # 0
    /\ Happens("deleted", p, p)
    /\ disk' = [disk EXCEPT ![p] = 0]

Rename(p, q) ==
    /\ p # q /\ disk[p] # 0
    /\ Happens("renamed", p, q)
    /\ disk' = [disk EXCEPT ![p] = 0, ![q] = Newest]

-----------------------------------------------------------------------------
(* The subscriber.                                                         *)

\* handle_envelope: a deletion and the old name of a rename are removals.
WatchEvent ==
    /\ up /\ wat = "recv" /\ events # <<>>
    /\ LET e == Head(events) IN
        /\ IF e.kind \in {"deleted", "renamed"} THEN Send(Remove(e.path))
                                                ELSE UNCHANGED tasks
        /\ IF e.kind = "deleted" THEN UNCHANGED <<wat, wpath>>
                                 ELSE wat' = "meta" /\ wpath' = e.to
    /\ events' = Tail(events)
    /\ UNCHANGED <<up, disk, wdoc, crawlv, workv, engine, incidents, failed,
                   unsaved, raced, orphans, torn>>

\* Mutant: a file without metadata is tried again.
WatchMeta_Retries ==
    /\ wat = "meta"
    /\ wat' = IF disk[wpath] = 0 THEN "meta" ELSE "extract"
    /\ UNCHANGED <<up, disk, events, wpath, wdoc, crawlv, tasks, workv, engine,
                   incidents, failed, unsaved, raced, orphans, torn>>

\* reindex: a file without metadata is left alone.
WatchMeta ==
    /\ wat = "meta"
    /\ wat' = IF disk[wpath] = 0 THEN "recv" ELSE "extract"
    /\ UNCHANGED <<up, disk, events, wpath, wdoc, crawlv, tasks, workv, engine,
                   incidents, failed, unsaved, raced, orphans, torn>>

\* A failed extraction is a document without text.
WatchExtract ==
    /\ wat = "extract"
    /\ wat' = "send"
    /\ \/ wdoc' = disk[wpath] /\ UNCHANGED <<incidents, failed>>
       \/ /\ Fault("extract")
          /\ wdoc' = 0
          /\ failed' = failed \cup {wpath}
    /\ UNCHANGED <<up, disk, events, wpath, crawlv, tasks, workv, engine,
                   unsaved, raced, orphans, torn>>

WatchSend ==
    /\ wat = "send"
    /\ Send(Upsert(wpath, wdoc))
    /\ wat' = "recv" /\ wpath' = None /\ wdoc' = None
    /\ UNCHANGED <<up, disk, events, crawlv, workv, engine, incidents, failed,
                   unsaved, raced, orphans, torn>>

-----------------------------------------------------------------------------
(* The crawl, started once the roots are watched.                          *)

CrawlList ==
    /\ cat = "list"
    /\ cleft' = {p \in Paths : disk[p] # 0}
    /\ cat' = "next"
    /\ UNCHANGED <<up, disk, watchv, cpath, cdoc, csent, tasks, workv, engine,
                   incidents, failed, unsaved, raced, orphans, torn>>

\* build_document.
CrawlExtract(p) ==
    /\ cat = "next" /\ p \in cleft
    /\ cleft' = cleft \ {p}
    /\ cpath' = p /\ cat' = "send"
    /\ \/ cdoc' = disk[p] /\ UNCHANGED <<incidents, failed>>
       \/ /\ Fault("extract")
          /\ cdoc' = 0
          /\ failed' = failed \cup {p}
    /\ UNCHANGED <<up, disk, watchv, csent, tasks, workv, engine, unsaved,
                   raced, orphans, torn>>

\* Nothing on its way would correct a document of p.
Settled(p) ==
    /\ \A i \in 1..Len(events) : p \notin {events[i].path, events[i].to}
    /\ wat = "recv" \/ wpath # p

CrawlSend ==
    /\ cat = "send"
    /\ Send(Upsert(cpath, cdoc))
    /\ csent' = TRUE
    /\ cat' = "next" /\ cpath' = None /\ cdoc' = None
    /\ raced' = IF (disk[cpath] # cdoc \/ disk[cpath] = 0) /\ Settled(cpath)
                THEN raced \cup {cpath} ELSE raced
    /\ UNCHANGED <<up, disk, watchv, cleft, workv, engine, incidents, failed,
                   unsaved, orphans, torn>>

CrawlEnd ==
    /\ cat = "next" /\ cleft = {}
    /\ cat' = "done" /\ csent' = FALSE
    /\ IF csent THEN Send(Flush) ELSE UNCHANGED tasks
    /\ UNCHANGED <<up, disk, watchv, cleft, cpath, cdoc, workv, engine,
                   incidents, failed, unsaved, raced, orphans, torn>>

-----------------------------------------------------------------------------
(* The engine, called by the worker alone.                                 *)

\* The last document of a batch for a path, None when there is none.
Last(b, p) ==
    LET at == {i \in 1..Len(b) : b[i].path = p} IN
    IF at = {} THEN None
    ELSE b[CHOOSE i \in at : \A j \in at : j <= i].doc

Without(f, p) == [q \in Paths |-> IF q = p THEN None ELSE f[q]]

Indexed(b) == [p \in Paths |-> IF Last(b, p) = None THEN pend[p] ELSE Last(b, p)]

\* upsert_batch_sync, then remove_sync of a path (None: no removal).  Documents
\* are replaced one by one, the vectors after all of them.  When adding a
\* document fails it stays deleted and the rest is dropped.  Nobody but the
\* worker sees operations before the commit, so both calls are one step.
UpsertThenRemove(gone) ==
    \/ /\ pend' = Without(Indexed(batch), gone)
       /\ ann' = Without([p \in Paths |-> IF Last(batch, p) = None THEN ann[p]
                                          ELSE Vector(Last(batch, p))], gone)
       /\ UNCHANGED <<incidents, failed>>
    \/ /\ Fault("upsert")
       /\ \E k \in 1..Len(batch) :
            pend' = Without([Indexed(SubSeq(batch, 1, k - 1))
                                EXCEPT ![batch[k].path] = None], gone)
       /\ ann' = Without(ann, gone)
       /\ failed' = failed \cup {batch[i].path : i \in 1..Len(batch)}

-----------------------------------------------------------------------------
(* worker_loop.                                                            *)

Goto(s) == kat' = s

WorkerFrame == UNCHANGED <<up, disk, watchv, crawlv, index, snap, unsaved,
                           raced, orphans, torn>>

\* recv: the first task of a round.
Recv ==
    /\ up /\ kat = "recv" /\ tasks # <<>>
    /\ LET t == Head(tasks) IN
        \/ /\ t.op = "upsert"
           /\ batch' = <<t>>
           /\ UNCHANGED <<force, dirty, pend, ann, incidents, failed>>
        \/ /\ t.op = "remove"
           /\ pend' = Without(pend, t.path) /\ ann' = Without(ann, t.path)
           /\ dirty' = TRUE
           /\ UNCHANGED <<batch, force, incidents, failed>>
        \/ /\ t.op = "flush"
           /\ force' = TRUE
           /\ UNCHANGED <<batch, dirty, pend, ann, incidents, failed>>
    /\ Goto("drain")
    /\ tasks' = Tail(tasks)
    /\ WorkerFrame

\* Mutant: the removal overtakes the upserts received before it.
Drain_RemoveFirst ==
    /\ kat = "drain" /\ Len(batch) < BatchMax /\ tasks # <<>>
    /\ LET t == Head(tasks) IN
        \/ /\ t.op = "upsert"
           /\ batch' = Append(batch, t)
           /\ UNCHANGED <<kat, force, dirty, pend, ann, incidents, failed>>
        \/ /\ t.op = "remove"
           /\ pend' = Without(pend, t.path) /\ ann' = Without(ann, t.path)
           /\ dirty' = TRUE
           /\ Goto("apply")
           /\ UNCHANGED <<batch, force, incidents, failed>>
        \/ /\ t.op = "flush"
           /\ force' = TRUE
           /\ Goto("apply")
           /\ UNCHANGED <<batch, dirty, pend, ann, incidents, failed>>
    /\ tasks' = Tail(tasks)
    /\ WorkerFrame

\* try_recv: upserts join the batch; a removal, which the batch precedes, or a
\* flush ends the round.
Drain ==
    /\ kat = "drain" /\ Len(batch) < BatchMax /\ tasks # <<>>
    /\ LET t == Head(tasks) IN
        \/ /\ t.op = "upsert"
           /\ batch' = Append(batch, t)
           /\ UNCHANGED <<kat, force, dirty, pend, ann, incidents, failed>>
        \/ /\ t.op = "remove"
           /\ UpsertThenRemove(t.path)
           /\ batch' = <<>>
           /\ dirty' = TRUE
           /\ Goto("decide")
           /\ UNCHANGED force
        \/ /\ t.op = "flush"
           /\ force' = TRUE
           /\ Goto("apply")
           /\ UNCHANGED <<batch, dirty, pend, ann, incidents, failed>>
    /\ tasks' = Tail(tasks)
    /\ WorkerFrame

\* Mutant: the vectors are left alone.
Apply_NoVectors ==
    /\ \/ kat = "apply"
       \/ kat = "drain" /\ (Len(batch) >= BatchMax \/ tasks = <<>>)
    /\ pend' = Indexed(batch)
    /\ dirty' = (dirty \/ batch # <<>>)
    /\ batch' = <<>>
    /\ Goto("decide")
    /\ WorkerFrame
    /\ UNCHANGED <<tasks, force, ann, incidents, failed>>

\* The batch, after a flush or once it is full or the channel empty.
Apply ==
    /\ \/ kat = "apply"
       \/ kat = "drain" /\ (Len(batch) >= BatchMax \/ tasks = <<>>)
    /\ UpsertThenRemove(None)
    /\ dirty' = (dirty \/ batch # <<>>)
    /\ batch' = <<>>
    /\ Goto("decide")
    /\ WorkerFrame
    /\ UNCHANGED <<tasks, force>>

\* Mutant: a round commits only when the 750 ms are over.
Decide_OnlyDue ==
    /\ kat = "decide"
    /\ \E due \in BOOLEAN :
        Goto(IF (dirty \/ force) /\ (force \/ due) THEN "commit" ELSE "recv")
    /\ force' = FALSE
    /\ WorkerFrame
    /\ UNCHANGED <<tasks, batch, dirty, pend, ann, incidents, failed>>

\* Commits are coalesced while tasks keep coming.  due: COMMIT_COALESCE passed.
Decide ==
    /\ kat = "decide"
    /\ \E due \in BOOLEAN :
        Goto(IF (dirty \/ force) /\ (force \/ due \/ tasks = <<>>) THEN "commit"
             ELSE "recv")
    /\ force' = FALSE
    /\ WorkerFrame
    /\ UNCHANGED <<tasks, batch, dirty, pend, ann, incidents, failed>>

\* commit: Tantivy's, with the reload.  A failure also clears dirty.
Commit ==
    /\ kat = "commit"
    /\ dirty' = FALSE
    /\ \/ /\ index' = pend
          /\ unsaved' = FALSE
          /\ Goto("persist")
          /\ UNCHANGED incidents
       \/ /\ Fault("commit")
          /\ unsaved' = TRUE
          /\ Goto("recv")
          /\ UNCHANGED index
    /\ UNCHANGED <<up, disk, watchv, crawlv, tasks, batch, force, pend, ann,
                   snap, failed, raced, orphans, torn>>

\* persist_ann_snapshot, whose error is ignored.
Persist ==
    /\ kat = "persist"
    /\ \/ snap' = ann /\ UNCHANGED incidents
       \/ Fault("persist") /\ UNCHANGED snap
    /\ Goto("recv")
    /\ UNCHANGED <<up, disk, watchv, crawlv, tasks, batch, force, dirty, pend,
                   index, ann, failed, unsaved, raced, orphans, torn>>

-----------------------------------------------------------------------------
(* The process.  Quitting does not wait for the worker: it is a crash.     *)

\* What is not committed is gone.  A snapshot cut short is ignored by the next
\* load, which then starts with no vectors.
Crash ==
    /\ up /\ Incident
    /\ up' = FALSE
    /\ snap' \in IF kat = "persist" THEN {snap, ann, Empty} ELSE {snap}
    /\ pend' = index /\ ann' = snap'
    /\ torn' = {p \in Paths : snap'[p] # Vector(index[p])}
    /\ events' = <<>> /\ tasks' = <<>>
    /\ wat' = "recv" /\ wpath' = None /\ wdoc' = None
    /\ cat' = "done" /\ cleft' = {} /\ cpath' = None /\ cdoc' = None /\ csent' = FALSE
    /\ kat' = "recv" /\ batch' = <<>>
    /\ force' = FALSE /\ dirty' = FALSE
    /\ failed' = {} /\ unsaved' = FALSE /\ raced' = {} /\ orphans' = {}
    /\ UNCHANGED <<disk, index>>

\* open_with_model, the subscriber, the watches, then the crawl.
Start ==
    /\ ~up
    /\ up' = TRUE
    /\ cat' = "list"
    /\ orphans' = {p \in Paths : disk[p] = 0 /\ index[p] # None}
    /\ UNCHANGED <<disk, watchv, cleft, cpath, cdoc, csent, tasks, workv,
                   engine, incidents, failed, unsaved, raced, torn>>

-----------------------------------------------------------------------------
Watch == WatchEvent \/ WatchMeta \/ WatchExtract \/ WatchSend

Crawl == CrawlList \/ (\E p \in Paths : CrawlExtract(p)) \/ CrawlSend \/ CrawlEnd

Work ==
    Recv \/ Drain \/ Apply \/ Decide \/ Commit \/ Persist

Next ==
    \/ \E p \in Paths : Change(p) \/ Delete(p)
    \/ \E p, q \in Paths : Rename(p, q)
    \/ Watch
    \/ Crawl
    \/ Work
    \/ Crash
    \/ Start

Spec == Init /\ [][Next]_vars

\* tokio polls the three tasks; every call they await returns.
FairSpec == Spec /\ WF_vars(Watch) /\ WF_vars(Crawl) /\ WF_vars(Work)

-----------------------------------------------------------------------------
(* Properties.                                                             *)

Doc == Nat \cup {None}
UpsertTask == [op : {"upsert"}, path : Paths, doc : Nat]
Task == UpsertTask \cup [op : {"remove"}, path : Paths, doc : {None}] \cup {Flush}
Event == [kind : {"changed", "deleted", "renamed"}, path : Paths, to : Paths]

\* Type invariant; a task past its first step knows its path.
TypeOK ==
    /\ up \in BOOLEAN
    /\ disk \in [Paths -> Nat]
    /\ events \in Seq(Event)
    /\ wat \in {"recv", "meta", "extract", "send"}
    /\ wat # "recv" => wpath \in Paths
    /\ wat = "send" => wdoc \in Nat
    /\ cat \in {"list", "next", "send", "done"}
    /\ cleft \subseteq Paths
    /\ cat = "send" => cpath \in Paths /\ cdoc \in Nat
    /\ csent \in BOOLEAN
    /\ tasks \in Seq(Task)
    /\ kat \in {"recv", "drain", "apply", "decide", "commit", "persist"}
    /\ batch \in Seq(UpsertTask)
    /\ force \in BOOLEAN /\ dirty \in BOOLEAN
    /\ pend \in [Paths -> Doc] /\ index \in [Paths -> Doc]
    /\ ann \in [Paths -> Doc] /\ snap \in [Paths -> Doc]
    /\ incidents \in 0..MaxIncidents
    /\ failed \subseteq Paths /\ unsaved \in BOOLEAN
    /\ raced \subseteq Paths /\ orphans \subseteq Paths /\ torn \subseteq Paths

\* A waiting worker leaves nothing uncommitted: coalescing commits never strands
\* the last round of a burst (worker_loop), unless the commit itself failed.
IdleIsCommitted ==
    (up /\ kat = "recv" /\ tasks = <<>> /\ ~unsaved) => index = pend

Drained ==
    /\ up /\ events = <<>> /\ wat = "recv" /\ cat = "done"
    /\ tasks = <<>> /\ kat = "recv"

Quiet == Drained /\ ~unsaved

\* Once every channel is empty the searchable index and the vectors are the
\* files: for every order in which changes, renames, subscriber, crawl and
\* worker interleave, and after a restart at any point.  Exempt are documents a
\* failed call lost, a document the crawl read before a change and enqueued
\* after the subscriber had indexed that change, and files deleted while nobody
\* watched.
IndexIsFiles ==
    Quiet => \A p \in Paths \ (failed \cup raced) :
        \/ disk[p] # 0 /\ index[p] = disk[p] /\ ann[p] = disk[p]
        \/ disk[p] = 0 /\ (index[p] = None \/ p \in orphans)

\* Text index and vectors stay in lockstep (engine.rs): they hold the same
\* version of every document, after every batch, removal and restart.  Only a
\* failed batch, or a crash between the commit and the end of the snapshot,
\* parts them.
Lockstep ==
    \A p \in Paths \ (failed \cup torn) : ann[p] = Vector(pend[p])

\* Once the files stop changing everything enqueued is indexed and committed:
\* with IndexIsFiles, every version that stays on disk becomes searchable.
Settles == up ~> (Drained \/ ~up)
=============================================================================
