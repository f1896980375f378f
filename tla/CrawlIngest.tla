----------------------------- MODULE CrawlIngest -----------------------------
(***************************************************************************)
(* Crawl runs and what they leave behind: the row of crawl_runs from       *)
(* dispatch to its final status and the processes that execute it, the     *)
(* checkpoint of a source page, the two sessions that persist a document   *)
(* and derive its graph and its event, reclaiming of runs whose worker     *)
(* died, and the operator's passes that repeat the second session          *)
(* (pipeline/run_once.py, crawl_recovery.py, reprocess_document.py,        *)
(* tools/crawl_worker.py, core/repository.py).                             *)
(*                                                                         *)
(* One source page, whose documents are numbered in the order they appear  *)
(* on it; each has one version.  A session is atomic where it commits; the *)
(* reads that it decides on are steps of their own.  Counters, audits and  *)
(* the digest are left out; indexing is RagIndexing, mail is               *)
(* NotificationDelivery.                                                   *)
(***************************************************************************)
EXTENDS FiniteSets, Integers, FiniteSetsExt

CONSTANTS
    Run,          \* rows of crawl_runs
    Pass,         \* operator passes: retry-document and reprocess_document
    MaxDocs,      \* bound: documents that appear on the page
    PageLimit,    \* SOURCE_PAGE_LIMIT
    Material,     \* documents whose change is material and allows an event
    MaxFaults     \* bound: failures, crashes, forced reclaims, repeated dispatches

ASSUME CrawlIngestAssumption ==
    /\ MaxDocs \in Nat /\ PageLimit \in Nat \ {0} /\ MaxFaults \in Nat
    /\ Material \subseteq 1..MaxDocs

VARIABLES
    row,         \* status of each row; "none" before it is inserted
    old,         \* running rows whose started_at is beyond the stale window
    worker,      \* worker[<<r, h>>]: the process that executes r
    queue,       \* jobs of the crawl-worker workflow that wait for their group
    listed,      \* documents on the page so far; the newest is the first
    checkpoint,  \* number of the checkpointed document, 0 without one
    stored,      \* documents with their version (Session A)
    graph,       \* status of regulatory_graph_extractions as others see it
    events,      \* events[d]: rows of events for d
    pass,        \* pass[p]: an operator's pass
    claims,      \* history: how often r became running
    robbed,      \* history: runs reclaimed while their worker was alive
    twice,       \* history: runs a job claimed that an inline process had and has not marked
    missed,      \* history: documents a crawl had to leave out
    met,         \* history: documents two passes worked on to create an event
    reseen,      \* history: documents that were crawled again without an event
    faults

Doc == 1..MaxDocs

\* A run is executed by a job of the workflow, or by the process that inserted it.
How == {"job", "inline"}
Process == Run \X How
Job(r) == <<r, "job">>
Inline(r) == <<r, "inline">>

crawlRows == <<row, old, queue, claims, robbed, twice>>
documents == <<stored, graph, events>>
notes == <<missed, met, reseen>>
vars == <<crawlRows, worker, listed, checkpoint, documents, pass, notes, faults>>

Ended == {"success", "partial", "failed"}
Gone == [pc |-> "gone", since |-> 0, found |-> {}, todo |-> {}, doc |-> 0,
         create |-> FALSE, skip |-> FALSE, ok |-> TRUE]
Alive(k) == worker[k].pc # "gone"
Attended(r) == Alive(Job(r)) \/ Alive(Inline(r))

Init ==
    /\ row = [r \in Run |-> "none"]
    /\ old = {}
    /\ worker = [k \in Process |-> Gone]
    /\ queue = {}
    /\ listed = 0
    /\ checkpoint = 0
    /\ stored = {}
    /\ graph = [d \in Doc |-> "none"]
    /\ events = [d \in Doc |-> 0]
    /\ pass = [p \in Pass |-> Gone]
    /\ claims = [r \in Run |-> 0]
    /\ robbed = {} /\ twice = {}
    /\ missed = {} /\ met = {} /\ reseen = {}
    /\ faults = 0

Fault == faults < MaxFaults /\ faults' = faults + 1

\* A document appears on the page.
Publish ==
    /\ listed < MaxDocs
    /\ listed' = listed + 1
    /\ UNCHANGED <<crawlRows, worker, checkpoint, documents, pass, notes, faults>>

-----------------------------------------------------------------------------
(* The life of a row.                                                      *)

\* crawl_source and crawl_source_page: the row is queued and the workflow is
\* dispatched.  Of the jobs that wait for their group GitHub keeps the last one.
Trigger(r) ==
    /\ row[r] = "none"
    /\ row' = [row EXCEPT ![r] = "queued"]
    /\ \/ queue' = {r} /\ UNCHANGED faults
       \/ Fault /\ UNCHANGED queue
    /\ UNCHANGED <<old, claims, robbed, twice, worker, listed, checkpoint, documents, pass, notes>>

\* The workflow is dispatched by hand, for a run that is there already.
Redispatch(r) ==
    /\ row[r] # "none"
    /\ Fault
    /\ queue' = {r}
    /\ UNCHANGED <<row, old, claims, robbed, twice, worker, listed, checkpoint, documents, pass,
                   notes>>

\* Variant: the claim does not ask for the row's status.
ClaimAny(r) ==
    /\ row' = [row EXCEPT ![r] = "running"]
    /\ old' = old \ {r}
    /\ claims' = [claims EXCEPT ![r] = @ + 1]

\* claim_queued_crawl_run
Claim(r) ==
    IF row[r] = "queued"
    THEN /\ row' = [row EXCEPT ![r] = "running"]
         /\ old' = old \ {r}
         /\ claims' = [claims EXCEPT ![r] = @ + 1]
    ELSE UNCHANGED <<row, old, claims>>

Stage(k, w) == worker' = [worker EXCEPT ![k] = w]

\* run_claimed_crawl: one job of the group at a time, which goes away if it
\* cannot claim its run.  The row may be one that a process has inserted and
\* not marked yet.
StartJob(r) ==
    /\ r \in queue
    /\ \A s \in Run : ~Alive(Job(s))
    /\ queue' = queue \ {r}
    /\ Claim(r)
    /\ IF claims'[r] > claims[r]
       THEN /\ Stage(Job(r), [Gone EXCEPT !.pc = "load"])
            /\ twice' = IF Alive(Inline(r)) THEN twice \cup {r} ELSE twice
       ELSE UNCHANGED <<worker, twice>>
    /\ UNCHANGED <<robbed, listed, checkpoint, documents, pass, notes, faults>>

\* run_crawl: a row is inserted and executed by the process that did so
RunInline(r) ==
    /\ row[r] = "none"
    /\ row' = [row EXCEPT ![r] = "queued"]
    /\ Stage(Inline(r), [Gone EXCEPT !.pc = "mark"])
    /\ UNCHANGED <<old, queue, claims, robbed, twice, listed, checkpoint, documents, pass, notes,
                   faults>>

At(k, pc) == worker[k].pc = pc

\* mark_crawl_run_running: whether it claimed the row or not, the process goes on.
Mark(r) ==
    /\ At(Inline(r), "mark")
    /\ Claim(r)
    /\ Stage(Inline(r), [Gone EXCEPT !.pc = "load"])
    /\ UNCHANGED <<queue, robbed, twice, listed, checkpoint, documents, pass, notes, faults>>

\* A row grows old.  The workflow's job is stopped before its row does.
Age(r) ==
    /\ row[r] = "running" /\ r \notin old
    /\ ~Alive(Job(r))
    /\ old' = old \cup {r}
    /\ UNCHANGED <<row, queue, claims, robbed, twice, worker, listed, checkpoint, documents, pass,
                   notes, faults>>

Reclaimed(R) ==
    /\ row' = [r \in Run |-> IF r \in R THEN "failed" ELSE row[r]]
    /\ old' = old \ R
    /\ robbed' = robbed \cup {r \in R : Attended(r)}
    /\ UNCHANGED <<queue, claims, twice, worker, listed, checkpoint, documents, pass, notes>>

\* reclaim_stale_crawl_runs, at every start of the API
Reclaim == old # {} /\ Reclaimed(old) /\ UNCHANGED faults

\* Variant: --force looks for the row only.
ForceReclaimAny(r) == row[r] # "none" /\ Fault /\ Reclaimed({r})

\* repair-run --force
ForceReclaim(r) == row[r] = "running" /\ Fault /\ Reclaimed({r})

-----------------------------------------------------------------------------
(* _run_crawl_stages.                                                      *)

\* load_checkpoint
LoadCheckpoint(k) ==
    /\ At(k, "load")
    /\ Stage(k, [Gone EXCEPT !.pc = "scrape", !.since = checkpoint])
    /\ UNCHANGED <<crawlRows, listed, checkpoint, documents, pass, notes, faults>>

\* What the parsers emit: what is newer than the checkpoint, the newest first,
\* up to the limit of a page.
Fresh(since) == {d \in Doc : d <= listed /\ d > since}
Emitted(since) == {d \in Fresh(since) : d > listed - PageLimit}

\* scrape_source_page and acquire_primary_documents.  One candidate may fail to
\* be downloaded; or the page fails as a whole.
Scrape(k) ==
    LET w == worker[k]
        found == Emitted(w.since)
        left(X) == missed \cup (Fresh(w.since) \ found) \cup X
    IN
    /\ At(k, "scrape")
    /\ \/ /\ Stage(k, [Gone EXCEPT !.pc = "persist", !.found = found, !.todo = found])
          /\ missed' = left({})
          /\ UNCHANGED faults
       \/ \E d \in found :
             /\ Fault
             /\ Stage(k, [Gone EXCEPT !.pc = "persist", !.found = found, !.todo = found \ {d}])
             /\ missed' = left({d})
       \/ /\ Fault
          /\ Stage(k, [Gone EXCEPT !.pc = "persist", !.ok = FALSE])
          /\ UNCHANGED missed
    /\ UNCHANGED <<crawlRows, listed, checkpoint, documents, pass, met, reseen>>

\* Documents on which somebody works with the intent to create their event.
Creating(d) ==
    \/ \E k \in Process : worker[k].create /\ worker[k].doc = d
    \/ \E p \in Pass : pass[p].create /\ pass[p].doc = d

\* create_events of Session A: only for the version it inserts
CreatesEvent(d) == d \notin stored

\* _persist_document_durable, for the next document; a storage failure drops it
SessionA(k) ==
    LET w == worker[k]
        d == Max(w.todo)
    IN
    /\ At(k, "persist") /\ w.todo # {}
    /\ \/ /\ stored' = stored \cup {d}
          /\ Stage(k, [w EXCEPT !.pc = "begin", !.todo = @ \ {d}, !.doc = d,
                                !.create = CreatesEvent(d)])
          /\ met' = IF CreatesEvent(d) /\ Creating(d) THEN met \cup {d} ELSE met
          /\ reseen' = IF ~CreatesEvent(d) /\ events[d] = 0 THEN reseen \cup {d} ELSE reseen
          /\ UNCHANGED <<missed, faults>>
       \/ /\ Fault
          /\ Stage(k, [w EXCEPT !.todo = @ \ {d}])
          /\ missed' = missed \cup {d}
          /\ UNCHANGED <<stored, met, reseen>>
    /\ UNCHANGED <<crawlRows, listed, checkpoint, graph, events, pass>>

\* Session B reads whether the graph of the document is final already.
Begun(w) == [w EXCEPT !.pc = "commit", !.skip = graph[w.doc] = "completed"]
Dropped(w, pc) == [w EXCEPT !.pc = pc, !.doc = 0, !.create = FALSE, !.skip = FALSE]

\* What becomes of the graph, which is left alone where it was final; and the
\* event, where it was asked for and is deserved.
GraphAs(w, status) == IF w.skip THEN graph ELSE [graph EXCEPT ![w.doc] = status]
EventsOf(w) == IF w.create /\ w.doc \in Material THEN [events EXCEPT ![w.doc] = @ + 1] ELSE events

\* Variant: the graph is committed in a session of its own, before the event.
DownstreamApart(w) ==
    \/ graph' = GraphAs(w, "completed") /\ events' = EventsOf(w) /\ UNCHANGED faults
    \/ Fault /\ graph' = GraphAs(w, "completed") /\ UNCHANGED events

\* _process_document_downstream commits: the graph is final, or its failure is
\* on record, or it raised and its savepoint is rolled back; and the event is
\* there.  Or nothing of it is there: something else raised, or the statement
\* that queues a notification failed, and the commit of a transaction that has
\* failed rolls it back.
Downstream(w) ==
    \/ graph' = GraphAs(w, "completed") /\ events' = EventsOf(w) /\ UNCHANGED faults
    \/ Fault /\ graph' \in {GraphAs(w, "failed"), graph} /\ events' = EventsOf(w)
    \/ Fault /\ UNCHANGED <<graph, events>>

BeginDownstream(k) ==
    /\ At(k, "begin")
    /\ Stage(k, Begun(worker[k]))
    /\ UNCHANGED <<crawlRows, listed, checkpoint, documents, pass, notes, faults>>

CommitDownstream(k) ==
    /\ At(k, "commit")
    /\ Downstream(worker[k])
    /\ Stage(k, Dropped(worker[k], "persist"))
    /\ UNCHANGED <<crawlRows, listed, checkpoint, stored, pass, notes>>

\* Variant: the newest document of the page becomes the checkpoint.
NewestListed(w) == listed

\* docs[0], the newest candidate, whether it was accepted and stored or not
NewestFound(w) == Max(w.found)

\* save_checkpoint for a page that was scraped; its failure is swallowed
SaveCheckpoint(k) ==
    LET w == worker[k] IN
    /\ At(k, "persist") /\ w.todo = {}
    /\ Stage(k, [Gone EXCEPT !.pc = "finalize", !.ok = w.ok])
    /\ \/ /\ checkpoint' = IF w.ok /\ w.found # {} THEN NewestFound(w) ELSE checkpoint
          /\ UNCHANGED faults
       \/ Fault /\ UNCHANGED checkpoint
    /\ UNCHANGED <<crawlRows, listed, documents, pass, notes>>

\* finalize_crawl_run updates the row whatever its status.
Finalized(k, status, w) ==
    /\ row' = [row EXCEPT ![k[1]] = status]
    /\ old' = old \ {k[1]}
    /\ Stage(k, w)
    /\ UNCHANGED <<queue, claims, robbed, twice, listed, checkpoint, documents, pass, notes>>

\* It may raise although it committed: then the process takes its run for failed.
Finalize(k) ==
    LET w == worker[k]
        status == IF w.ok THEN "success" ELSE "partial"
    IN
    /\ At(k, "finalize")
    /\ \/ Finalized(k, status, Gone) /\ UNCHANGED faults
       \/ Fault /\ Finalized(k, status, [Gone EXCEPT !.pc = "unsure"])

\* _finalize_abandoned_run: a stage raised, or the coroutine was cancelled
Abandon(k) ==
    /\ \/ worker[k].pc \in {"load", "scrape", "persist", "finalize"} /\ Fault
       \/ At(k, "unsure") /\ UNCHANGED faults
    /\ Finalized(k, "failed", Gone)

\* The process dies, or its last update fails and is swallowed.
Crash(k) ==
    /\ Alive(k)
    /\ Fault
    /\ Stage(k, Gone)
    /\ UNCHANGED <<crawlRows, listed, checkpoint, documents, pass, notes>>

-----------------------------------------------------------------------------
\* retry_incomplete_document_downstream and reprocess_document: the events of
\* the document are counted in a session of their own.
BeginPass(p) ==
    /\ pass[p].pc = "gone"
    /\ \E d \in stored :
          /\ pass' = [pass EXCEPT ![p] = [Gone EXCEPT !.pc = "begin", !.doc = d,
                                                      !.create = events[d] = 0]]
          /\ met' = IF events[d] = 0 /\ Creating(d) THEN met \cup {d} ELSE met
    /\ UNCHANGED <<crawlRows, worker, listed, checkpoint, documents, missed, reseen, faults>>

ReadPass(p) ==
    /\ pass[p].pc = "begin"
    /\ pass' = [pass EXCEPT ![p] = Begun(@)]
    /\ UNCHANGED <<crawlRows, worker, listed, checkpoint, documents, notes, faults>>

CommitPass(p) ==
    /\ pass[p].pc = "commit"
    /\ Downstream(pass[p])
    /\ pass' = [pass EXCEPT ![p] = Gone]
    /\ UNCHANGED <<crawlRows, worker, listed, checkpoint, stored, notes>>

\* What a process does by itself.
Work(k) ==
    \/ LoadCheckpoint(k) \/ Scrape(k) \/ SessionA(k) \/ BeginDownstream(k)
    \/ CommitDownstream(k) \/ SaveCheckpoint(k) \/ Finalize(k) \/ Abandon(k)
    \/ Crash(k)

Next ==
    \/ Publish \/ Reclaim
    \/ \E r \in Run :
          \/ Trigger(r) \/ Redispatch(r) \/ StartJob(r) \/ RunInline(r) \/ Mark(r)
          \/ Age(r) \/ ForceReclaim(r)
    \/ \E k \in Process : Work(k)
    \/ \E p \in Pass : BeginPass(p) \/ ReadPass(p) \/ CommitPass(p)

Spec == Init /\ [][Next]_vars
-----------------------------------------------------------------------------
\* A row that waits for a claim has no process that crawls for it, a row that
\* runs was claimed once, and only running rows are old enough to be reclaimed:
\* however often a run is dispatched, it is executed once.  Only where a job
\* claimed the row that an inline process had inserted do both execute it.
RunExecutedOnce ==
    /\ \A r \in Run :
          /\ row[r] \in {"none", "queued", "running"} \cup Ended
          /\ claims[r] <= 1
          /\ row[r] = "queued" => ~Alive(Job(r)) /\ worker[Inline(r)].pc \in {"gone", "mark"}
          /\ Alive(Job(r)) /\ Alive(Inline(r)) => r \in twice
    /\ old \subseteq {r \in Run : row[r] = "running"}

\* The checkpoint never passes a document over that is neither stored nor one
\* that a crawl had to leave out: because it failed to get or to store it, or
\* because more documents had appeared than a page yields.  Two crawls of the
\* page that finish in either order do not lose one either.
NothingPassedOver ==
    \A d \in Doc : d <= checkpoint => d \in stored \cup missed

\* A document has more than one event only if two passes that meant to create
\* it overlapped; a repeated crawl, a retry or a reprocessing one after the
\* other, and a crash between the two sessions, never lead to a second one.
OneEventEach == \A d \in Doc : events[d] > 1 => d \in met

\* A document whose graph is final, so that no listing of incomplete documents
\* finds it, has its event: unless it was stored by a crawl that died before the
\* second session and crawled again, which does not create one.
FinishedHasEvent ==
    \A d \in Material :
        graph[d] = "completed" => events[d] > 0 \/ d \in reseen

\* Events and graph states agree with what was stored.
EventsMatchDocuments == OneEventEach /\ FinishedHasEvent

\* A row that has ended changes only when a reclaim took it from a worker that
\* is alive: what that worker reports replaces the failure.  Or its process did
\* not learn that the row was written, and makes a failure of it; or there are
\* two processes.
EndsAgain(r) ==
    \/ row[r] = "failed" /\ r \in robbed
    \/ row'[r] = "failed" /\ \E h \in How : At(<<r, h>>, "unsure")
    \/ r \in twice

EndedIsFinal ==
    [][\A r \in Run : row[r] \in Ended /\ row'[r] # row[r] => EndsAgain(r)]_vars

\* The checkpoint audit: "Advance the checkpoint only after the page-level
\* pipeline and persistence succeed".  A crawl that moves the checkpoint has
\* stored every document that it found on the page.
StoredBeforeCheckpoint ==
    [][\A k \in Process :
          worker[k].pc = "persist" /\ worker'[k].pc = "finalize" /\ checkpoint' # checkpoint
              => worker[k].found \subseteq stored]_vars
==============================================================================
