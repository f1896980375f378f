---------------------------- MODULE RagIndexing ----------------------------
(***************************************************************************)
(* Indexing of the versions of one document for retrieval                  *)
(* (rag/indexing.py), from the crawls that persist a version and enqueue   *)
(* its job (core/repository.py) to the workers that claim jobs, replace    *)
(* chunks and embed them.                                                  *)
(*                                                                         *)
(* Every session_scope() is one transaction and one action.  A claim       *)
(* commits before the work starts and nothing renews updated_at while a    *)
(* worker works: a PROCESSING job whose updated_at is older than           *)
(* RAG_PROCESSING_STALE_SECONDS is written here as "STALE".                *)
(*                                                                         *)
(* The set of chunks stored for a version is named by the worker that      *)
(* inserted it; embeddings refer to chunk rows, and go with them.          *)
(***************************************************************************)
EXTENDS Naturals, FiniteSets

CONSTANTS
    Worker,       \* processes that run process_pending_rag_jobs
    Crawl,        \* concurrent crawls, backfills or downstream retries
    MaxVersion,   \* bound: versions of the document
    MaxCrawls,    \* bound: sessions that enqueue
    MaxFaults     \* bound: exceptions of storage or provider, and crashes

VARIABLES
    latest,     \* newest row of document_versions; 0 while there is none
    blank,      \* versions whose extracted text is blank
    crawl,      \* crawl[c]: what a crawl holds between its transactions
    job,        \* job[j]: status in rag_index_jobs; job 0 has version_id null
    doc,        \* the row of document_rag_status
    chunks,     \* chunks[v]: who inserted the chunks stored for v
    embedded,   \* versions whose stored chunks have their embeddings
    worker,     \* worker[w]: the job a worker is at, and where
    shared,     \* history: jobs and versions two live workers have shared
    crawls, faults

crawlVars == <<latest, blank, crawl, crawls>>
indexVars == <<chunks, embedded>>
vars == <<crawlVars, job, doc, indexVars, worker, shared, faults>>

-----------------------------------------------------------------------------
Version == 1..MaxVersion
NoVersion == 0
Job == {NoVersion} \cup Version
NoWorker == "none"

JobStatus ==
    {"NONE", "PENDING", "PROCESSING", "STALE", "COMPLETED", "FAILED", "SKIPPED"}
DocStatus ==
    {"NONE", "PENDING", "CHUNKED", "EMBEDDING", "RAG_READY", "FAILED", "SKIPPED"}
Outcome == {"RAG_READY", "FAILED", "SKIPPED"}
Place ==
    {"idle", "load", "replace", "chunked", "embedding", "upsert",
     "status", "job"}

Idle ==
    [at |-> "idle", job |-> NoVersion, version |-> NoVersion,
     outcome |-> "FAILED"]

\* The worker w goes on at `at'.
WorkerAt(w, at) == worker' = [worker EXCEPT ![w].at = at]

Live(w) == worker[w].at # "idle"

Init ==
    /\ latest = NoVersion /\ blank = {}
    /\ crawl = [c \in Crawl |-> [at |-> "idle", version |-> NoVersion]]
    /\ job = [j \in Job |-> "NONE"]
    /\ doc = [version |-> NoVersion, status |-> "NONE"]
    /\ chunks = [v \in Version |-> NoWorker] /\ embedded = {}
    /\ worker = [w \in Worker |-> Idle]
    /\ shared = {} /\ crawls = 0 /\ faults = 0

-----------------------------------------------------------------------------
(* Crawls: Session A persists the document, Session B enqueues it.         *)

\* Session A starts: the latest version is read before the row of the
\* document is locked by the upsert.
ReadLatest(c) ==
    /\ crawl[c].at = "idle"
    /\ crawls < MaxCrawls
    /\ crawl' = [crawl EXCEPT ![c] = [at |-> "persist", version |-> latest]]
    /\ crawls' = crawls + 1
    /\ UNCHANGED <<latest, blank, job, doc, indexVars, worker, shared, faults>>

\* Session A commits: a file not seen before becomes a version; for one that
\* was, the version carried on is the one read as the latest, even none.
PersistNew(c) ==
    /\ crawl[c].at = "persist"
    /\ latest < MaxVersion
    /\ latest' = latest + 1
    /\ \E empty \in BOOLEAN :
          blank' = IF empty THEN blank \cup {latest'} ELSE blank
    /\ crawl' = [crawl EXCEPT ![c] = [at |-> "enqueue", version |-> latest']]
    /\ UNCHANGED <<crawls, job, doc, indexVars, worker, shared, faults>>

PersistSeen(c) ==
    /\ crawl[c].at = "persist"
    /\ latest # NoVersion
    /\ crawl' = [crawl EXCEPT ![c].at = "enqueue"]
    /\ UNCHANGED <<latest, blank, crawls, job, doc, indexVars, worker, shared,
                   faults>>

\* Mutants: the upsert reopens every job; the marker outlives its version.
EnqueuedJobReopened(old) == "PENDING"

\* What the two upserts of enqueue_rag_index_job leave.
EnqueuedJob(old) == IF old = "COMPLETED" THEN old ELSE "PENDING"

EnqueuedDoc(old, v) ==
    [version |-> v,
     status  |-> IF old.status = "RAG_READY" /\ old.version = v
                 THEN "RAG_READY" ELSE "PENDING"]

Enqueue(c) ==
    LET v == crawl[c].version IN
    /\ crawl[c].at = "enqueue"
    /\ job' = [job EXCEPT ![v] = EnqueuedJob(@)]
    /\ doc' = EnqueuedDoc(doc, v)
    /\ crawl' = [crawl EXCEPT ![c] = [at |-> "idle", version |-> NoVersion]]
    /\ UNCHANGED <<latest, blank, crawls, indexVars, worker, shared, faults>>

\* Session B is rolled back: the document stays, its job is not enqueued.
LoseEnqueue(c) ==
    /\ crawl[c].at = "enqueue"
    /\ faults < MaxFaults
    /\ faults' = faults + 1
    /\ crawl' = [crawl EXCEPT ![c] = [at |-> "idle", version |-> NoVersion]]
    /\ UNCHANGED <<latest, blank, crawls, job, doc, indexVars, worker, shared>>

-----------------------------------------------------------------------------
(* Workers.                                                                *)

\* The jobs and versions at which two live workers are after the step.
Meeting ==
    LET At(w) == IF worker'[w].at = "idle" THEN {}
                 ELSE {worker'[w].job, worker'[w].version}
    IN  {j \in Job : \E w, u \in Worker : w # u /\ j \in At(w) \cap At(u)}

\* Variant: an abandoned job is not claimed.
ClaimableWaiting(j) == job[j] \in {"PENDING", "FAILED"}

Claimable(j) == job[j] \in {"PENDING", "STALE", "FAILED"}

\* Pending jobs first, then abandoned ones, then failed ones.
Rank(j) ==
    CASE job[j] = "PENDING" -> 0 [] job[j] = "STALE" -> 1 [] OTHER -> 2

Claim(w, j) ==
    /\ ~Live(w)
    /\ Claimable(j)
    /\ \A i \in Job : Claimable(i) => Rank(j) <= Rank(i)
    /\ job' = [job EXCEPT ![j] = "PROCESSING"]
    /\ worker' = [worker EXCEPT ![w] =
                    [Idle EXCEPT !.at = "load", !.job = j, !.version = j]]
    /\ shared' = shared \cup Meeting
    /\ UNCHANGED <<crawlVars, doc, indexVars, faults>>

\* The text of the job's version, or of the newest for a job without one.
Load(w) ==
    LET j == worker[w].job
        v == IF j = NoVersion THEN latest ELSE j
    IN
    /\ worker[w].at = "load"
    /\ worker' = [worker EXCEPT ![w] =
          IF v \in blank
          THEN [@ EXCEPT !.at = "status", !.outcome = "SKIPPED"]
          ELSE [@ EXCEPT !.at = "replace", !.version = v]]
    /\ shared' = shared \cup Meeting
    /\ UNCHANGED <<crawlVars, job, doc, indexVars, faults>>

\* Variant: the chunks of all versions are deleted.
ReplaceAll(w) ==
    LET v == worker[w].version IN
    /\ worker[w].at = "replace"
    /\ chunks' = [u \in Version |-> IF u = v THEN w ELSE NoWorker]
    /\ embedded' = {}
    /\ WorkerAt(w, "chunked")
    /\ UNCHANGED <<crawlVars, job, doc, shared, faults>>

\* Deleting the chunks of the version deletes their embeddings.
Replace(w) ==
    LET v == worker[w].version IN
    /\ worker[w].at = "replace"
    /\ chunks' = [chunks EXCEPT ![v] = w]
    /\ embedded' = embedded \ {v}
    /\ WorkerAt(w, "chunked")
    /\ UNCHANGED <<crawlVars, job, doc, shared, faults>>

UpdateStatus(w, at, status, next) ==
    /\ worker[w].at = at
    /\ doc' = [version |-> worker[w].version, status |-> status]
    /\ WorkerAt(w, next)
    /\ UNCHANGED <<crawlVars, job, indexVars, shared, faults>>

\* Embeddings refer to chunks: if another worker replaced them meanwhile,
\* the insert raises.
Embed(w) ==
    LET v == worker[w].version IN
    /\ worker[w].at = "upsert"
    /\ IF chunks[v] = w
       THEN /\ embedded' = embedded \cup {v}
            /\ worker' = [worker EXCEPT ![w].at = "status",
                                        ![w].outcome = "RAG_READY"]
       ELSE /\ embedded' = embedded
            /\ worker' = [worker EXCEPT ![w].at = "status",
                                        ![w].version = worker[w].job]
    /\ UNCHANGED <<crawlVars, job, doc, chunks, shared, faults>>

RecordStatus(w) == UpdateStatus(w, "status", worker[w].outcome, "job")

\* _job_status: the status of a job for the outcome of its indexing.
JobStatusOf(outcome) ==
    IF outcome = "RAG_READY" THEN "COMPLETED" ELSE outcome

RecordJob(w) ==
    /\ worker[w].at = "job"
    /\ job' = [job EXCEPT ![worker[w].job] = JobStatusOf(worker[w].outcome)]
    /\ worker' = [worker EXCEPT ![w] = Idle]
    /\ UNCHANGED <<crawlVars, doc, indexVars, shared, faults>>

\* Anything raised before the outcome is recorded is itself recorded.
Raise(w) ==
    /\ Live(w)
    /\ ~(worker[w].at \in {"status", "job"} /\ worker[w].outcome = "FAILED")
    /\ faults < MaxFaults
    /\ faults' = faults + 1
    /\ worker' = [worker EXCEPT ![w] =
          [@ EXCEPT !.at = "status", !.outcome = "FAILED",
                   !.version = worker[w].job]]
    /\ UNCHANGED <<crawlVars, job, doc, indexVars, shared>>

\* A worker is killed, or cannot record a failure.
Crash(w) ==
    /\ Live(w)
    /\ faults < MaxFaults
    /\ faults' = faults + 1
    /\ worker' = [worker EXCEPT ![w] = Idle]
    /\ UNCHANGED <<crawlVars, job, doc, indexVars, shared>>

\* updated_at grows older than the stale window.
Age(j) ==
    /\ job[j] = "PROCESSING"
    /\ job' = [job EXCEPT ![j] = "STALE"]
    /\ UNCHANGED <<crawlVars, doc, indexVars, worker, shared, faults>>

\* requeue_processing_jobs, of as many stale jobs as its limit allows.
Requeue ==
    /\ \E stale \in (SUBSET {j \in Job : job[j] = "STALE"}) \ {{}} :
          job' = [j \in Job |-> IF j \in stale THEN "PENDING" ELSE job[j]]
    /\ UNCHANGED <<crawlVars, doc, indexVars, worker, shared, faults>>

-----------------------------------------------------------------------------
Work(w) ==
    \/ Load(w)
    \/ Replace(w)
    \/ UpdateStatus(w, "chunked", "CHUNKED", "embedding")
    \/ UpdateStatus(w, "embedding", "EMBEDDING", "upsert")
    \/ Embed(w)
    \/ RecordStatus(w)
    \/ RecordJob(w)

Crawling(c) ==
    ReadLatest(c) \/ PersistNew(c) \/ PersistSeen(c) \/ Enqueue(c)
      \/ LoseEnqueue(c)

Next ==
    \/ \E c \in Crawl : Crawling(c)
    \/ \E w \in Worker : Work(w) \/ Raise(w) \/ Crash(w)
    \/ \E w \in Worker, j \in Job : Claim(w, j)
    \/ \E j \in Job : Age(j)
    \/ Requeue

Spec == Init /\ [][Next]_vars

\* A worker that runs goes on; workers are started again and again (the
\* scheduled worker, the admin route, the drain after a crawl); time passes.
\* Nothing is assumed of crawls, crashes or requeue_processing_jobs.
Fairness ==
    /\ \A w \in Worker : WF_vars(Work(w))
    /\ \A w \in Worker : WF_vars(\E j \in Job : Claim(w, j))
    /\ \A j \in Job : WF_vars(Age(j))

FairSpec == Spec /\ Fairness

-----------------------------------------------------------------------------
(* Properties.                                                             *)

\* Shape of the tables and of what the processes hold; a version that was
\* never persisted has no job, no chunks and no worker.
TypeOK ==
    /\ latest \in Job /\ blank \subseteq 1..latest
    /\ crawl \in [Crawl -> [at : {"idle", "persist", "enqueue"}, version : 0..latest]]
    /\ job \in [Job -> JobStatus]
    /\ doc \in [version : 0..latest, status : DocStatus]
    /\ chunks \in [Version -> Worker \cup {NoWorker}]
    /\ embedded \subseteq {v \in 1..latest : chunks[v] # NoWorker}
    /\ worker \in [Worker -> [at : Place, job : Job, version : 0..latest,
                             outcome : Outcome]]
    /\ shared \subseteq Job
    /\ crawls \in 0..MaxCrawls /\ faults \in 0..MaxFaults
    /\ \A v \in Version : v > latest => job[v] = "NONE"

\* Nothing is left that a worker would do.
Quiet ==
    /\ \A w \in Worker : ~Live(w)
    /\ \A j \in Job : job[j] \in {"NONE", "COMPLETED", "SKIPPED"}

\* No two live workers have been at v together, and if some job has no version
\* of its own, and so may be at any, v is the one it is retried for.
Undisturbed(v) ==
    /\ {v, NoVersion} \cap shared = {}
    /\ job[NoVersion] = "NONE" \/ v = latest

\* When everything has been done, a version whose job is COMPLETED can be
\* searched: its chunks have their embeddings, whatever failed or was killed
\* on the way, provided it was undisturbed (_replace_chunks deletes before it
\* inserts, and a COMPLETED job is not retried).
CompletedIsSearchable ==
    Quiet => \A v \in Version :
                job[v] = "COMPLETED" /\ Undisturbed(v) => v \in embedded

\* The same for the status the administrator sees, without the proviso: "Keep
\* RAG_READY only when the same version is already indexed" (indexing.py:58).
ReadyIsSearchable ==
    Quiet /\ doc.status = "RAG_READY" => doc.version \in embedded

\* RAG_READY never names a version nobody has chunked: a new version does not
\* inherit the marker of the one before, and no job is recorded as another's.
ReadyWasChunked ==
    doc.status = "RAG_READY" =>
        doc.version \in {v \in Version : chunks[v] # NoWorker}

\* What the tables say of an index is so.
IndexIsTruthful == TypeOK /\ CompletedIsSearchable /\ ReadyWasChunked

\* A COMPLETED job is undone by nothing but the outcome of a second worker that
\* was at it while the first was: enqueueing it again, claiming and requeueing
\* leave it alone (indexing.py:47, 434, 211).
CompletedIsFinal ==
    [][\A j \in Job :
          job[j] = "COMPLETED" /\ job'[j] # "COMPLETED"
            => job'[j] \in {"FAILED", "SKIPPED"} /\ j \in shared]_vars

\* No job is left behind: whatever workers are killed, a job that waits or is
\* being processed comes to an outcome (the reclaim of stale PROCESSING rows).
NoJobStuck ==
    \A j \in Job :
        job[j] \in {"PENDING", "PROCESSING", "STALE"}
          ~> job[j] \in {"COMPLETED", "FAILED", "SKIPPED"}

=============================================================================
