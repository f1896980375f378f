# A verification project for RegulatoryAi

TLA+ models of the parts of this repository whose correctness depends on the order
in which things happen. TLC checks the models on small instances; TLAPS proves what
matters most of run execution, event streams, capability retry, answer versions and
paging, the turns a browser shows, crawling, indexing, the family registry, notifications,
sessions, migrations and their backfill for every value of the constants. `PROJECT.json` lists
components, runs, mutants, the source lines of every definition, findings, hazards and
theorems.

Paths below are relative to `src/apps/api/backend/` unless they begin with another
directory of the repository.

## 1. The system

A crawler finds regulatory documents, stores each version, compares it with the one
before, places it in a family, extracts its graph, creates events and enqueues two
kinds of work: indexing for retrieval and notification mails. Users sign in and ask
questions; an orchestration of capabilities (search, evidence, claims, composition)
answers them, persisted step by step in PostgreSQL so that a process can die and
another can go on. Everything that runs concurrently meets in the database; nothing
is shared in memory between processes.

| Component | State | Operations | Correct when |
| --- | --- | --- | --- |
| Durable run repository, `ask/orchestration/durability.py` | `ask_runs` row, `ask_run_events` journal | acquire, renew, release a lease; append a state; request and apply a cancellation; replay | the journal replays to the row; a cancellation is never overtaken |
| Run execution, `execution.py` | a coroutine's snapshot per worker | `execute` | any number of workers amount to one sequential process; it returns |
| Event stream, `streaming.py`, `api/routes/chat_runs.py` | cursor per request, last id per client | prepare, frames, pages | a client gets the journal, each event once, and is told the end when it has all |
| Capability retry, `retry.py` | `ask_capability_retries` | request, claim, execute, finish | one retry per capability, settled once, by its last claimant |
| Orchestration state machine, `state_machine.py` | `OrchestrationState` | initialise, phases, activate, finish, approve the plan, sections, finalise | open work is never lost, nothing is shown unverified, every step can be persisted |
| Capability scheduler, `scheduler.py`, `latency.py` | tasks and semaphores of a phase | execute a ready phase | siblings keep their results, permits come back, every call ends |
| Failure policy, `failure_policy.py` | none | the decision for a failed capability | whatever may be retried has a decision |
| Answer publication, `rag/version_status.py`, `ask/evidence_admission.py`, `candidate_claims.py`, `claim_verification.py` | a bundle, its admission, a claim | decide a status, admit, verify, correct | prose rests on admitted evidence and a sufficient judgment |
| Answer policies, `ask/knowledge_modes.py`, `confidence.py`, `event_reconciliation.py` | none | functions of a request that grows | what was said on less stays right when more arrives |
| Regeneration and Ask persistence, `ask/regeneration.py`, `repositories.py`, `persistence.py` | sessions, turns, versions of answers | plan, persist, list, export | one chain of versions, nobody refused without a reason, pages complete |
| RAG indexing, `rag/indexing.py`, `rag/vector_store.py` | `rag_index_jobs`, `document_rag_status`, chunks, embeddings | enqueue, claim, index, requeue | what is recorded as done can be searched; no job is left behind |
| Notifications, `notifications/` | `notifications_log` | enqueue, claim, send, mark | nobody is forgotten, nobody is told twice without a cause |
| Crawl runs, `pipeline/run_once.py`, `crawl_recovery.py`, `core/repository.py` | `crawl_runs`, checkpoints, documents, events | dispatch, claim, execute, finalise, reclaim, retry | a run is executed once; nothing is passed over; events fit documents |
| Family registry and knowledge graph, `pipeline/` | families, lineage, graph | register, extract, repair | the latest is the newest, lineage descends, the graph is the recorded one |
| Identity, `identity/` | account, sessions, refresh digests | login, exchange, refresh, logout, revoke, passwords | no session outlives its password, none comes back |
| Migration runner, `core/migrations.py` | the ledger of applied files | apply, status, baseline, mark-existing | the ledger says what took effect |
| Legacy backfill, `ask/backfill.py`, migration 0025 | sessions of legacy messages | group, validate | what is declared complete is |
| Web client, `src/apps/web/` | records, pages and fetches of turns | ask, stream, reconcile | handing a question over never drops it |
| Document processing, retrieval, search and decision policies, routes, tools | none, or one transaction | functions of text | per-function rules; not modelled (section 6) |

How they interact. Ask: a request creates the run's row; a worker acquires its lease
and calls a driver (state machine and scheduler) step by step, each step one
`append_state_transition`; the stream reads the journal; the user's cancellation
and the retry service write beside it; the browser reconciles what it showed with what
was saved. Ingest: a crawl commits a document and its version with its family (Session
A), then in a second transaction (Session B) its graph, event and notifications;
separate workers drain both queues.

What is hard: every `await`, and every gap between two `session_scope()` blocks, is a
place where another worker, the user, the clock or a crash acts; leases and stale
windows let two workers be alive at one job; answers of outside calls get lost.
`PROJECT.json` lists each such place as a hazard at its line, with the properties that
cover it or the reason why none does.

## 2. Modules

| Module | Models | Extends / composes |
| --- | --- | --- |
| `OrchestrationProgress` | the state as persistence sees it: `validate_state`, `validate_orchestration_progress`, the derived status | |
| `DurableRun` | row and journal, one action per repository method, and replay as a predicate on journals | `OrchestrationProgress` |
| `RunLifecycle` | the abstract run: one sequential process | `OrchestrationProgress` |
| `RunExecution` | `execute` of any number of workers, one action per await | `DurableRun`; implements `RunLifecycle` |
| `RunEventStream` | server generator and reconnecting clients over a growing journal | `DurableRun` |
| `CapabilityRetry` | clients and executors of the retry service beside a moving run | `DurableRun` |
| `OrchestrationMachine`, `FailurePolicy` | the state machine as pure functions, and what follows from a failure | |
| `CapabilityScheduler` | waves of a phase under a latency budget, and the caller of the phases | `FailurePolicy`; its steps are legal for `OrchestrationProgress` |
| `AnswerPublication`, `AnswerPolicies` | from evidence to prose; knowledge modes, confidence, event reconciliation | |
| `CrawlIngest` | crawl runs, checkpoint, the two sessions, reclaims and operator's passes | |
| `RagIndexing` | crawls, job queue and indexing workers of one document | |
| `NotificationDelivery` | the mail queue and its workers | |
| `FamilyRegistry` | registration and graph extraction of versions | |
| `IdentitySessions` | the sessions of one account, request by request, with row locks | |
| `AnswerLineage` | research sessions, turns, versions of answers, paging and export | |
| `ResearchTurns` | a browser's records, caches and fetches of turns | |
| `SchemaMigrations`, `LegacyBackfill` | the migration tool; the backfill around migration 0025 | |
| `MCRunExecution`, `MCCapabilityRetry` | values of constants, symmetry | |
| `MCProgress` | execution, stream, indexing queue, mail, under fairness | the modules named |
| `MCRequests` | retry, sessions, versions, pages, browser, migrations, backfill | the modules named |
| `MCTransactions` | crawl, indexing queue, registry, identity | the modules named |
| `MCOrchestration` | scheduler with its plans, policies, statuses, answers | the modules named |
| `DurableRunProofs`, `RunExecutionProofs`, `IdentitySessionsProofs`, `AnswerLineageProofs` | theorems (section 4) | the module each is about, `TLAPS` |
| `RequestsProofs` | theorems about retries, turns, migrations and the backfill, and about the composite | `MCRequests` |
| `TransactionsProofs` | theorems about crawls, the registry and the indexing queue, and about the composite | `MCTransactions` |
| `OrchestrationProofs` | theorems about machine and scheduler, publication and policies, and about the composite | `MCOrchestration` |
| `ProgressProofs` | theorems about streams and notifications, and about the composite | `MCProgress` |

The four composites put components side by side that share no state. A variable `which`
names the one that moves; the others stay in their initial state. Every behaviour of
each part is a behaviour of the composite and none is multiplied by another's, so a
property of a part is checked as it would be alone. Symmetry over model values that two
parts share is sound since nothing compares them across parts. Parts with a proof module of
their own are instantiated with it (`Identity == INSTANCE IdentitySessionsProofs ...`), so that the
theorems about a part can be cited for the composite.

### Run execution

`run` is the row, `events` the journal. Repository methods lock the row with `SELECT
... FOR UPDATE`, so each is one action whose guard is its checks in their order
(identifier unused, version, lease, status) and whose effect is event plus row. A
refused call writes nothing; the callers' refusal branches are spelt out in
`RunExecution`. Times are never stored: `run.left` is what remains of the lease on
a reference clock and `Skew[w]` is how far a worker's clock is ahead, so every
comparison with `now` is faithful and no clock grows.

`wk[w]` is what the coroutine of a worker holds; its `pc` names the await at which it
stands, and between two awaits anything else may happen. The driver is any state,
an exception or a timeout. States are reduced to phase, node and section progress and
the terminal state, which is all that persistence looks at. `LoopHead` leaves out the
branch for a terminal state in a run whose status is not terminal:
`StateMatchesStatus`, checked and proved, shows that no such row exists. The new
identifier of a call is its position in the journal, since a `uuid4` is never
repeated; repeated identifiers are met in `RunEventStream` and `CapabilityRetry` only.

### Event stream and capability retry

`prepare`, the page loop of `frames` and `load_event_page` are actions; a client keeps
the last identifier it saw and reconnects as EventSource does. Heartbeats carry no
state and are left out. `claim` and `finish` of a retry are two actions each because
they lock the retry's row and then read the run without a lock; the user and the run's
worker act in between. `dead` stands for a lease that was seen expired when the clock
was read.

### Orchestration

`OrchestrationMachine` has for each operation an operator that says when it does not
raise and one for the state it returns. `CapabilityScheduler` keeps one coroutine per
invocation of a wave (`begin`, `permit`, `slot`, `running`, `done`), cancels it at
whatever await it stands when time runs out, and leaves the thread of a blocking
executor running. A run begins with the nodes of the bootstrap and the part the entity
resolver has in it (`entity_participation`). `approve_work_plan` also takes a plan that
drops a node of the bootstrap (`keeps`). `StepsPersist` is the bridge to run execution:
whatever the caller does with machine and scheduler, persistence accepts each state as successor of the one before exactly if the step is not the approval of a plan
that drops a bootstrap node. So a driver built from them is one of the drivers of
`RunExecution`, except where such a plan is approved, and there the run cannot go on.

### Answers

`AnswerPublication` follows one bundle of evidence from the versions of its family
through admission to a claim and its verification, while the family, the day and the
units move underneath. `AnswerPolicies` holds the three policies whose inputs grow while
an answer is shown. Scores, dates and wordings are reduced to what a rule compares.

### Crawling

One source page whose documents appear one after the other. A run is executed by the job
of the workflow that claims its row, or by the process that inserted it (`run_crawl`), which
marks the row later and goes on whether the mark changed it or not; so a worker is a process,
a pair of a run and how it is executed. A process whose final update raised does not know
whether it was committed (`unsure`) and writes a failure over it. A worker's record holds the
candidates it found, those still to do, and the document it stands at between Session A
and Session B; `create` and `skip` are what it read before the second session.
`robbed`, `twice`, `missed`, `met` and `reseen` are history variables: runs reclaimed under a
live worker, runs a job claimed whose inline process was alive and had not marked them,
documents a crawl left out, documents two passes meant to create an event for, documents crawled again before their event was there.

### RAG indexing and notifications

A crawl is three steps (the read of the latest version, Session A, Session B) because
the latest version is read before the document's row is locked: two first crawls of one
document make a job without a version (job 0), which indexes whatever is the latest
when it runs. A worker is a program counter through the transactions of
`index_document`; chunks are named by the worker that inserted them, so that the foreign
key of the embeddings is what `Embed` checks. `STALE` is `PROCESSING` with an
`updated_at` older than the stale window. A batch of notifications is claimed in one
transaction, then each note is addressed, sent and marked in transactions of their own.
History variables say where two workers had a row together and where a record was lost.

### Registry, identity, Ask persistence, browser

In `FamilyRegistry` a transaction looks, writes, and commits or is lost; two lookups
before either insert are what makes duplicates and wrong latest versions possible. The marks
of an extraction (PENDING, PROCESSING, the last one) stand in savepoints of their own whose
failure is only logged: `marked` says that one of the first two held, `unmarked` remembers
documents whose graph was stored without any. In
`IdentitySessions` and `AnswerLineage` a request takes its steps at the rows it locks,
including the rows that foreign keys lock, so deadlocks are states of the model.
`ResearchTurns` names turns by their idempotency key; the query library is external: a fetch
keeps its own result until it settles. The server lists turns by `created_at`, the time at
which their transaction began, and then by id (`repositories.py:938-940`), so a turn is saved
at any place behind those that were there when it was sent, also in front of turns that have
been read (`Places`).

### Migrations

In `SchemaMigrations` a checkout is a set of files, a file its version and checksum, and its
SQL is that it is in `effects`; operators work from checkouts that need not agree. `LegacyBackfill` has one
owner whose messages are inserted by the chat route, by Ask turns and by copies while
the backfill groups them and migration 0025 validates the result.

## 3. Runs

| Run | Question | Result |
| --- | --- | --- |
| `RunExecution` | do lease, version and cancellation checks keep the run sequential and its journal replayable, with clocks that disagree, a crash and a takeover? | holds; the run implements `RunLifecycle` |
| `Progress` | does every `execute` return, every client learn the end, every job and notification come to an outcome? Is the stream the journal, and is mail sent twice only with a cause? | holds |
| `Requests` | what may requests of users race for: one retry, one chain of versions, complete pages, questions that stay on the screen; an honest ledger and backfill | holds |
| `Transactions` | what do processes that write to the database leave behind: crawls, indexing, families and graph, sessions | holds |
| `Orchestration` | do machine and scheduler drain every plan, show nothing unverified, produce only states that persistence accepts, and end? Are published answers grounded and stable? | holds |
| `RunRecovery` | does a worker always finish interrupted capabilities before its first driver step (decision D-036)? | **violated** |
| `RetryDrift` | does a drift of the run always fail before the result is persisted? | **violated** |
| `RagReadiness` | does `RAG_READY` mean that the version is indexed? | **violated** |
| `NotificationOnce` | is a user never notified twice? | **violated** |
| `CrawlCheckpoint` | is everything found on a page stored before its checkpoint advances? | **violated** |
| `MessagesStay` | do messages never disappear from the browser? | **violated** |
| `ChatWrites` | is what the chat route writes saved once migration 0025 is in place? | **violated** |

The violated runs are disagreements between the code and a sentence of its
documentation; `PROJECT.json` quotes the sentence and says what holds instead. Most have
a passing counterpart that states the weaker property that is true:
`OwnerRecoversFirst`, `ResultsAreFenced` (a drift that was there before the answer is
refused), `IndexIsTruthful`, `MailIsBounded`, `NothingPassedOver`, `HandoverKeepsTurns`,
`MigrationsAreHonest`.

Each property has a mutant: a variant of one operation, defined next to it, that a
plausible slip would have produced, and under which TLC finds the property violated.

### Bounds

- Two workers (clients, executors, requests) everywhere: every hazard listed is a race of
  two actors, plus a third that is the user, the clock or a crawl. The proofs lift
  the bound for all of them.
- `RunExecution`: one node, one section, one phase; two calls of `execute`, two
  accepted steps, one crash, one tick of lease and one of clock skew. Two steps are
  needed to pass through the renewal, one skewed tick to see a lease expired that
  the other clock holds valid. `RunRecovery` has two nodes and three calls.
- `Progress` (131k states): a journal of three events read in pages of two, so that it
  ends in a short and in a full page, and one lost connection; no crash of a worker, whose
  restart nothing guarantees; one version, two crawls and one fault of the index; two
  notes in batches of two with two attempts, one fault. No symmetry, which liveness forbids.
- `Requests` (669k states): two keys, clients and executors, one fault and three events of
  the run, of which two make a capability eligible for its retry and the third moves the run
  under the plan; two chats of four messages with two changes; a question of this browser and
  a foreign one, page sizes 1 and 2, one extra; two commands and two migrations by hand
  from four checkouts; two messages and two runs of the backfill. The three parts of
  `AnswerLineage` are looked at one at a time: sessions that change, versions in
  sessions that stay, and pages over turns without new versions.
- `Transactions` (1.4M states): two crawls of one page with two documents, of which a page
  yields one, so that a document can fall beyond the limit, the second of them material, and
  one operator's pass, over the document that appeared last (`PassesAtLast`); two
  versions in the index; a code, its amendment and an annexure that reads as either, in four
  operations on the registry; two tokens issued by logins and refreshes, while passwords
  change up to version 3, so that the one that was set up is changed, also beside a second
  session; one fault or mishap in each part. The fault of the registry is one extraction in
  which statements fail, every mark among them: a graph that is stored over the record of an
  earlier version is reached, as are a run that a job and an inline process both execute and
  a finalise without an answer.
- `Orchestration` (158k states): five accepted plans, of which one drops the entity resolver,
  and a cyclic one, one fault. The plans of news and of a grounded answer are approved where
  nothing failed yet; under the second, faults happen before the soft cutoff, under the first none
  do, and its answer is drafted once the news are settled: elsewhere they differ from the
  fallback plan only in ways that the plans left unconstrained show. Of a family the first
  version is in force when an answer is published over it, one thing at most is wrong with
  its bundle when it is admitted, and composition and verification are looked at in full
  where no status was asked for. `MCOrchestration` names each of these constraints.
- Faults (exceptions of storage, lost answers, crashes) are bounded in the guards by
  `MaxFaults`, `MaxCrashes`, `MaxDrops`, `MaxLapses` or `MaxMishaps`, calls by
  `MaxStarts`, `MaxRequests`, `MaxCalls`, `MaxCrawls` and `MaxCommands`.

Runs and requests end, hence `CHECK_DEADLOCK FALSE` except for notifications, where an
event may always be enqueued again.

### Fairness

- A worker's coroutine that can proceed does (`WF_vars(WorkerStep(w))`): asyncio runs
  it, and a driver step is bounded by `asyncio.timeout`. Starting, crashing,
  cancelling and the clock have no fairness.
- The stream's generator goes on and a client whose connection broke reconnects, as
  EventSource does; connections break finitely often.
- Indexing and notification workers go on while they run, and are started again and
  again: `.github/workflows/rag-index.yml` and `notification-worker.yml` are cron jobs.
  Time passes, so a claimed job ages. Crawls, crashes, faults and
  `requeue_processing_jobs` have none. Crawls are finitely many: since pending jobs
  are claimed first, a crawl that kept enqueueing could keep a stale job waiting.
- The event loop schedules the coroutines of a phase (`WF_vars(Waves)`) and the
  budget's clock goes on (`WF_vars(Tick)`). Executors need not answer.

Deliberately not claimed: that a requested cancellation is eventually applied (that
needs a worker that is started again before its lease expires); that a retry settles
(nothing calls `execute` again); that indexing eventually succeeds (failed jobs are
claimed again at once and without limit, and two workers at one version can fail each
other for ever); that a crawl run ends (its worker may die and its reclaim waits for the
next start of the API).

## 4. Proofs

For any sets of workers, clients, executors, runs, nodes and sections, any lengths of
lease, page and journal, any clock skew and any bounds, from the named assumptions on
constants alone. The assumptions say that bounds are natural numbers, that page sizes,
limits and leases are positive, and that the marks for "nobody" and "nothing" are not
members of the sets they are told apart from. Some are definitions that the theorems state as
their hypothesis: `IndexSetting` (`NoWorker` is no worker and the bounds are natural),
`Setting` of the sessions (`None` is no request), `MailSetting` (`MaxAttempts` is
positive), `ShownSetting` (pages have at least one turn), `SchemaSetting` ("none" is no
operator and versions are integers) and `PublishingSetting` (the bounds on days and versions
are natural and there is a unit of evidence); the theorems about pages have
`PageSize \in Nat`. Those about the registry, the backfill and the policies assume nothing.
The other modules name them in an `ASSUME` that TLC evaluates; of a work plan the
scheduler's theorems assume there only that it names the nodes it adds, apart from the two it
finds, and one capability for each (`PlanAssumption`); which of the two it keeps is open.

| Module | Theorem | States |
| --- | --- | --- |
| `RunExecutionProofs` | `TypeCorrect` | `Spec => []TypeOK` |
| | `InvariantHolds` | `Spec => []Inv`, the inductive invariant |
| | `CancellationWins` | no state transition follows a cancellation request in the journal |
| | `StatusTruthful` | a finished state has a final status, a final status holds no lease |
| | `ReplayFaithful` | the journal replays, to exactly the state of the row |
| | `RunIsSequential` | `Spec => ImplementsLifecycle`, the refinement of `RunLifecycle` |
| | `CustodyHolds` | `Spec => [](Inv /\ CustodyInv)` |
| | `RecoveryComesFirst` | a worker that still holds the lease has recovered what was active before it drives |
| | `CancelledMeansApplied` | who reports CANCELLED finds the request applied at the end of the journal |
| | `OwnerAppliesRequest` | the holder of the lease does not walk away from a pending request (action property) |
| `ProgressProofs` | `StreamIsAlwaysFaithful` | a client holds a prefix of the journal, and all of it when told that it is complete |
| `RequestsProofs` | `RetryInvHolds` | `Spec => []RetryInv` |
| | `RetriedOnce` | at most one retry of a capability, every record well formed |
| | `ResultsStayFenced` | settled stays settled, only the last claimant records, no success after a drift it could see (action properties) |
| | `RepeatsAreAnswered` | a repeated request gets its record again while the run has not moved (action property) |
| `TransactionsProofs` | `CrawlInvHolds` | `Spec => []CrawlInv` |
| | `ExecutedOnce` | a run becomes running once, and is executed twice only where a job claims the row of an inline run |
| | `NoneIsPassedOver` | nothing below the checkpoint is unaccounted for |
| | `EventsFitDocuments` | second and missing events have one of the causes the property names |
| | `EndsForGood` | an ended row changes only after a reclaim under a live worker, under a second process, or when the answer of its final update was lost (action property) |
| | `RegistryStaysCoherent` | the latest of a family is its newest, lineage descends, the graph is the recorded one unless all marks of an extraction failed (of `TransactionsSpec`) |
| | `IndexInvHolds` | `Queue!Spec => []IndexInv` |
| | `QueueIsTruthful` | what is recorded as COMPLETED can be searched unless two live workers met, RAG_READY names a chunked version (of `TransactionsSpec`) |
| | `QueueCompletedStays` | a COMPLETED job leaves this status only where two live workers met at it (action property, of `TransactionsSpec`) |
| `ProgressProofs` | `MailInvHolds` | `Mail!Spec => []MailInv` |
| | `MailStaysBounded` | second mails and further attempts have one of the causes the property names |
| | `SentStays` | a row that was sent stays so, with the same exceptions (action property) |
| `IdentitySessionsProofs` | `SessionInvHolds` | `Spec => []SessionInv` |
| | `SessionsAgree` | no live session of an earlier password, no browser taken for a replay without an overlap or a lost answer |
| | `DeadlocksAreRare` | a deadlock needs a logout or a revocation |
| | `RevokedStaysRevoked` | a revoked session stays so, in its version (action property) |
| `AnswerLineageProofs` | `Answered` | the answers to a question are versions 1 to n, each made from the one before; a conflict has a reason; what is pinned is open |
| | `Paged` | who pages to the end, or exports, has seen every question once, in order |
| `RequestsProofs` | `VersionsStayLinear`, `PagesStayComplete` | the same of `RequestsSpec` |
| | `HandedOver` | a question in sight stays so from record to page, with the exceptions the property names (action property) |
| | `LedgerStaysTruthful` | the ledger records what took effect, once, and begins a checkout |
| | `BackfillStaysHonest` | who says complete has left nothing behind; what the preflight finds valid, 0025 accepts |
| | `MigrationsStayHonest` | both of `RequestsSpec` |
| `TransactionsProofs` | `SessionsStayConsistent`, `DeadlocksNeedSessionFirst`, `RevokedForGood` | the same of `TransactionsSpec`, with the properties that the run names |
| `ProgressProofs` | `MailsAreBounded`, `SentForGood` | the same of `ProgressSpec` |
| `OrchestrationProofs` | `SchedulerInvHolds` | `Spec => []SchedulerInv` |
| | `MachineStaysSound` | every state is one of the machine, limits hold, no grounded section is shown with an unverified claim |
| | `RetryStaysPlannable` | a node that may be retried has a failure decision for its plan |
| | `SiblingsKeep` | a wave ends each of its nodes, once, with the result it came back with (action property) |
| | `OrderlyRunsAlwaysDrain` | no call leaves behind a queued node of its phase |
| | `StepsAlwaysPersist` | every step ends in a valid state, and `OrchestrationProgress` accepts exactly those that drop no node (action property) |
| | `OrchestrationHolds` | the five of `FairAnswersSpec` |
| | `ProseStaysGrounded` | published prose rests on admitted, unchanged, verified evidence and the legal status of the day |
| | `EarlierDaysStay` | later facts change no decision about an earlier day (action property) |
| | `AnnouncedStays` | sections stay with their ceilings, worse claims make no surer answer, conflicts are not settled (action property) |
| | `AnswersStayStable` | both, as the run states them |

`DurableRunProofs` holds what run execution, streams and retries share: every operation
of the repository is one of four shapes (quiet, a state, a request, an applied
cancellation), the journal only grows, a run that is over stays as it is.

**Run execution.** None of the safety properties is inductive. `CancellationPrecedence`
fails to be because a worker may stand at `append` with a snapshot from before the
request; what saves it is that its version is then old. `Inv` says so: `Fenced` relates
each worker's snapshot to the row *under the condition that the versions are equal*
(then no request is there and the states agree), and `Numbered` says that version, next
sequence and length of the journal are one number, so that an equal version means
that nobody has written. `TerminalLast`, `LastStateStored` and `StatesProgress` are
replay, taken apart into what one appended event can disturb. Every step of every worker
has one of the four shapes, and each conjunct, and each action of `RunLifecycle`,
follows from the shape.

**Custody.** `OwnerRecoversFirst` is about a worker whose version may be old, so `Inv` is
too weak: what it needs is that nobody *else* changes the state while the row names the
worker's lease. Leases are fresh numbers, at most the version, hence never shared
(`LeasesApart`); a step that leaves the row in a worker's hands is its own, a request of
the user, or changes nothing it relies on (`HolderUndisturbed`). That an accepted append
of a recovered state leaves no active capability (`fresh`) is part of it.

**Stream.** A generator stands at the position its client has reached; the page in its
hand is what the journal holds after that position; both stay true because a journal only
grows, and not at all once the run is over, which is what the status that is read with
the page says.

**Retry.** Between the two steps of a transaction the row is locked: `LockSound` says
whose lock it is, and `ExecSound` that what the first step saw is still true of the row.
The run is not locked, but it moves one way: once it is not what the plan was made from,
it never is again (`MovedStays`), so a drift seen once justifies a refusal for ever.

**Crawling.** Three arguments beside each other. A row has been claimed only if it is past
`queued`, so a job that finds its row queued has no other worker but an inline process that
has not marked the row yet; if there is one, both execute the run, which is then on record
(`twice`), and a process that does not know how its run ended is the only other one that
writes to a row that has (`unsure`). What a worker found on a page is an upper bound below
which every document is stored, missed or in the worker's hands; the checkpoint it writes
is one of those it found when nothing is left in its hands, and a page that is loaded later
starts from such a checkpoint. Whoever means to create an event works on a document that has
none, or two are at it and the later one put it on record; so the commit of either creates
the first event, or the second of a document on record. That a page has a newest document
(`NewestExists`) is proved from well-foundedness of the natural numbers.

**Indexing.** `CompletedIsSearchable` speaks of moments at which nobody works, so the
invariant has to say what is true while somebody does. A job without a version may index
whatever is the latest, and so delete the chunks of a version another job has COMPLETED
(`Repaired`): from then on the job without a version is open, and whoever is at it writes the
index again or leaves the version FAILED. What a worker at a step has committed
(`WorkersSound`) says which. That no third case exists rests on `MeetingsKnown`: two workers
at one job are both in `shared`, so outside of it the one worker at a job is the only one to
touch its version. The same fact makes COMPLETED final: an outcome is written by a worker,
and who writes it over another's COMPLETED was there at the same time.

**Notifications.** A mail that went out has its mark, or is in the hands of the one worker
about to set it, unless the mark was lost (`blurred`) or two workers had the row together
(`met`); outside of these, a row has one holder, so a second mail would need a holder who
took a row that was marked, which claiming refuses. Attempts are counted when a row is
claimed. A row that failed is claimed below the limit only, and a pending row that nobody
has was never tried, unless a worker left it without a mark (`unmarked`).

**Sessions.** Everything follows from who may write to a row. `LocksSound` says which locks a
request holds at each point of its operation, hence that a locked row is changed by nobody
else, and the state a password change has read of its own session is still so
(`SeenIsCurrent`). A refresh reads its session *before* it locks it, so its copy of the state
may be old, and `RevokedIsFinal` holds only because a rotation writes the token and no other
column. Tokens and versions are changed by requests of the session's own browser alone:
where those do not overlap (`AloneInBrowser`), what the refresh compares is what the browser
was last given, and no replay is found. Deadlocks: a request that waits for the account
holds nothing yet, and the account has one holder, so a cycle without logout or revocation,
which take a session first, has nowhere to close.

**Answer versions and pages.** A request locks the question, reads the last version of its
answer and inserts the next one. `AnswersInv` says that the lock on a question has one
holder, that what the holder read as the last version still is while it holds the lock, and
that a plan made under its key meanwhile belongs to another question; so the insert is the
next number and its parent the number before. The invariant must also say that an answer
without a run is the only one to its question, since the last version is looked for among
the answers that have a run. Pages: rows are only added, and no row changes its session,
role or time (`RowsKept`), so the cursor keeps dividing the questions that were there at the
start into those that came and those that follow (`PagerSound`). The order of the cursor is
total, so the number of rows before a row is its position without a gap (`RanksAreNumbers`),
and a page is the beginning of what follows, with nothing left out.

**Turns in a browser.** Pages with more behind them are what the server had first, and a
list on the screen has a query. The first is true because a saved question is brought only
to pages that are complete or where it is already, and a next page is read only behind pages
that are not complete; it makes the cursor of a read a position on the server, so that a read
which came to the end has every question saved before its first page was answered, wherever
the server placed those that came later. The second puts every list on the
screen among those that a reconciliation looks at before it gives up the record.

**Registry.** Of the transactions that have written and not committed one at most holds a
document's row. What each has worked out from its own rows, the latest version of the family
and the parent of its version, is right as soon as its row is seen, or the family is known to
be behind (`stale`) because another committed in between (`WorkerHolds`). A commit changes the
graph of its own document alone, and its audit in the same transaction unless all of its marks
failed, and then the document is in `unmarked` (`CommitGraph`). That a family has a
newest version, and a version a highest one below it, is `HighestExists`, the fact crawling
needs of a page.

**Migrations.** Who reads or writes the ledger holds the lock (`OneRunner`), so a plan stays
what the ledger lacks of the checkout, whatever is done by hand meanwhile (`CommandSound`);
the file that is run next is then the first one the checkout has behind the ledger.

**Backfill.** The invariant does not mention the lock, and that is the result: a message waits
until it has its computed identity, and then has it for good, so a read that finds nothing
waiting accounts for all that waited when the run began, whoever else ran (`RunSound`).

**Orchestration.** A call works on a copy of the caller's state. `SchedulerInv` says that both
are sound states of the machine, that they differ in nodes the caller has queued and in
nothing else, and that the wave consists of the active nodes of the copy; so a wave that is
cut off loses nothing the caller had. Results are applied node by node: the recursion is a
function whose existence and last value (`AfterWaveIsSound`) are proved by counting up
(`CountingUp`, from well-foundedness of the natural numbers). Draining rests on two facts: the
phases of a capability are an interval, so a node that is queued and not yet passed is ahead;
and among queued nodes whose dependencies have no cycle one is ready (`NoDeadEnd`). As the
property says, the plan has to be in order: its nodes run after its approval, and none before
what it waits for. Persistence: what it sees of a sound state is valid
(`AbstractIsValid`), and a step of an open run that keeps its nodes and what has ended is
progress. A step that drops a node is never progress, and only the approval of a plan is one.

**Publication.** `PublicationInv` carries along what was admitted, what the verifier was given
and what the composer's text has: only the one step that publishes says why prose may be
there. That a version has one status follows from the last of finitely many dated events
(`StatusExists`, `OneStatus`), that the newest exists from `TopExists`. Decisions about a day
depend on what was known and in force on it (`SameDecision`), which a family that grows by
later versions and relationships alone keeps.

**Policies.** Sections follow case by case. Confidence is a sum of sums of weighted scores,
compared as fractions: a claim that is worse in what it scores and equal in its weight
(`Worse`) gives no higher score, gates, label, mean and least of its section, and so of the
answer (`ScoresCompare`, `ClaimsCompare`, `SectionScoresCompare`, `AnswersCompare`). A sum over
a function is a recursion over the subsets of its domain. That it has a solution
(`FoldExists`) and that sums compare (`SumsCompare`) is induction on the size of a subset
(`SubsetInduction`), which again is `CountingUp`. Events: a larger group says more of each
field, and two different things remain two.

Each inductive invariant was an invariant of a run of TLC as well.

**Composition.** A step of a composite is a step of one part
or leaves its variables alone, so the composite implements the specification of each part,
and what is proved of the part holds of it (`QueueIsRagIndexing`,
`SessionsAreIdentitySessions`, `MailIsNotificationDelivery`, `AnswersAreLineage`,
`TurnsAreResearchTurns`, `RegistersAreFamilyRegistry`, `MigrationsAreSchema`,
`MessagesAreBackfill`, `AnswersAreScheduled`, `AnswersArePublished`, `AnswersHavePolicies`).

Only model-checked: liveness (`ExecuteReturns`, `EveryReaderCompletes`, `NoJobStuck`,
`EveryNoteSettles`, `EveryPhaseEnds`), since the prover does neither fairness nor `ENABLED`.
Every other property of a passing run is a theorem. Induction over data is out of reach as
such, because the theorems for it take an operator as parameter; where a proof needs it, a set
of numbers or of subsets takes the operator's place.

## 5. Plan

1. Execution, streams, retries, crawls, indexing, notifications, sessions, answer versions,
   pages, turns in a browser, and their proofs: done.
2. All other modules, their runs and their proofs: done.
3. To model next: the lanes of `ask/live_intelligence.py`, the plan policy of
   `ask/decision/`, and change detection.

## 6. Not modelled

Text, ranking, prompts, scraping, rendering and the wording of mails: their
correctness is in the data. Read-only routes. One-off tools. Providers and the
database itself are external: a transaction is atomic, `FOR UPDATE` serialises, a
call may fail or lose its answer. Ownership checks (which user may see which run) and
soft deletion are left out of most modules. The plan and entity policies of
`ask/decision/` are tables over the words of a question. Of the backfill, the timestamps
and previews of sessions and the rehearsal are left out; of the browser, the versions of
a turn's content and the garbage collection of its cache; of `WorkspaceContext.tsx`,
the legacy chat.

Observations met while modelling, beside the findings:

- The notifications of an event are queued inside Session B without a savepoint
  (`core/repository.py:2455-2480`): a failure there is caught but loses the whole session.
  `Downstream` has this outcome.
- A version that is registered again may take its own earlier row as parent
  (`pipeline/family_registry.py:437-459`); `LineageDescends` excludes versions that were
  `rewritten`.
- An extraction all of whose marks fail stores its graph and leaves the audit at what an
  earlier version made of it, COMPLETED say (`pipeline/regulatory_knowledge_graph.py:388-414`).
- `approve_work_plan` accepts a plan without a bootstrap node (`state_machine.py:733-824`), which
  persistence then refuses as a successor (`durability.py:1287-1289`): the run can never go on.
- A workflow dispatched by hand for the row of an inline run that is still `queued` claims it,
  and `mark_crawl_run_running` does not tell the process (`run_once.py:112`): both execute it.
  A final update that committed but raised turns `success` into `failed` (`run_once.py:138`).
- Turns are listed by the time their transaction began (`repositories.py:938-940`), so one that
  commits between two pages of a read may fall behind the cursor: the read comes to the end
  without it, and the browser has it no more until the next read.
- Lowering the coverage of a weak claim can raise the confidence of an answer, the General
  AI section of an outage is withdrawn when live sources turn up, and a mark for a near
  duplicate goes away when its partner is confirmed. `AnswersAreStable` excludes the three.
- Verification after a correction raises where a first pass would return a failure
  (`ask/claim_verification.py:318` and `:915`, against
  `docs/ASK_AI/approvals/B009_CLAIM_VERIFIER_POLICY.md:109`), and compares a correction with
  its claim by the bag of material tokens only.
- `failure_policy.py:157-161` gives no decision for a claim support that is partial and
  rejected nothing, against `docs/ASK_AI/02_ARCHITECTURE.md:428-429`.
- `duplicate_context_owned` copies the mark of a legacy message, which the backfill reports
  as drift before migration 0025 and which violates a unique key after it; and a turn of
  the new API in a legacy session makes a later verification report drift.

## 7. Running

    tlc -workers 2 -config RunExecution.cfg MCRunExecution
    tlapm --threads 4 TransactionsProofs.tla

The module of each configuration is named in `PROJECT.json` under `runs`. The longest
run takes about four minutes on two cores, the longest proof about ten.
