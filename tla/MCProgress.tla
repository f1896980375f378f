----------------------------- MODULE MCProgress -----------------------------
(***************************************************************************)
(* What must eventually happen, in four components that share no state     *)
(* here: the execution of a run, the stream of a run's events to a client, *)
(* the queue of indexing jobs and the notifications.  A behaviour is one   *)
(* of the component named by `which'; the others stay where they begin, so *)
(* every behaviour of each is here and none is multiplied by another's.    *)
(* The safety of the stream and of the notifications is checked along.     *)
(***************************************************************************)
EXTENDS RunEventStream, FiniteSets

CONSTANTS Executor, MaxSteps, MaxStarts, MaxCrashes,
          Indexer, Crawl, MaxVersion, MaxCrawls, MaxIndexFaults,
          Mailer, Note, MaxAttempts, BatchLimit, MaxMailFaults

VARIABLES
    which,
    execRun, execEvents, wk, starts, crashes,
    latest, blank, crawl, job, doc, chunks, embedded, indexer, shared, crawls, indexFaults,
    log, attempts, reachable, mailer, mails, met, blurred, unmarked, mailFaults

execution == <<execRun, execEvents, wk, starts, crashes>>
queue == <<latest, blank, crawl, job, doc, chunks, embedded, indexer, shared, crawls,
           indexFaults>>
mail == <<log, attempts, reachable, mailer, mails, met, blurred, unmarked, mailFaults>>

\* The clocks of the workers agree: what skew changes is safety, not progress.
Execution == INSTANCE RunExecution WITH
    run <- execRun, events <- execEvents, Worker <- Executor,
    Skew <- [w \in Executor |-> 0]
Queue == INSTANCE RagIndexing WITH
    Worker <- Indexer, MaxFaults <- MaxIndexFaults, worker <- indexer, faults <- indexFaults
Mail == INSTANCE NotificationDelivery WITH
    Worker <- Mailer, MaxFaults <- MaxMailFaults, worker <- mailer, faults <- mailFaults

ProgressInit ==
    /\ which \in {"execution", "stream", "queue", "mail"}
    /\ Execution!Init /\ Init /\ Queue!Init /\ Mail!Init
    /\ which # "mail" => reachable = {}

Executes ==
    which = "execution" /\ Execution!Next /\ UNCHANGED <<which, vars, queue, mail>>
Streams == which = "stream" /\ Next /\ UNCHANGED <<which, execution, queue, mail>>
Indexes == which = "queue" /\ Queue!Next /\ UNCHANGED <<which, execution, vars, mail>>
Mails == which = "mail" /\ Mail!Next /\ UNCHANGED <<which, execution, vars, queue>>

\* The fairness of each component, as its module states it.
ProgressFairness ==
    /\ \A w \in Executor : WF_execution(which = "execution" /\ Execution!WorkerStep(w))
    /\ \A r \in Reader : WF_vars(which = "stream" /\ Stream(r))
    /\ \A w \in Indexer : WF_queue(which = "queue" /\ Queue!Work(w))
    /\ \A w \in Indexer : WF_queue(which = "queue" /\ \E j \in Queue!Job : Queue!Claim(w, j))
    /\ \A j \in Queue!Job : WF_queue(which = "queue" /\ Queue!Age(j))
    /\ \A w \in Mailer : WF_mail(which = "mail" /\ Mail!Deliver(w))
    /\ \A w \in Mailer : WF_mail(which = "mail" /\ Mail!Claim(w))

ProgressSpec ==
    /\ ProgressInit
    /\ [][Executes \/ Streams \/ Indexes \/ Mails]_<<which, execution, vars, queue, mail>>
    /\ ProgressFairness
-----------------------------------------------------------------------------
\* Every call of execute returns.
ExecuteReturns == Execution!ExecuteReturns

\* Every indexing job that waits or was abandoned comes to an outcome.
NoJobStuck == Queue!NoJobStuck

\* A mail goes out twice only after an overlap or a lost record, and more than
\* the allowed attempts need an overlap or an attempt without a mark.
MailIsBounded == Mail!MailIsBounded

\* A row that was sent stays so, with the same exceptions.
SentIsFinal == Mail!SentIsFinal

\* What was enqueued is sent, skipped or used up.
EveryNoteSettles == Mail!EveryNoteSettles
=============================================================================
