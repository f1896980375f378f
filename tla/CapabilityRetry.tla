--------------------------- MODULE CapabilityRetry ---------------------------
(***************************************************************************)
(* The bounded retry of a failed capability (ask/orchestration/retry.py).  *)
(* A client's idempotency key names the retry; executors claim it under a  *)
(* lease of its own, run the one capability and record what it answered.   *)
(* The run is read, and never written, by a retry: it moves on meanwhile.  *)
(*                                                                         *)
(* _create locks the run row: one step.  _claim and _finish lock only the  *)
(* row of the retry and read the run's row without a lock, so each is two  *)
(* steps: lock, look at both rows; write, commit.                          *)
(*                                                                         *)
(* A plan is determined by its node and the version of the run it was made *)
(* from.  `now' is read before a transaction that may have to wait for its *)
(* lock: what a worker carries of it is the lease it saw expired, if any.  *)
(***************************************************************************)
EXTENDS DurableRun

CONSTANTS
    Key,          \* idempotency keys of clients
    Client,       \* concurrent requests of clients
    Executor,     \* processes that execute retries
    DependsOn,    \* DependsOn[n]: dependencies of a node
    RetryTTL,     \* lease time-to-live of a retry
    MaxEvents,    \* bound: events in the run's journal
    MaxRequests,  \* bound: requests of clients
    MaxCalls,     \* bound: calls of execute
    MaxFaults     \* bound: crashes and storage failures

ASSUME CapabilityRetryAssumption ==
    /\ DependsOn \in [Node -> SUBSET Node]
    /\ RetryTTL \in Nat \ {0}
    /\ MaxEvents \in Nat /\ MaxRequests \in Nat
    /\ MaxCalls \in Nat /\ MaxFaults \in Nat
    /\ "none" \notin Node /\ "none" \notin Executor   \* null, in a row

VARIABLES
    rows,      \* rows[k]: the row of ask_capability_retries with identity k
    client,    \* client[c]: what a request holds
    exec,      \* exec[w]: what an executor holds
    requests, calls, faults

retryVars == <<rows, client, exec, requests, calls, faults>>
vars == <<run, events, retryVars>>

-----------------------------------------------------------------------------
Status == {"absent", "pending", "running", "succeeded", "failed"}
Settled == {"succeeded", "failed"}
Result == {"none", "success", "failure"}
Code == {"none", "unavailable", "stale", "cancelled"}
NoNode == "none"
NoKey == "none"
NoExecutor == "none"

Row ==
    [status  : Status,
     node    : Node \cup {NoNode},
     version : Nat,                          \* original_execution_version
     lease   : Nat,
     left    : 0..RetryTTL,                  \* ticks until lease_expires_at
     result  : Result,
     code    : Code,                         \* safe_error_code
     lock    : Executor \cup {NoExecutor}]   \* transaction with the row lock

Absent ==
    [status |-> "absent", node |-> NoNode, version |-> 0, lease |-> NoId,
     left |-> 0, result |-> "none", code |-> "none", lock |-> NoExecutor]

\* ask_capability_retries_state_chk, which validate_record repeats
ValidRow(row) ==
    /\ (row.status = "running") = (row.lease # NoId)
    /\ row.status \in {"absent", "pending", "running"} =>
          row.result = "none" /\ row.code = "none"
    /\ row.status = "succeeded" => row.result = "success" /\ row.code = "none"
    /\ row.status = "failed" => row.result = "failure" \/ row.code # "none"

ClientLocal ==
    [pc : {"idle", "create"}, key : Key \cup {NoKey}, node : Node \cup {NoNode},
     version : Nat, outcome : {"none", "record", "refused", "stale", "conflict"}]

ClientIdle(outcome) ==
    [pc |-> "idle", key |-> NoKey, node |-> NoNode, version |-> 0,
     outcome |-> outcome]

ExecutorLocal ==
    [pc     : {"idle", "claim", "claiming", "execute", "finish", "finishing"},
     key    : Key \cup {NoKey},
     lease  : Nat,
     dead   : Nat,        \* the lease that had expired when now was read
     answer : {"none", "success", "failure", "error"},
     drift  : Code,       \* what the transaction saw of the run
     late   : BOOLEAN]    \* history: the run had moved before the transaction

ExecutorIdle ==
    [pc |-> "idle", key |-> NoKey, lease |-> NoId, dead |-> NoId,
     answer |-> "none", drift |-> "none", late |-> FALSE]

TypeOK ==
    /\ RepoTypeOK
    /\ rows \in [Key -> Row]
    /\ \A k \in Key : ValidRow(rows[k])
    /\ client \in [Client -> ClientLocal]
    /\ exec \in [Executor -> ExecutorLocal]
    /\ requests \in 0..MaxRequests
    /\ calls \in 0..MaxCalls
    /\ faults \in 0..MaxFaults

Init ==
    /\ RepoInit
    /\ rows = [k \in Key |-> Absent]
    /\ client = [c \in Client |-> ClientIdle("none")]
    /\ exec = [w \in Executor |-> ExecutorIdle]
    /\ requests = 0 /\ calls = 0 /\ faults = 0

-----------------------------------------------------------------------------
(* A client requests a retry: plan_capability_retry on a snapshot, then    *)
(* the store's create.                                                     *)

\* plan_capability_retry does not raise
Eligible(n) ==
    /\ run.status \notin {"failed", "cancelled"}
    /\ run.cancel = NoId
    /\ run.state.node[n] = "unavailable"
    /\ \A d \in DependsOn[n] : run.state.node[d] = "success"

\* request, up to the call of create
Plan(c, k, n) ==
    /\ client[c].pc = "idle"
    /\ requests < MaxRequests
    /\ requests' = requests + 1
    /\ client' = [client EXCEPT ![c] =
           IF Eligible(n)
           THEN [pc |-> "create", key |-> k, node |-> n, version |-> run.version,
                 outcome |-> "none"]
           ELSE ClientIdle("refused")]
    /\ UNCHANGED <<repoVars, rows, exec, calls, faults>>

\* The run is not what version v of it was: the code an executor records.
Drift(v) ==
    IF run.cancel # NoId THEN "cancelled"
    ELSE IF run.version # v THEN "stale"
    ELSE "none"

\* The row with identity k is the very retry that is asked for.
SamePlan(k, n, v) == rows[k].node = n /\ rows[k].version = v

ForNode(n) == {k \in Key : rows[k].node = n}

Respond(c, outcome) == client' = [client EXCEPT ![c] = ClientIdle(outcome)]

\* Variant: the bounded retry of the node is looked up before the identity.
CreateNodeFirst(c) ==
    /\ client[c].pc = "create"
    /\ LET k == client[c].key
           n == client[c].node
           v == client[c].version
       IN \/ /\ Drift(v) # "none"
             /\ Respond(c, "stale") /\ UNCHANGED rows
          \/ /\ Drift(v) = "none"
             /\ ForNode(n) # {} \/ rows[k].status # "absent"
             /\ Respond(c, "conflict") /\ UNCHANGED rows
          \/ /\ Drift(v) = "none"
             /\ ForNode(n) = {} /\ rows[k].status = "absent"
             /\ rows' = [rows EXCEPT ![k] = [Absent EXCEPT !.status = "pending",
                                                 !.node = n, !.version = v]]
             /\ Respond(c, "record")
    /\ UNCHANGED <<repoVars, exec, requests, calls, faults>>

\* Variant: no look at the other retries of the node.
CreateUnbounded(c) ==
    /\ client[c].pc = "create"
    /\ LET k == client[c].key
           n == client[c].node
           v == client[c].version
       IN \/ /\ Drift(v) # "none"
             /\ Respond(c, "stale") /\ UNCHANGED rows
          \/ /\ Drift(v) = "none" /\ rows[k].status # "absent"
             /\ Respond(c, IF SamePlan(k, n, v) THEN "record" ELSE "conflict")
             /\ UNCHANGED rows
          \/ /\ Drift(v) = "none" /\ rows[k].status = "absent"
             /\ rows' = [rows EXCEPT ![k] = [Absent EXCEPT !.status = "pending",
                                                 !.node = n, !.version = v]]
             /\ Respond(c, "record")
    /\ UNCHANGED <<repoVars, exec, requests, calls, faults>>

\* _create
Create(c) ==
    /\ client[c].pc = "create"
    /\ LET k == client[c].key
           n == client[c].node
           v == client[c].version
       IN \/ /\ Drift(v) # "none"
             /\ Respond(c, "stale") /\ UNCHANGED rows
          \/ /\ Drift(v) = "none" /\ rows[k].status # "absent"
             /\ Respond(c, IF SamePlan(k, n, v) THEN "record" ELSE "conflict")
             /\ UNCHANGED rows
          \/ /\ Drift(v) = "none" /\ rows[k].status = "absent" /\ ForNode(n) # {}
             /\ Respond(c, "conflict") /\ UNCHANGED rows
          \/ /\ Drift(v) = "none" /\ rows[k].status = "absent" /\ ForNode(n) = {}
             /\ rows' = [rows EXCEPT ![k] = [Absent EXCEPT !.status = "pending",
                                                 !.node = n, !.version = v]]
             /\ Respond(c, "record")
    /\ UNCHANGED <<repoVars, exec, requests, calls, faults>>

-----------------------------------------------------------------------------
(* An executor executes a retry.                                           *)

Moved(k) == Drift(rows[k].version) # "none"

\* _now(), as far as the lease of retry k goes
ReadClock(k) ==
    IF rows[k].status = "running" /\ rows[k].left = 0 THEN rows[k].lease ELSE NoId

Hold(w, local) == exec' = [exec EXCEPT ![w] = local]

\* execute is called; now is read for the claim
Call(w, k) ==
    /\ exec[w].pc = "idle"
    /\ calls < MaxCalls
    /\ rows[k].status # "absent"
    /\ calls' = calls + 1
    /\ Hold(w, [ExecutorIdle EXCEPT !.pc = "claim", !.key = k,
                   !.lease = calls + 1, !.dead = ReadClock(k), !.late = Moved(k)])
    /\ UNCHANGED <<repoVars, rows, client, requests, faults>>

Lock(k, w) == rows' = [rows EXCEPT ![k].lock = w]

\* _claim: the row is locked and both rows are read
ClaimRead(w) ==
    /\ exec[w].pc = "claim"
    /\ LET k == exec[w].key
           row == rows[k]
       IN /\ row.lock = NoExecutor
          /\ \/ /\ \/ row.status \in Settled
                   \/ row.status = "running" /\ row.lease # exec[w].dead
                /\ Hold(w, ExecutorIdle)
                /\ UNCHANGED rows
             \/ /\ \/ row.status = "pending"
                   \/ row.status = "running" /\ row.lease = exec[w].dead
                /\ Lock(k, w)
                /\ Hold(w, [exec[w] EXCEPT !.pc = "claiming",
                               !.drift = Drift(row.version)])
    /\ UNCHANGED <<repoVars, client, requests, calls, faults>>

\* _fail_locked_retry
FailLockedRetry(k, code) ==
    rows' = [rows EXCEPT ![k].status = "failed", ![k].code = code,
                         ![k].lease = NoId, ![k].left = 0, ![k].lock = NoExecutor]

\* _claim: the write and the commit.  The lease counts from the reading of the
\* clock, and waiting for the lock may have used up any part of it.
ClaimWrite(w) ==
    /\ exec[w].pc = "claiming"
    /\ LET k == exec[w].key IN
       IF exec[w].drift # "none"
       THEN /\ FailLockedRetry(k, exec[w].drift)
            /\ Hold(w, ExecutorIdle)
       ELSE /\ \E left \in 0..RetryTTL :
                  rows' = [rows EXCEPT ![k].status = "running",
                                       ![k].lease = exec[w].lease,
                                       ![k].left = left,
                                       ![k].lock = NoExecutor]
            /\ Hold(w, [exec[w] EXCEPT !.pc = "execute"])
    /\ UNCHANGED <<repoVars, client, requests, calls, faults>>

\* The capability answers with a result, or it raises, answers something
\* invalid or exceeds the lease; now is read for finish.
Answer(w) ==
    /\ exec[w].pc = "execute"
    /\ \E answer \in {"success", "failure", "error"} :
          Hold(w, [exec[w] EXCEPT !.pc = "finish", !.answer = answer,
                      !.dead = ReadClock(exec[w].key), !.late = Moved(exec[w].key)])
    /\ UNCHANGED <<repoVars, rows, client, requests, calls, faults>>

\* finish raised.  Inside the try block the handler calls finish once more,
\* without the result; in the handler the exception leaves execute.
FinishRaised(w) ==
    IF exec[w].answer = "error"
    THEN Hold(w, ExecutorIdle)
    ELSE Hold(w, [exec[w] EXCEPT !.pc = "finish", !.answer = "error",
                     !.dead = ReadClock(exec[w].key), !.late = Moved(exec[w].key)])

HoldsLease(w) ==
    LET row == rows[exec[w].key] IN
    /\ row.status = "running"
    /\ row.lease = exec[w].lease
    /\ row.lease # exec[w].dead

\* Variant: the lease is not compared.
FinishUnfenced(w) ==
    /\ exec[w].pc = "finish"
    /\ LET row == rows[exec[w].key] IN
       /\ row.lock = NoExecutor
       /\ \/ /\ row.status \in Settled
             /\ Hold(w, ExecutorIdle)
             /\ UNCHANGED rows
          \/ /\ row.status \notin Settled
             /\ Lock(exec[w].key, w)
             /\ Hold(w, [exec[w] EXCEPT !.pc = "finishing",
                            !.drift = Drift(row.version)])
    /\ UNCHANGED <<repoVars, client, requests, calls, faults>>

\* _finish: the row is locked and both rows are read
FinishRead(w) ==
    /\ exec[w].pc = "finish"
    /\ LET row == rows[exec[w].key] IN
       /\ row.lock = NoExecutor
       /\ \/ /\ row.status \in Settled
             /\ Hold(w, ExecutorIdle)
             /\ UNCHANGED rows
          \/ /\ row.status \notin Settled /\ ~HoldsLease(w)
             /\ FinishRaised(w)
             /\ UNCHANGED rows
          \/ /\ HoldsLease(w)
             /\ Lock(exec[w].key, w)
             /\ Hold(w, [exec[w] EXCEPT !.pc = "finishing",
                            !.drift = Drift(row.version)])
    /\ UNCHANGED <<repoVars, client, requests, calls, faults>>

\* What the transaction of finish writes.
Recorded(w) ==
    LET k == exec[w].key
        answer == exec[w].answer
    IN IF exec[w].drift # "none" THEN FailLockedRetry(k, exec[w].drift)
       ELSE rows' = [rows EXCEPT
                ![k].status = IF answer = "success" THEN "succeeded" ELSE "failed",
                ![k].result = IF answer = "error" THEN "none" ELSE answer,
                ![k].code = IF answer = "error" THEN "unavailable" ELSE "none",
                ![k].lease = NoId, ![k].left = 0, ![k].lock = NoExecutor]

\* _finish: the write and the commit
FinishWrite(w) ==
    /\ exec[w].pc = "finishing"
    /\ Recorded(w)
    /\ Hold(w, ExecutorIdle)
    /\ UNCHANGED <<repoVars, client, requests, calls, faults>>

-----------------------------------------------------------------------------
(* Faults.                                                                 *)

Released(w) ==
    [k \in Key |-> IF rows[k].lock = w THEN [rows[k] EXCEPT !.lock = NoExecutor]
                                       ELSE rows[k]]

Fault ==
    /\ faults < MaxFaults
    /\ faults' = faults + 1

\* Storage fails in finish: the transaction is rolled back, or its commit
\* happened and only the answer was lost.
FinishFails(w) ==
    /\ Fault
    /\ exec[w].pc = "finishing"
    /\ rows' = Released(w) \/ Recorded(w)
    /\ FinishRaised(w)
    /\ UNCHANGED <<repoVars, client, requests, calls>>

\* The process dies; an open transaction is rolled back.
Crash(w) ==
    /\ Fault
    /\ exec[w].pc # "idle"
    /\ rows' = Released(w)
    /\ Hold(w, ExecutorIdle)
    /\ UNCHANGED <<repoVars, client, requests, calls>>

\* Time passes for the leases of retries.
Age ==
    /\ \E k \in Key : rows[k].left > 0
    /\ rows' = [k \in Key |-> IF rows[k].left > 0
                              THEN [rows[k] EXCEPT !.left = rows[k].left - 1]
                              ELSE rows[k]]
    /\ UNCHANGED <<repoVars, client, exec, requests, calls, faults>>

\* The run moves on in the hands of its worker and its user.
RunMoves ==
    /\ Len(events) < MaxEvents
    /\ \/ AcquireLease(run.version + 1, run.version + 1, 0)
       \/ RequestCancellation(run.version + 1)
       \/ run.lease # NoId /\ \E s \in State :
             AppendStateTransition(run.lease, run.version + 1, run.version, 0, s)
    /\ UNCHANGED retryVars

Next ==
    \/ RunMoves
    \/ Age
    \/ \E c \in Client :
          Create(c) \/ \E k \in Key, n \in Node : Plan(c, k, n)
    \/ \E w \in Executor :
          \/ \E k \in Key : Call(w, k)
          \/ ClaimRead(w) \/ ClaimWrite(w) \/ Answer(w)
          \/ FinishRead(w) \/ FinishWrite(w) \/ FinishFails(w) \/ Crash(w)

Spec == Init /\ [][Next]_vars

-----------------------------------------------------------------------------
\* A failed capability has at most one retry, whichever clients race for it
\* with whichever keys.
OneRetryPerNode ==
    \A j, k \in Key :
        rows[j].status # "absent" /\ rows[j].node = rows[k].node => j = k

\* The records are well formed and single.
RetryIsSingle == TypeOK /\ OneRetryPerNode

\* What is settled stays settled: no late executor, repeated finish or takeover
\* changes it.
SettledIsFinal ==
    [][\A k \in Key : rows[k].status \in Settled => rows'[k] = rows[k]]_vars

\* Only the executor that claimed last records an outcome: one that a takeover
\* has fenced off writes nothing.
OnlyClaimantRecords ==
    [][\A w \in Executor :
          LET k == exec[w].key IN
          exec[w].pc = "finishing" /\ rows[k].status # rows'[k].status
              => rows[k].status = "running" /\ rows[k].lease = exec[w].lease]_vars

\* A run that moved on, or was cancelled, before execute is called is never
\* charged with the capability again, and one that moved before the answer
\* came never gets a success recorded.
DriftIsRefused ==
    /\ [](\A w \in Executor : exec[w].pc = "execute" => ~exec[w].late)
    /\ [][\A w \in Executor :
             LET k == exec[w].key IN
             exec[w].pc = "finishing" /\ exec[w].late
                 => rows'[k].status # "succeeded" \/ rows[k].status = "succeeded"]_vars

\* No late, repeated or drifted execution leaves a trace in a record.
ResultsAreFenced == SettledIsFinal /\ OnlyClaimantRecords /\ DriftIsRefused

\* A request that is repeated while the run does not move gets its own record
\* again, also while the first one is being executed or was settled.
RepeatedRequestIsAnswered ==
    [][\A c \in Client :
          LET k == client[c].key IN
          /\ client[c].pc = "create" /\ client'[c].pc = "idle"
          /\ rows[k].status # "absent" /\ rows[k].node = client[c].node
          /\ ~Moved(k) /\ client[c].version = run.version
          => client'[c].outcome = "record"]_vars

\* "run-version or cancellation drift fails before ... result persistence": when
\* a success is recorded, the run is still at the version of the plan and nobody
\* has cancelled it.
SuccessOnUnmovedRun ==
    [][\A k \in Key :
          rows'[k].status = "succeeded" /\ rows[k].status # "succeeded"
              => ~Moved(k)]_vars
=============================================================================
