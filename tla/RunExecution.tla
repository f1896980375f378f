---------------------------- MODULE RunExecution ----------------------------
(***************************************************************************)
(* DurableRunExecutionCoordinator (ask/orchestration/execution.py): any    *)
(* number of worker processes execute the same durable run.  Each store    *)
(* call is a transaction of DurableRun; between two of them a worker       *)
(* awaits, so other workers, the user's cancellation, the passing of time  *)
(* and crashes interleave there.                                           *)
(*                                                                         *)
(* A worker's pc names the await it stands at:                             *)
(*   acquire   acquire_lease                                               *)
(*   own       _owned_snapshot after the acquisition                       *)
(*   renew     renew_lease, then renewed: the _owned_snapshot after it     *)
(*   drive     driver.advance, then driven: the _owned_snapshot after it   *)
(*   append    append_state_transition, then reload: the load after it     *)
(*   resolve   _resolve_stale_cancellation's load_snapshot                 *)
(*   cancel    apply_cancellation, then cancelled: the load after it       *)
(***************************************************************************)
EXTENDS DurableRun

CONSTANTS
    Worker,        \* worker processes
    Skew,          \* Skew[w]: how far the clock of worker w is ahead
    MaxSteps,      \* max_steps of execute
    MaxStarts,     \* bound: calls of execute
    MaxCrashes     \* bound: crashes of worker processes

ASSUME RunExecutionAssumption ==
    /\ Skew \in [Worker -> Nat]
    /\ MaxSteps \in Nat \ {0}
    /\ MaxStarts \in Nat
    /\ MaxCrashes \in Nat

VARIABLES
    wk,        \* wk[w]: what worker w's coroutine holds
    starts,    \* calls of execute so far
    crashes    \* crashes so far

vars == <<run, events, wk, starts, crashes>>

Pc == {"idle", "acquire", "own", "renew", "renewed", "drive", "driven",
       "append", "reload", "resolve", "cancel", "cancelled"}

\* How execute ended: its RunExecutionOutcome, or the exception it raised.
Outcome == {"none", "completed", "cancelled", "already_terminal",
            "conflict", "stale", "interrupted", "stalled", "error"}

Local ==
    [pc      : Pc,
     lease   : Nat,              \* lease_id
     version : Nat,              \* snapshot.execution_version
     state   : State,            \* snapshot.orchestration_state
     request : Nat,              \* snapshot.cancellation.request_id
     cand    : State,            \* the state to persist
     steps   : 0..MaxSteps,      \* accepted_steps
     fresh   : BOOLEAN,          \* the append persists a recovery, not a step
     outcome : Outcome]

Idle(outcome) ==
    [pc |-> "idle", lease |-> NoId, version |-> 0, state |-> InitialState,
     request |-> NoId, cand |-> InitialState, steps |-> 0, fresh |-> FALSE,
     outcome |-> outcome]

Init ==
    /\ RepoInit
    /\ wk = [w \in Worker |-> Idle("none")]
    /\ starts = 0
    /\ crashes = 0

TypeOK ==
    /\ RepoTypeOK
    /\ wk \in [Worker -> Local]
    /\ starts \in 0..MaxStarts
    /\ crashes \in 0..MaxCrashes

\* identity_factory is uuid4: the position of the event about to be written is
\* an identity no one has used.
FreshId == run.version + 1

-----------------------------------------------------------------------------
Become(w, local) == wk' = [wk EXCEPT ![w] = local]

Exit(w, outcome) == Become(w, Idle(outcome))

\* On to another await; a candidate state that was held is not used again.
Goto(w, local, pc) == Become(w, [local EXCEPT !.pc = pc, !.cand = InitialState])

\* load_snapshot
WithSnapshot(local) ==
    [local EXCEPT !.version = run.version, !.state = run.state,
                  !.request = run.cancel]

\* _owned_snapshot does not raise
Owned(w) == run.lease = wk[w].lease /\ ~Expired(Skew[w])

\* Variant: one step more than max_steps.
LoopHeadOffByOne(w, local) ==
    IF IsTerminal(run.status) THEN Exit(w, "completed")
    ELSE IF local.request # NoId THEN Goto(w, local, "cancel")
    ELSE IF local.steps > MaxSteps THEN Exit(w, "stalled")
    ELSE IF local.steps > 0 THEN Goto(w, local, "renew")
    ELSE Goto(w, local, "drive")

\* The head of execute's loop, once `local' holds the snapshot just loaded.  The
\* branch for a terminal state in a run that is not terminal is left out:
\* StateMatchesStatus shows there is no such row.
LoopHead(w, local) ==
    IF IsTerminal(run.status) THEN Exit(w, "completed")
    ELSE IF local.request # NoId THEN Goto(w, local, "cancel")
    ELSE IF local.steps >= MaxSteps THEN Exit(w, "stalled")
    ELSE IF local.steps > 0 THEN Goto(w, local, "renew")
    ELSE Goto(w, local, "drive")

\* recover_interrupted_capabilities
Recovered(s) ==
    [s EXCEPT !.node = [n \in Node |-> IF s.node[n] = "active"
                                       THEN "unavailable" ELSE s.node[n]]]

\* execute is called; its first load_snapshot
Start(w) ==
    /\ wk[w].pc = "idle"
    /\ starts < MaxStarts
    /\ starts' = starts + 1
    /\ IF IsTerminal(run.status)
       THEN Exit(w, "already_terminal")
       ELSE Become(w, [Idle("none") EXCEPT !.pc = "acquire"])
    /\ UNCHANGED <<repoVars, crashes>>

\* Variant: a worker waits for the lease of another.
AcquireWaits(w) ==
    /\ wk[w].pc = "acquire"
    /\ \/ /\ AcquireLease(FreshId, FreshId, Skew[w])
          /\ Become(w, [wk[w] EXCEPT !.pc = "own", !.lease = FreshId])
       \/ /\ IsTerminal(run.status)
          /\ Exit(w, "conflict")
          /\ UNCHANGED repoVars
    /\ UNCHANGED <<starts, crashes>>

Acquire(w) ==
    /\ wk[w].pc = "acquire"
    /\ \/ /\ AcquireLease(FreshId, FreshId, Skew[w])
          /\ Become(w, [wk[w] EXCEPT !.pc = "own", !.lease = FreshId])
       \/ /\ IsTerminal(run.status) \/ (run.lease # NoId /\ ~Expired(Skew[w]))
          /\ Exit(w, "conflict")
          /\ UNCHANGED repoVars
    /\ UNCHANGED <<starts, crashes>>

\* Variant: what the predecessor left active is not recovered.
OwnWithoutRecovery(w) ==
    /\ wk[w].pc = "own"
    /\ IF Owned(w) THEN LoopHead(w, WithSnapshot(wk[w])) ELSE Exit(w, "stale")
    /\ UNCHANGED <<repoVars, starts, crashes>>

\* A pending cancellation is applied first; then interrupted capabilities are
\* finished; then the loop begins.
Own(w) ==
    /\ wk[w].pc = "own"
    /\ LET local == WithSnapshot(wk[w]) IN
       IF ~Owned(w) THEN Exit(w, "stale")
       ELSE IF local.request = NoId /\ HasActive(local.state)
       THEN Become(w, [local EXCEPT !.pc = "append", !.fresh = TRUE,
                                    !.cand = Recovered(local.state)])
       ELSE LoopHead(w, local)
    /\ UNCHANGED <<repoVars, starts, crashes>>

Renew(w) ==
    /\ wk[w].pc = "renew"
    /\ \/ /\ RenewLease(wk[w].lease, FreshId, wk[w].version, Skew[w])
          /\ Goto(w, wk[w], "renewed")
       \/ /\ ~(RequireVersion(wk[w].version) /\ RequireLease(wk[w].lease, Skew[w]))
          /\ Goto(w, wk[w], "resolve")
          /\ UNCHANGED repoVars
    /\ UNCHANGED <<starts, crashes>>

\* The snapshot after a renewal goes to the driver without another look at
\* its cancellation.
Renewed(w) ==
    /\ wk[w].pc = "renewed"
    /\ IF Owned(w) THEN Goto(w, WithSnapshot(wk[w]), "drive")
                   ELSE Goto(w, wk[w], "resolve")
    /\ UNCHANGED <<repoVars, starts, crashes>>

\* driver.advance returns any state, or raises, or exceeds the lease TTL.
Drive(w) ==
    /\ wk[w].pc = "drive"
    /\ \/ \E s \in State : Become(w, [wk[w] EXCEPT !.pc = "driven", !.cand = s])
       \/ Exit(w, "interrupted")
    /\ UNCHANGED <<repoVars, starts, crashes>>

\* Variant: the cancellation is applied to the candidate state.
DrivenCancelsCandidate(w) ==
    /\ wk[w].pc = "driven"
    /\ LET local == WithSnapshot(wk[w])
           cand == wk[w].cand
       IN IF ~Owned(w) THEN Goto(w, wk[w], "resolve")
          ELSE IF ~Progress(wk[w].state, cand) THEN Exit(w, "error")
          ELSE IF local.request # NoId
               THEN Goto(w, [local EXCEPT !.state = cand], "cancel")
          ELSE Become(w, [local EXCEPT !.pc = "append", !.fresh = FALSE])
    /\ UNCHANGED <<repoVars, starts, crashes>>

\* Storage is read again before the candidate may be persisted.
Driven(w) ==
    /\ wk[w].pc = "driven"
    /\ LET local == WithSnapshot(wk[w])
           current == wk[w].state
           cand == wk[w].cand
       IN IF ~Owned(w) THEN Goto(w, wk[w], "resolve")
          ELSE IF local.request # NoId THEN Goto(w, local, "cancel")
          ELSE IF local.state # current THEN Exit(w, "stale")
          ELSE IF cand = current THEN Exit(w, "stalled")
          ELSE IF ~Progress(current, cand) THEN Exit(w, "error")
          ELSE Become(w, [local EXCEPT !.pc = "append", !.fresh = FALSE])
    /\ UNCHANGED <<repoVars, starts, crashes>>

\* _append_state
AppendState(w) ==
    /\ wk[w].pc = "append"
    /\ \/ /\ AppendStateTransition(wk[w].lease, FreshId, wk[w].version, Skew[w],
                                   wk[w].cand)
          /\ Goto(w, wk[w], "reload")
       \/ /\ ~(RequireVersion(wk[w].version) /\ RequireLease(wk[w].lease, Skew[w]))
          /\ Goto(w, wk[w], "resolve")
          /\ UNCHANGED repoVars
    /\ UNCHANGED <<starts, crashes>>

\* The load after an append takes whatever it finds, its own lease or not.
Reload(w) ==
    /\ wk[w].pc = "reload"
    /\ LET steps == IF wk[w].fresh THEN wk[w].steps ELSE wk[w].steps + 1
       IN LoopHead(w, [WithSnapshot(wk[w]) EXCEPT !.steps = steps,
                                                  !.fresh = FALSE])
    /\ UNCHANGED <<repoVars, starts, crashes>>

\* Variant: a run that is over is taken for a cancelled one.
ResolveTerminalFirst(w) ==
    /\ wk[w].pc = "resolve"
    /\ IF IsTerminal(run.status) THEN Exit(w, "cancelled")
       ELSE IF run.cancel = NoId \/ ~Owned(w) THEN Exit(w, "stale")
       ELSE Goto(w, WithSnapshot(wk[w]), "cancel")
    /\ UNCHANGED <<repoVars, starts, crashes>>

\* Variant: a stale worker never looks for a cancellation.
ResolveGivesUp(w) ==
    /\ wk[w].pc = "resolve"
    /\ Exit(w, "stale")
    /\ UNCHANGED <<repoVars, starts, crashes>>

\* _resolve_stale_cancellation
Resolve(w) ==
    /\ wk[w].pc = "resolve"
    /\ IF run.cancel = NoId THEN Exit(w, "stale")
       ELSE IF IsTerminal(run.status) THEN Exit(w, "cancelled")
       ELSE IF ~Owned(w) THEN Exit(w, "stale")
       ELSE Goto(w, WithSnapshot(wk[w]), "cancel")
    /\ UNCHANGED <<repoVars, starts, crashes>>

\* _apply_cancellation
ApplyCancel(w) ==
    /\ wk[w].pc = "cancel"
    /\ \/ /\ ApplyCancellation(wk[w].lease, wk[w].request, FreshId,
                               wk[w].version, Skew[w], wk[w].state)
          /\ Goto(w, wk[w], "cancelled")
       \/ /\ ~(RequireVersion(wk[w].version) /\ RequireLease(wk[w].lease, Skew[w]))
          /\ Exit(w, "stale")
          /\ UNCHANGED repoVars
    /\ UNCHANGED <<starts, crashes>>

Cancelled(w) ==
    /\ wk[w].pc = "cancelled"
    /\ Exit(w, "cancelled")
    /\ UNCHANGED <<repoVars, starts, crashes>>

\* The worker process dies, also between a commit and its answer.
Crash(w) ==
    /\ wk[w].pc # "idle"
    /\ crashes < MaxCrashes
    /\ crashes' = crashes + 1
    /\ Exit(w, "none")
    /\ UNCHANGED <<repoVars, starts>>

\* The user cancels the run.
UserCancel ==
    /\ RequestCancellation(FreshId)
    /\ UNCHANGED <<wk, starts, crashes>>

Expire == Tick /\ UNCHANGED <<wk, starts, crashes>>

WorkerStep(w) ==
    \/ Acquire(w) \/ Own(w) \/ Renew(w) \/ Renewed(w) \/ Drive(w) \/ Driven(w)
    \/ AppendState(w) \/ Reload(w) \/ Resolve(w) \/ ApplyCancel(w) \/ Cancelled(w)

Next ==
    \/ UserCancel
    \/ Expire
    \/ \E w \in Worker : Start(w) \/ WorkerStep(w) \/ Crash(w)

Spec == Init /\ [][Next]_vars

\* asyncio runs every coroutine that can proceed.
FairSpec == Spec /\ \A w \in Worker : WF_vars(WorkerStep(w))

-----------------------------------------------------------------------------
\* Once a cancellation request is in the journal, no state transition follows
\* it: the late result of a driver never beats the cancellation, whichever
\* worker appends it and however the lease has changed hands (the version
\* check of append_state_transition, the snapshot re-read after a driver step).
CancellationPrecedence ==
    \A i, j \in 1..Len(events) :
        i < j /\ events[i].type = "cancellation_requested"
            => events[j].type # "state_transition"

\* replay_orchestration never raises on the journal the workers wrote, and it
\* returns exactly the state of the row: contiguous sequences, unique
\* identifiers, monotone states, nothing after a terminal event.
ReplayReconstructs ==
    /\ Replays(events)
    /\ (\E i \in 1..Len(events) : IsStateEvent(events[i]))
          => IsReplayResult(events, run.state)

\* A worker that takes over and still holds the run finishes every capability
\* its predecessor left active before its own first driver step
\* (recover_interrupted_capabilities), and drives the state that is stored.
OwnerRecoversFirst ==
    \A w \in Worker :
        wk[w].pc = "drive" /\ wk[w].steps = 0 /\ run.lease = wk[w].lease
            => ~HasActive(wk[w].state) /\ wk[w].state = run.state

\* Every worker finishes the capabilities it found active before any new driver
\* step, as decision D-036 says; also one whose lease was lost meanwhile.
RecoveredBeforeDrive ==
    \A w \in Worker :
        wk[w].pc = "drive" /\ wk[w].steps = 0 => ~HasActive(wk[w].state)

\* A worker that reports CANCELLED speaks the truth: the run is over and its
\* journal ends with the application of the user's request.
CancelledIsApplied ==
    \A w \in Worker :
        wk[w].outcome = "cancelled" \/ wk[w].pc = "cancelled"
            => /\ IsTerminal(run.status)
               /\ events[Len(events)].type = "cancellation_applied"

\* The row never says "still running" over a finished orchestration, nor
\* "finished" while a lease is held: a worker that finds a terminal state in a
\* run it still owns would append that state a second time.
StateMatchesStatus ==
    /\ run.state.terminal # NoTerminal => IsTerminal(run.status)
    /\ IsTerminal(run.status) => run.lease = NoId

\* execute always returns: no worker waits or loops for ever, whatever the
\* other workers, the user and the clock do.
ExecuteReturns ==
    \A w \in Worker : wk[w].pc # "idle" ~> wk[w].pc = "idle"

\* A worker that holds the lease never walks away from a pending cancellation:
\* when its execute ends, the request has been applied, or the driver raised
\* (or the process died), whatever the moment at which the request arrived.
OwnerHonoursCancellation ==
    [][\A w \in Worker :
          /\ wk[w].pc # "idle" /\ wk'[w].pc = "idle"
          /\ Owned(w) /\ run.cancel # NoId
          => wk'[w].outcome \in {"interrupted", "none"}]_vars

\* The run the workers execute is the sequential process of RunLifecycle.
Lifecycle ==
    INSTANCE RunLifecycle WITH
        state <- run.state,
        requested <- (run.cancel # NoId),
        final <- IF IsTerminal(run.status) THEN run.status ELSE "open"

\* Takeovers, stale workers, late driver results, crashes and cancellations are
\* all invisible in the run's state, its cancellation and its final status.
ImplementsLifecycle == Lifecycle!Spec
=============================================================================
