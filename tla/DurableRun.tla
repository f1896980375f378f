----------------------------- MODULE DurableRun -----------------------------
(***************************************************************************)
(* The durable run repository of Ask AI (ask/orchestration/durability.py): *)
(* one row of ask_runs and its journal ask_run_events.  Every operation    *)
(* locks the row (SELECT ... FOR UPDATE), so it is one atomic step.        *)
(*                                                                         *)
(* A clock reading is never stored: run.left is the time that remains      *)
(* until lease_expires_at on a reference clock, and a caller whose clock   *)
(* is ahead by `skew' sees the lease expire `skew' ticks early.            *)
(***************************************************************************)
EXTENDS OrchestrationProgress, Sequences

CONSTANT TTL    \* lease time-to-live, in ticks

ASSUME TTLAssumption == TTL \in Nat \ {0}

VARIABLES
    run,     \* the row of ask_runs
    events   \* the rows of ask_run_events, in sequence order

repoVars == <<run, events>>

-----------------------------------------------------------------------------
(* The row and the journal.                                                *)

EventType ==
    {"lease_acquired", "lease_renewed", "lease_released",
     "state_transition", "cancellation_requested", "cancellation_applied"}

\* TERMINAL_RUN_EVENT_STATUSES
TerminalEventStatus == TerminalStatus \cup RunTerminalState

NoId == 0
Id == Nat \ {0}
NoState == [phase |-> LastPhase + 1]   \* an event without orchestration_state

RunRow ==
    [status  : RunStatus,
     state   : State,
     version : Nat,          \* execution_version
     next    : Nat,          \* next_event_sequence
     lease   : Nat,          \* lease_id, NoId when null
     left    : Nat,          \* ticks until lease_expires_at
     cancel  : Nat]          \* cancellation_request_id, NoId when null

Event ==
    [id       : Id,
     type     : EventType,
     sequence : Nat,
     version  : Nat,
     status   : RunStatus \cup RunTerminalState,
     lease    : Nat,
     state    : State \cup {NoState}]

RepoTypeOK ==
    /\ run \in RunRow
    /\ events \in Seq(Event)

RepoInit ==
    /\ run = [status |-> "pending", state |-> InitialState, version |-> 0,
              next |-> 0, lease |-> NoId, left |-> 0, cancel |-> NoId]
    /\ events = <<>>

\* _existing_event: the identifier was already used, so the call either returns
\* the stored event or raises; in both cases nothing is written.
Unused(id) == \A i \in 1..Len(events) : events[i].id # id

\* lease_expires_at <= now on the clock of the caller
Expired(skew) == run.left <= skew

\* _require_version
RequireVersion(expected) == run.version = expected

\* _require_lease
RequireLease(lease, skew) == run.lease = lease /\ ~Expired(skew)

\* _insert_event
InsertEvent(id, type, status, lease, state) ==
    events' = Append(events,
        [id |-> id, type |-> type, sequence |-> run.next,
         version |-> run.version + 1, status |-> status,
         lease |-> lease, state |-> state])

\* The counters every update of the row writes after its event.
Bumped == [run EXCEPT !.version = run.version + 1, !.next = run.next + 1]

\* Variant: the status of the run is not looked at.
AcquireOverTerminal(lease, id, skew) ==
    /\ Unused(id)
    /\ run.lease = NoId \/ Expired(skew)
    /\ InsertEvent(id, "lease_acquired", "running", lease, NoState)
    /\ run' = [Bumped EXCEPT !.lease = lease, !.left = TTL + skew,
                             !.status = "running"]

AcquireLease(lease, id, skew) ==
    /\ Unused(id)
    /\ ~IsTerminal(run.status)
    /\ run.lease = NoId \/ Expired(skew)
    /\ InsertEvent(id, "lease_acquired", "running", lease, NoState)
    /\ run' = [Bumped EXCEPT !.lease = lease, !.left = TTL + skew,
                             !.status = "running"]

RenewLease(lease, id, expected, skew) ==
    /\ Unused(id)
    /\ RequireVersion(expected)
    /\ RequireLease(lease, skew)
    /\ InsertEvent(id, "lease_renewed", run.status, lease, NoState)
    /\ run' = [Bumped EXCEPT !.left = TTL + skew]

ReleaseLease(lease, id, expected) ==
    /\ Unused(id)
    /\ RequireVersion(expected)
    /\ run.lease = lease
    /\ InsertEvent(id, "lease_released", run.status, lease, NoState)
    /\ run' = [Bumped EXCEPT !.lease = NoId, !.left = 0]

\* Variant: the lease fences the append, the version does not.
AppendUnversioned(lease, id, expected, skew, s) ==
    /\ Unused(id)
    /\ RequireLease(lease, skew)
    /\ Progress(run.state, s)
    /\ InsertEvent(id, "state_transition",
                   IF s.terminal = NoTerminal THEN "running" ELSE s.terminal,
                   NoId, s)
    /\ run' = [Bumped EXCEPT
                  !.state = s,
                  !.status = DurableStatusForState(s),
                  !.lease = IF s.terminal = NoTerminal THEN run.lease ELSE NoId,
                  !.left = IF s.terminal = NoTerminal THEN run.left ELSE 0]

AppendStateTransition(lease, id, expected, skew, s) ==
    /\ Unused(id)
    /\ RequireVersion(expected)
    /\ RequireLease(lease, skew)
    /\ Progress(run.state, s)
    /\ InsertEvent(id, "state_transition",
                   IF s.terminal = NoTerminal THEN "running" ELSE s.terminal,
                   NoId, s)
    /\ run' = [Bumped EXCEPT
                  !.state = s,
                  !.status = DurableStatusForState(s),
                  !.lease = IF s.terminal = NoTerminal THEN run.lease ELSE NoId,
                  !.left = IF s.terminal = NoTerminal THEN run.left ELSE 0]

ApplyCancellation(lease, request, id, expected, skew, s) ==
    /\ Unused(id)
    /\ RequireVersion(expected)
    /\ RequireLease(lease, skew)
    /\ run.cancel = request
    /\ InsertEvent(id, "cancellation_applied", CancelledStatus(s), NoId, s)
    /\ run' = [Bumped EXCEPT !.state = s, !.status = CancelledStatus(s),
                             !.lease = NoId, !.left = 0]

RequestCancellation(request) ==
    /\ Unused(request)
    /\ ~IsTerminal(run.status)
    /\ run.cancel = NoId
    /\ InsertEvent(request, "cancellation_requested", run.status, NoId, NoState)
    /\ run' = [Bumped EXCEPT !.cancel = request]

\* Time passes: lease_expires_at comes closer.
Tick ==
    /\ run.left > 0
    /\ run' = [run EXCEPT !.left = run.left - 1]
    /\ UNCHANGED events

-----------------------------------------------------------------------------
(* replay_orchestration and _validate_event_batch, as a predicate on a     *)
(* journal: the conditions under which reconstruction does not raise.      *)

IsStateEvent(e) == e.state # NoState

IsTerminalEvent(e) ==
    \/ e.status \in TerminalEventStatus
    \/ IsStateEvent(e) /\ e.state.terminal # NoTerminal

\* _validate_event_batch with first_sequence = first, first_execution_version =
\* first + 1
ContiguousBatch(evs, first) ==
    /\ \A i \in 1..Len(evs) :
          /\ evs[i].sequence = first + i - 1
          /\ evs[i].version = first + i
    /\ \A i, j \in 1..Len(evs) : evs[i].id = evs[j].id => i = j

\* j is the next event with a state after event i with a state
NextState(evs, i, j) ==
    /\ i < j
    /\ IsStateEvent(evs[i]) /\ IsStateEvent(evs[j])
    /\ \A k \in (i + 1)..(j - 1) : ~IsStateEvent(evs[k])

Replays(evs) ==
    /\ ContiguousBatch(evs, 0)
    /\ \A i \in 1..Len(evs) : IsTerminalEvent(evs[i]) => i = Len(evs)
    /\ \A i, j \in 1..Len(evs) :
          NextState(evs, i, j) => Progress(evs[i].state, evs[j].state)

\* The state replay_orchestration returns: that of the last event with one.
IsReplayResult(evs, s) ==
    \E i \in 1..Len(evs) :
        /\ IsStateEvent(evs[i])
        /\ \A k \in (i + 1)..Len(evs) : ~IsStateEvent(evs[k])
        /\ s = evs[i].state
=============================================================================
