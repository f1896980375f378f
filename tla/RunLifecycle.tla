---------------------------- MODULE RunLifecycle ----------------------------
(***************************************************************************)
(* What the durable run promises to everyone who reads it: one sequential  *)
(* process, however many workers execute it.  Its state only advances, it  *)
(* stops advancing the moment a cancellation is requested, and it gets one *)
(* final status, which is that of its last state or, for a cancelled run,  *)
(* that of the very state the request found.                               *)
(***************************************************************************)
EXTENDS OrchestrationProgress

VARIABLES
    state,      \* the orchestration state
    requested,  \* a cancellation was requested
    final       \* the final status, or "open"

Init ==
    /\ state = InitialState
    /\ requested = FALSE
    /\ final = "open"

Advance ==
    /\ final = "open"
    /\ ~requested
    /\ \E s \in State :
          /\ s # state
          /\ Progress(state, s)
          /\ state' = s
          /\ final' = IF s.terminal = NoTerminal THEN "open"
                      ELSE DurableStatusForState(s)
    /\ UNCHANGED requested

Request ==
    /\ final = "open"
    /\ ~requested
    /\ requested' = TRUE
    /\ UNCHANGED <<state, final>>

Settle ==
    /\ final = "open"
    /\ requested
    /\ final' = CancelledStatus(state)
    /\ UNCHANGED <<state, requested>>

Next == Advance \/ Request \/ Settle

Spec == Init /\ [][Next]_<<state, requested, final>>
=============================================================================
