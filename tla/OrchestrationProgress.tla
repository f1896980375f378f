------------------------ MODULE OrchestrationProgress ------------------------
(***************************************************************************)
(* The orchestration state as persistence sees it, and the checks of       *)
(* ask/orchestration/durability.py on it.  A node that the work plan has   *)
(* not added yet counts as queued; the checks that admitted artifacts,     *)
(* nodes and sections are never dropped are of the same kind as those on   *)
(* terminal nodes and sections, and are represented by them.               *)
(***************************************************************************)
EXTENDS Naturals

CONSTANTS
    Node,       \* capability nodes of the orchestration
    Section,    \* response sections of the orchestration
    LastPhase   \* index of the last orchestration phase (9 in the code)

ASSUME LastPhaseAssumption == LastPhase \in Nat

\* Lifecycle of a capability node; the terminal states told apart here are an
\* ordinary result and the UNAVAILABLE that recovery writes.
NodeTerminal == {"success", "unavailable"}
NodeState == {"queued", "active"} \cup NodeTerminal

\* Lifecycle of a response section: its working states are told apart by
\* nothing here.
SectionState == {"planned", "terminal"}

NoTerminal == "none"
RunTerminalState ==
    {"complete", "degraded_complete", "clarification_result", "cancelled"}

OrchestrationRecord ==
    [phase    : 0..LastPhase,
     node     : [Node -> NodeState],
     section  : [Section -> SectionState],
     terminal : RunTerminalState \cup {NoTerminal}]

\* OrchestrationState.validate_state: a terminal run retains no open work.
ValidState(s) ==
    s.terminal # NoTerminal =>
        /\ \A n \in Node : s.node[n] \in NodeTerminal
        /\ \A c \in Section : s.section[c] = "terminal"
        /\ s.terminal # "clarification_result" => s.phase = LastPhase

State == {s \in OrchestrationRecord : ValidState(s)}

\* initialize_orchestration
InitialState ==
    [phase    |-> 0,
     node     |-> [n \in Node |-> "queued"],
     section  |-> [c \in Section |-> "planned"],
     terminal |-> NoTerminal]

\* validate_orchestration_progress(previous, current) does not raise
Progress(previous, current) ==
    /\ current.phase >= previous.phase
    /\ \A n \in Node :
          /\ previous.node[n] \in NodeTerminal => current.node[n] = previous.node[n]
          /\ previous.node[n] = "active" => current.node[n] # "queued"
    /\ \A c \in Section :
          previous.section[c] = "terminal" => current.section[c] = "terminal"
    /\ previous.terminal # NoTerminal => current = previous

HasActive(s) == \E n \in Node : s.node[n] = "active"

\* DurableRunStatus
TerminalStatus == {"completed", "partial", "failed", "cancelled"}
RunStatus == {"pending", "running"} \cup TerminalStatus

IsTerminal(status) == status \in TerminalStatus

\* Variant: a clarification does not end the run.
StatusAwaitingClarification(s) ==
    CASE s.terminal \in {NoTerminal, "clarification_result"} -> "running"
      [] s.terminal = "complete" -> "completed"
      [] s.terminal = "cancelled" -> "cancelled"
      [] OTHER -> "partial"

\* _durable_status_for_state
DurableStatusForState(s) ==
    CASE s.terminal = NoTerminal -> "running"
      [] s.terminal = "complete" -> "completed"
      [] s.terminal = "cancelled" -> "cancelled"
      [] OTHER -> "partial"

\* plan_safe_cancellation: a terminal section is preserved
PreservesSection(s) == \E c \in Section : s.section[c] = "terminal"

\* The status apply_cancellation gives the run.
CancelledStatus(s) == IF PreservesSection(s) THEN "partial" ELSE "cancelled"
==============================================================================
