------------------------ MODULE OrchestrationMachine ------------------------
(***************************************************************************)
(* The orchestration state machine (ask/orchestration/state_machine.py): a *)
(* pure function from a state and an operation to the next state, or an    *)
(* exception.  For each operation there is an operator that says when it   *)
(* does not raise and one for the state it returns.                        *)
(*                                                                         *)
(* Identities that the code compares for equality (run, plan, policy,      *)
(* request, scope) are not modelled one by one: a result that fails one of *)
(* these comparisons is "not legal".  A plan decides every capability; the *)
(* one inert node of a capability it skips is left out of the state, and so *)
(* are dependencies on a bootstrap node, which is settled before a plan is *)
(* approved, and sections that come with claims already.                   *)
(***************************************************************************)
EXTENDS FiniteSets, Naturals, SequencesExt

CONSTANTS
    Claim,      \* identities of material claim artifacts
    WorkPlan    \* WorkPlan[i]: the plans that are submitted for approval

\* OrchestrationPhase, by its index in PHASE_ORDER.
RequestScope == 0
Interpretation == 1
PlanApproval == 2
DeterministicMerge == 8
Completion == 9
Phase == 0..Completion

\* OrchestratorCapability; the two passes of the Citation Verifier are kept
\* apart, as CapabilityOperation does.
Verifier == {"evidence_integrity", "claim_support"}
Capability ==
    {"intent_classifier", "entity_resolver", "regulatory_retriever",
     "knowledge_graph", "timeline_builder", "news_retriever", "general_ai",
     "response_composer", "follow_up_generator"} \cup Verifier

\* CAPABILITY_ACTIVATION_PHASES
ActivationPhases(c) ==
    CASE c \in {"intent_classifier", "entity_resolver"} -> {1}
      [] c \in {"regulatory_retriever", "knowledge_graph", "news_retriever"} -> {3}
      [] c = "general_ai" -> {3, 4}
      [] c = "evidence_integrity" -> {4}
      [] c = "timeline_builder" -> {5}
      [] c = "response_composer" -> {6}
      [] c = "claim_support" -> {7}
      [] c = "follow_up_generator" -> {9}

\* What a node that was executed may report
Failing == {"timed_out", "unavailable", "invalid_output"}
Reported ==
    {"satisfied", "partial", "no_match", "ambiguous", "contradictory",
     "superseded", "cancelled"} \cup Failing
\* CAPABILITY_TERMINAL_STATES; a node that is skipped never becomes active.
NodeTerminal == Reported \cup {"skipped"}
NodeState == {"queued", "active"} \cup NodeTerminal

\* SECTION_TRANSITIONS
SectionTransitions ==
    [planned    |-> {"collecting", "cancelled"},
     collecting |-> {"draftable", "empty", "degraded_pending",
                     "needs_clarification", "cancelled"},
     draftable  |-> {"composing", "ready_without_synthesis", "cancelled"},
     composing  |-> {"verifying", "ready", "ready_without_synthesis",
                     "degraded_pending", "cancelled"},
     verifying  |-> {"ready", "revising", "degraded", "cancelled"},
     revising   |-> {"verifying", "degraded", "cancelled"},
     empty      |-> {"omitted", "ready", "empty_by_evidence", "cancelled"},
     degraded_pending |->
                    {"ready", "ready_without_synthesis", "degraded", "cancelled"}]
SectionWork == DOMAIN SectionTransitions
\* The states in which a grounded section shows its material claims.
Shown == {"ready", "ready_without_synthesis", "degraded"}
SectionTerminal ==
    Shown \cup {"empty_by_evidence", "omitted", "needs_clarification", "cancelled"}

Bootstrap == {"intent", "entity"}
\* What may be the part of the entity resolver
EntityRole == {"mandatory", "conditional_mandatory", "supporting", "skipped"}
NoPlan == "none"
NoSection == "none"

\* A work plan: the bootstrap nodes it keeps, the nodes it adds in the order of
\* capability_nodes, what each of them is, waits for and is scoped to, the
\* capabilities a capability may depend on, and the sections of the answer with
\* the states they begin in.
PlanNodes(p) == ToSet(p.order)
PlanOf(s) == WorkPlan[s.plan]

CapabilityOf(s, n) ==
    IF n = "intent" THEN "intent_classifier"
    ELSE IF n = "entity" THEN "entity_resolver" ELSE PlanOf(s).capability[n]
Needs(s, n) == IF n \in Bootstrap THEN {} ELSE PlanOf(s).needs[n]
Role(s, n) ==
    CASE n = "intent" -> "mandatory" [] n = "entity" -> s.entity [] OTHER -> PlanOf(s).role[n]
PhasesOf(s, n) == ActivationPhases(CapabilityOf(s, n))
Nodes(s) == DOMAIN s.node
Sections(s) == DOMAIN s.section

\* Sections inside the scope of a node: its own, or all of the plan's.
InScope(s, n) ==
    IF n \in Bootstrap \/ s.plan = NoPlan THEN {}
    ELSE IF PlanOf(s).scope[n] = NoSection THEN Sections(s) ELSE {PlanOf(s).scope[n]}

\* visit: the dependencies contain no cycle
Acyclic(p) ==
    \A N \in SUBSET PlanNodes(p) :
        N # {} => \E n \in N : p.needs[n] \cap N = {}

\* Some phase in which d may run is no later than some phase in which c may.
DependencyPhase(c, d) ==
    \E i \in ActivationPhases(d), j \in ActivationPhases(c) : i <= j

\* _validate_capability_node_plan and validate_state do not raise
Accepted(p) ==
    LET caps == {p.capability[n] : n \in PlanNodes(p)} IN
    /\ \A i, j \in DOMAIN p.order : p.order[i] = p.order[j] => i = j
    /\ p.required # {} /\ p.required \subseteq p.sections
    /\ \A c \in p.required : p.begins[c] # "omitted"
    /\ p.grounded # {} => caps \cap Verifier \in {{}, Verifier}
    /\ \A n \in PlanNodes(p) :
          /\ p.needs[n] \subseteq PlanNodes(p)
          /\ p.scope[n] \in p.sections \cup {NoSection}
          /\ \A d \in p.needs[n] :
                /\ \/ p.capability[d] = p.capability[n]
                   \/ p.capability[d] \in p.declared[p.capability[n]]
                /\ DependencyPhase(p.capability[n], p.capability[d])
    /\ Acyclic(p)

\* A plan lists nodes of one capability each, of the two it finds all, one or
\* none: the part of those it keeps is the one they have.
ASSUME PlanAssumption ==
    /\ NoPlan \notin DOMAIN WorkPlan
    /\ \A i \in DOMAIN WorkPlan : LET p == WorkPlan[i] IN
          /\ p.keeps \subseteq Bootstrap
          /\ p.order \in Seq(PlanNodes(p)) /\ PlanNodes(p) \cap Bootstrap = {}
          /\ p.capability \in [PlanNodes(p) -> Capability]
          /\ p.begins \in [p.sections -> SectionWork \cup SectionTerminal]

AcceptedPlans == {p \in DOMAIN WorkPlan : Accepted(WorkPlan[p])}

-----------------------------------------------------------------------------
\* initialize_orchestration
InitialOrchestration(participation) ==
    [phase    |-> RequestScope,
     plan     |-> NoPlan,
     entity   |-> participation,              \* of the entity resolver
     node     |-> [intent |-> "queued",
                   entity |-> IF participation = "skipped" THEN "skipped" ELSE "queued"],
     rejected |-> [n \in Bootstrap |-> {}],   \* what a verifier node rejected
     section  |-> <<>>,
     material |-> <<>>,                       \* material_claim_ids
     verified |-> <<>>,                       \* terminal_verification_claim_ids
     claims   |-> {},                         \* claims among admitted_artifacts
     useful   |-> {},                         \* sections with admitted evidence
     terminal |-> "none"]

Open(s) == s.terminal = "none"

RequiredSettled(s) ==
    \A c \in PlanOf(s).required : s.section[c] \in SectionTerminal

\* advance_phase
CanAdvancePhase(s) ==
    /\ Open(s)
    /\ s.phase + 1 \in Phase \ {PlanApproval}
    /\ s.phase + 1 \in {DeterministicMerge, Completion} => RequiredSettled(s)

AdvancedPhase(s) == [s EXCEPT !.phase = @ + 1]

\* approve_work_plan
CanApprove(s, p) ==
    /\ Open(s)
    /\ s.phase = Interpretation
    /\ \A n \in Bootstrap : s.node[n] \in NodeTerminal
    /\ p \in AcceptedPlans

Approved(s, p) ==
    LET nodes == WorkPlan[p].keeps \cup PlanNodes(WorkPlan[p])
        sections == WorkPlan[p].sections
    IN [s EXCEPT
          !.phase    = PlanApproval,
          !.plan     = p,
          !.node     = [n \in nodes |-> IF n \in Bootstrap THEN s.node[n] ELSE "queued"],
          !.rejected = [n \in nodes |-> {}],
          !.section  = WorkPlan[p].begins,
          !.material = [c \in sections |-> {}],
          !.verified = [c \in sections |-> {}]]

\* activate_capability, for a request built for this node
CanActivate(s, n) ==
    /\ Open(s)
    /\ s.node[n] = "queued"
    /\ s.phase \in PhasesOf(s, n)
    /\ \A d \in Needs(s, n) : s.node[d] \in NodeTerminal

Activated(s, N) ==
    [s EXCEPT !.node = [n \in Nodes(s) |-> IF n \in N THEN "active" ELSE @[n]]]

\* The grounded sections that a material claim of node n enters.
ClaimTargets(s, n) == InScope(s, n) \cap PlanOf(s).grounded

\* finish_capability does not raise for result r of node n: the result is
\* legal, a material claim is new and enters open grounded sections, a verdict
\* is about a claim that a section holds and that has no verdict yet.
CanFinish(s, n, r) ==
    /\ Open(s)
    /\ s.node[n] = "active"
    /\ r.legal
    /\ r.claims # {} =>
          /\ r.claims \cap s.claims = {}
          /\ ClaimTargets(s, n) # {}
          /\ \A c \in ClaimTargets(s, n) : s.section[c] \notin SectionTerminal
    /\ \A k \in r.verdicts :
          /\ \E c \in Sections(s) : k \in s.material[c]
          /\ \A c \in Sections(s) : k \notin s.verified[c]

\* finish_capability with _apply_claim_updates
Finished(s, n, r) ==
    [s EXCEPT
        !.node[n]     = r.state,
        !.rejected[n] = r.rejected,
        !.material    = [c \in Sections(s) |->
            IF r.claims # {} /\ c \in ClaimTargets(s, n)
            THEN @[c] \cup r.claims ELSE @[c]],
        !.verified    = [c \in Sections(s) |->
            @[c] \cup (r.verdicts \cap s.material[c])],
        !.claims      = @ \cup r.claims,
        !.useful      = IF r.evidence THEN @ \cup InScope(s, n) ELSE @]

\* transition_section, with the checks of SectionNode on what it returns
CanTransitionSection(s, c, target) ==
    /\ Open(s)
    /\ s.section[c] \in SectionWork
    /\ target \in SectionTransitions[s.section[c]]
    /\ target = "omitted" => c \notin PlanOf(s).required
    /\ target \in Shown /\ c \in PlanOf(s).grounded =>
          s.material[c] \subseteq s.verified[c]

SectionMoved(s, c, target) == [s EXCEPT !.section[c] = target]

\* Variant: a hard cutoff keeps the claims that were not verified.
HardCutoffKeepsClaims(s) ==
    [s EXCEPT !.section = [c \in Sections(s) |->
        IF s.section[c] \in SectionTerminal THEN s.section[c] ELSE "degraded"]]

\* apply_hard_cutoff_to_sections (latency.py), once the hard boundary is reached
HardCutoff(s) ==
    LET open == {c \in Sections(s) : s.section[c] \notin SectionTerminal}
        useful(c) == s.verified[c] # {} \/ c \in s.useful
    IN [s EXCEPT
          !.section  = [c \in Sections(s) |->
              IF c \notin open THEN @[c]
              ELSE IF c \in PlanOf(s).required \/ useful(c) THEN "degraded"
              ELSE "omitted"],
          !.material = [c \in Sections(s) |->
              IF c \in open THEN s.verified[c] ELSE @[c]]]

\* finalize_clarification
CanFinalizeClarification(s) ==
    /\ Open(s)
    /\ s.phase = Interpretation
    /\ \A n \in Bootstrap : s.node[n] \in NodeTerminal
    /\ \E n \in Nodes(s) : s.node[n] = "ambiguous"

\* _is_degraded_completion
DegradedCompletion(s) ==
    \/ \E c \in PlanOf(s).required : s.section[c] \in {"degraded", "cancelled"}
    \/ \E n \in Nodes(s) :
          /\ Role(s, n) \in {"mandatory", "conditional_mandatory"}
          /\ s.node[n] \in Failing \cup {"cancelled", "ambiguous"}

\* _derive_run_terminal_state
DerivedTerminal(s) ==
    IF \A c \in PlanOf(s).required : s.section[c] = "cancelled" THEN "cancelled"
    ELSE IF \E c \in PlanOf(s).required : s.section[c] = "needs_clarification"
    THEN "clarification_result"
    ELSE IF DegradedCompletion(s) THEN "degraded_complete" ELSE "complete"

\* Variant: a run is finalised with work still queued.
CanFinalizeQueued(s) ==
    /\ Open(s)
    /\ s.phase = Completion
    /\ \A c \in Sections(s) : s.section[c] \in SectionTerminal

\* finalize_orchestration
CanFinalize(s) ==
    /\ Open(s)
    /\ s.phase = Completion
    /\ \A n \in Nodes(s) : s.node[n] \in NodeTerminal
    /\ \A c \in Sections(s) : s.section[c] \in SectionTerminal

Finalized(s, terminal) == [s EXCEPT !.terminal = terminal]
==============================================================================
