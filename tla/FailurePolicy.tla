---------------------------- MODULE FailurePolicy ----------------------------
(***************************************************************************)
(* What follows from a capability that failed                              *)
(* (ask/orchestration/failure_policy.py): the signal its result gives, the *)
(* rule for that signal, and whether a decision comes out.  Notices and    *)
(* the wording of fallback actions are left out.                           *)
(***************************************************************************)
EXTENDS OrchestrationMachine

\* Rejected evidence, among what a verifier node rejects.
Evidence == "evidence"

Transient == {"partial"} \cup Failing

\* _failure_signal; "none" where it raises
FailureSignal(s, n) ==
    LET cap == CapabilityOf(s, n)
        rejected == s.rejected[n] \cap Claim
        hit == {c \in Sections(s) : s.material[c] \cap rejected # {}}
    IN IF /\ cap = "evidence_integrity"
          /\ s.node[n] \in Transient \/ Evidence \in s.rejected[n]
       THEN "evidence_rejected"
       ELSE IF cap \in Verifier /\ rejected # {}
       THEN IF hit # {} /\ \A c \in hit : s.material[c] \subseteq rejected
            THEN "all_claims_rejected" ELSE "claim_rejected"
       ELSE IF cap \in Verifier /\ s.node[n] = "no_match" THEN "none"
       ELSE IF s.node[n] \in Transient \cup {"no_match", "ambiguous"} THEN s.node[n]
       ELSE "none"

\* The signals failure_rule knows for a capability.
Eligible(cap) ==
    Transient \cup
    CASE cap \in {"intent_classifier", "entity_resolver"} -> {"ambiguous"}
      [] cap \in {"regulatory_retriever", "knowledge_graph", "timeline_builder",
                  "news_retriever", "general_ai"} -> {"no_match"}
      [] cap \in Verifier ->
            {"evidence_rejected", "claim_rejected", "all_claims_rejected"}
      [] OTHER -> {}

\* Variant: a verifier that failed gets a revision pass as well.
RevisionsForAll(cap, signal) ==
    IF cap \in Verifier /\ signal # "evidence_rejected" THEN 1 ELSE 0

\* max_revision_passes of failure_rule
Revisions(cap, signal) ==
    IF cap \in Verifier /\ signal \in {"partial", "claim_rejected"} THEN 1 ELSE 0

\* The nodes that wait for n, directly or through others.
\* _declared_descendants
Descendants(s, n) ==
    LET closed(N) == \A m \in Nodes(s) :
                        Needs(s, m) \cap (N \cup {n}) # {} => m \in N
    IN {m \in Nodes(s) : \A N \in SUBSET Nodes(s) : closed(N) => m \in N}

\* fallback_node_ids: General AI stands in for the official retriever where the
\* plan lets it wait for it
FallbackNodes(s, n) ==
    IF CapabilityOf(s, n) = "regulatory_retriever" /\ FailureSignal(s, n) # "partial"
    THEN {m \in Descendants(s, n) :
             /\ CapabilityOf(s, m) = "general_ai"
             /\ Role(s, m) \in {"conditional_mandatory", "fallback"}}
    ELSE {}

\* _propagated_descendants, where the rule propagates
PropagatedNodes(s, n) ==
    LET stop == FallbackNodes(s, n)
        closed(N) == \A m \in Nodes(s) \ stop :
                        Needs(s, m) \cap (N \cup {n}) # {} => m \in N
    IN IF CapabilityOf(s, n) \in
             {"intent_classifier", "entity_resolver", "regulatory_retriever"}
       THEN {m \in Nodes(s) \ stop :
                \A N \in SUBSET (Nodes(s) \ stop) : closed(N) => m \in N}
       ELSE {}

\* The failure rule has an entry for what this node reports.
RuleApplies(s, n) ==
    /\ s.node[n] \in NodeTerminal
    /\ FailureSignal(s, n) \in Eligible(CapabilityOf(s, n))

\* decide_failure_transition returns: the rule has an entry, and the decision
\* passes validate_isolation, which allows a revision for a rejected claim only.
\* What else that asks of the sets of nodes and sections holds by the way they
\* are built.
Decides(s, n) ==
    /\ RuleApplies(s, n)
    /\ Revisions(CapabilityOf(s, n), FailureSignal(s, n)) = 1
          => FailureSignal(s, n) = "claim_rejected"

\* _validate_retry_node (retry.py): the node may be tried again by itself
Retryable(s, n) ==
    /\ CapabilityOf(s, n) \in
          Verifier \cup {"regulatory_retriever", "news_retriever", "general_ai"}
    /\ s.node[n] \in Failing
==============================================================================
