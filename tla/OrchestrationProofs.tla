------------------------- MODULE OrchestrationProofs -------------------------
(***************************************************************************)
(* Proofs about an answer: the state machine and the scheduler of its      *)
(* orchestration, for any plans, bindings, limits and faults; what may be  *)
(* published of it; and the policies on what it may say.                   *)
(*                                                                         *)
(* A call of the scheduler works on a copy of the caller's state.  Both    *)
(* are sound states of the machine, and the copy differs only in nodes     *)
(* that the caller has queued (SchedulerInv).  The results of a wave are   *)
(* applied by a recursion, whose solution is found by counting up.  That   *)
(* an orderly run drains follows from the phases of a capability, which    *)
(* are an interval, and from dependencies without a cycle.                 *)
(*                                                                         *)
(* Published prose carries what was admitted and verified for it           *)
(* (PublicationInv); a family that only grows by later days decides as     *)
(* before about earlier ones.  Scores are sums, which are compared by an   *)
(* induction over the subsets of a finite set.  At the end the composition *)
(* MCOrchestration, whose behaviours are those of the three parts.         *)
(***************************************************************************)
EXTENDS MCOrchestration, FiniteSetTheorems, WellFoundedInduction, TLAPS

\* The nodes and sections of a state are those of the plan it has approved.
NodesOf(i) ==
    IF i = NoPlan THEN Bootstrap ELSE WorkPlan[i].keeps \cup PlanNodes(WorkPlan[i])
SectionsOf(i) == IF i = NoPlan THEN {} ELSE WorkPlan[i].sections

\* A state of a run: every field has its type, and the nodes and sections are
\* those of the plan.
MachineState(s) ==
    /\ s = [phase |-> s.phase, plan |-> s.plan, entity |-> s.entity, node |-> s.node,
            rejected |-> s.rejected, section |-> s.section, material |-> s.material,
            verified |-> s.verified, claims |-> s.claims, useful |-> s.useful,
            terminal |-> s.terminal]
    /\ s.phase \in Phase
    /\ s.plan \in AcceptedPlans \cup {NoPlan} /\ s.entity \in EntityRole
    /\ s.plan = NoPlan <=> s.phase <= Interpretation
    /\ s.node \in [NodesOf(s.plan) -> NodeState]
    /\ s.section \in [SectionsOf(s.plan) -> SectionWork \cup SectionTerminal]
    /\ s.material = [c \in SectionsOf(s.plan) |-> s.material[c]]
    /\ s.verified = [c \in SectionsOf(s.plan) |-> s.verified[c]]
    /\ \A c \in SectionsOf(s.plan) :
          s.verified[c] \subseteq s.material[c] /\ s.material[c] \subseteq s.claims

\* A grounded section that is shown holds verified claims only.
ShownIsVerified(s) ==
    \A c \in Sections(s) :
        c \in PlanOf(s).grounded /\ s.section[c] \in Shown
            => s.material[c] \subseteq s.verified[c]

\* A plan is approved after both bootstrap nodes.
Interpreted(s) ==
    s.plan # NoPlan => \A n \in Bootstrap \cap Nodes(s) : s.node[n] \in NodeTerminal

\* A run that has ended leaves no open work.
Settled(s) ==
    s.terminal # "none" =>
        /\ \A n \in Nodes(s) : s.node[n] \in NodeTerminal
        /\ \A c \in Sections(s) : s.section[c] \in SectionTerminal
        /\ s.terminal = "clarification_result" \/ s.phase = Completion

SoundState(s) == MachineState(s) /\ ShownIsVerified(s) /\ Interpreted(s) /\ Settled(s)

-----------------------------------------------------------------------------
(* The state machine.                                                       *)

LEMMA Words ==
    /\ "queued" \notin NodeTerminal /\ "active" \notin NodeTerminal
    /\ "skipped" \in NodeTerminal /\ Reported \subseteq NodeTerminal
    /\ NodeState = NodeTerminal \cup {"queued", "active"}
    /\ SectionWork \cap SectionTerminal = {}
    /\ "planned" \in SectionWork /\ Shown \subseteq SectionTerminal
    /\ "degraded" \in SectionTerminal /\ "omitted" \in SectionTerminal
    /\ "omitted" \notin Shown
    /\ "intent" \in Bootstrap /\ "entity" \in Bootstrap /\ Bootstrap = {"intent", "entity"}
BY DEF NodeTerminal, Reported, NodeState, Failing, SectionWork, SectionTransitions,
       SectionTerminal, Shown, Bootstrap

LEMMA Phases ==
    /\ Phase = 0..9 /\ Interpretation = 1 /\ RequestScope = 0 /\ PlanApproval = 2
    /\ DeterministicMerge = 8 /\ Completion = 9
BY DEF Phase, Interpretation, RequestScope, PlanApproval, DeterministicMerge, Completion

\* initialize_orchestration, and each transition of state_machine.py keeps a
\* state sound.
LEMMA InitialIsSound ==
    ASSUME NEW role \in EntityRole, NEW s, s = InitialOrchestration(role)
    PROVE  /\ SoundState(s)
           /\ Nodes(s) = Bootstrap /\ s.phase = 0 /\ s.plan = NoPlan
           /\ \A n \in Bootstrap : s.node[n] \in {"queued", "skipped"}
<1> DEFINE entity == IF role = "skipped" THEN "skipped" ELSE "queued"
<1>0. /\ s.node = [intent |-> "queued", entity |-> entity] /\ s.entity = role
      /\ s = [phase |-> 0, plan |-> NoPlan, entity |-> role, node |-> s.node,
              rejected |-> [n \in Bootstrap |-> {}], section |-> <<>>, material |-> <<>>,
              verified |-> <<>>, claims |-> {}, useful |-> {}, terminal |-> "none"]
    BY DEF InitialOrchestration, RequestScope
<1>1. /\ s.node \in [Bootstrap -> NodeState] /\ DOMAIN s.node = Bootstrap
      /\ \A n \in Bootstrap : s.node[n] \in {"queued", "skipped"}
      /\ s.phase = 0 /\ s.plan = NoPlan /\ s.section = <<>> /\ s.material = <<>>
      /\ s.verified = <<>> /\ s.terminal = "none"
    BY <1>0, Words
<1>2. NodesOf(s.plan) = Bootstrap /\ SectionsOf(s.plan) = {}
    BY <1>1 DEF NodesOf, SectionsOf
<1>3. <<>> \in [{} -> SectionWork \cup SectionTerminal] /\ DOMAIN <<>> = {}
    OBVIOUS
<1>4. <<>> = [c \in {} |-> <<>>[c]]
    OBVIOUS
<1>5. MachineState(s)
    BY <1>0, <1>1, <1>2, <1>3, <1>4, Words, Phases DEF MachineState
<1> QED
    BY <1>1, <1>3, <1>5 DEF SoundState, ShownIsVerified, Interpreted, Settled, Sections, Nodes

LEMMA AdvancedIsSound ==
    ASSUME NEW s, SoundState(s), CanAdvancePhase(s), NEW t, t = AdvancedPhase(s)
    PROVE  /\ SoundState(t)
           /\ t = [s EXCEPT !.phase = s.phase + 1] /\ t.phase = s.phase + 1
           /\ t.plan = s.plan /\ t.node = s.node /\ t.section = s.section
           /\ t.terminal = s.terminal /\ s.terminal = "none"
<1>1. /\ t.phase = s.phase + 1 /\ t = [s EXCEPT !.phase = s.phase + 1]
      /\ t.plan = s.plan /\ t.node = s.node /\ t.section = s.section
      /\ t.material = s.material /\ t.verified = s.verified /\ t.claims = s.claims
      /\ t.terminal = s.terminal /\ s.terminal = "none"
      /\ t.entity = s.entity
      /\ t = [phase |-> t.phase, plan |-> t.plan, entity |-> t.entity, node |-> t.node,
            rejected |-> t.rejected, section |-> t.section, material |-> t.material,
            verified |-> t.verified, claims |-> t.claims, useful |-> t.useful,
            terminal |-> t.terminal]
    BY DEF AdvancedPhase, CanAdvancePhase, Open, SoundState, MachineState
<1>2. t.phase \in Phase /\ (t.phase <= Interpretation <=> s.phase <= Interpretation)
    BY <1>1, Phases DEF CanAdvancePhase, SoundState, MachineState
<1>3. MachineState(t)
    BY <1>1, <1>2 DEF SoundState, MachineState
<1> QED
    BY <1>1, <1>3 DEF SoundState, ShownIsVerified, Interpreted, Settled, Nodes, Sections, PlanOf

\* What a plan that was accepted has.
LEMMA PlanFacts ==
    ASSUME NEW p \in AcceptedPlans
    PROVE  /\ p \in DOMAIN WorkPlan /\ p # NoPlan
           /\ NodesOf(p) = WorkPlan[p].keeps \cup PlanNodes(WorkPlan[p])
           /\ WorkPlan[p].keeps \subseteq Bootstrap
           /\ WorkPlan[p].begins \in [WorkPlan[p].sections -> SectionWork \cup SectionTerminal]
           /\ SectionsOf(p) = WorkPlan[p].sections
           /\ PlanNodes(WorkPlan[p]) \cap Bootstrap = {}
           /\ WorkPlan[p].order \in Seq(PlanNodes(WorkPlan[p]))
           /\ WorkPlan[p].capability \in [PlanNodes(WorkPlan[p]) -> Capability]
           /\ \A n \in PlanNodes(WorkPlan[p]) :
                 WorkPlan[p].needs[n] \subseteq PlanNodes(WorkPlan[p])
           /\ \A i, j \in DOMAIN WorkPlan[p].order :
                 WorkPlan[p].order[i] = WorkPlan[p].order[j] => i = j
           /\ Acyclic(WorkPlan[p])
<1>1. p \in DOMAIN WorkPlan /\ p # NoPlan /\ Accepted(WorkPlan[p])
    BY PlanAssumption DEF AcceptedPlans
<1> QED
    BY <1>1, PlanAssumption DEF NodesOf, SectionsOf, Accepted

LEMMA ApprovedIsSound ==
    ASSUME NEW s, NEW p, NEW t, SoundState(s), CanApprove(s, p), t = Approved(s, p)
    PROVE  /\ SoundState(t)
           /\ s.plan = NoPlan /\ s.terminal = "none" /\ s.phase = Interpretation
           /\ t.phase = PlanApproval /\ t.plan = p /\ p \in AcceptedPlans
           /\ t.terminal = "none"
           /\ Nodes(t) = WorkPlan[p].keeps \cup PlanNodes(WorkPlan[p])
           /\ \A n \in Bootstrap \cap Nodes(t) : t.node[n] = s.node[n]
           /\ \A n \in Nodes(t) : n \notin Bootstrap => t.node[n] = "queued"
           /\ \A n \in Bootstrap : s.node[n] \in NodeTerminal
<1>1. /\ p \in AcceptedPlans /\ s.terminal = "none" /\ s.phase = 1
      /\ \A n \in Bootstrap : s.node[n] \in NodeTerminal
    BY Phases DEF CanApprove, Open
<1>2. s.plan = NoPlan
    BY <1>1, Phases DEF SoundState, MachineState
<1>3. /\ t.phase = 2 /\ t.plan = p /\ t.terminal = "none"
      /\ t.node = [n \in WorkPlan[p].keeps \cup PlanNodes(WorkPlan[p]) |->
                     IF n \in Bootstrap THEN s.node[n] ELSE "queued"]
      /\ t.section = WorkPlan[p].begins /\ t.entity \in EntityRole
      /\ t.material = [c \in WorkPlan[p].sections |-> {}]
      /\ t.verified = [c \in WorkPlan[p].sections |-> {}]
      /\ t = [phase |-> t.phase, plan |-> t.plan, entity |-> t.entity, node |-> t.node,
            rejected |-> t.rejected, section |-> t.section, material |-> t.material,
            verified |-> t.verified, claims |-> t.claims, useful |-> t.useful,
            terminal |-> t.terminal]
    BY <1>1, Phases DEF Approved, SoundState, MachineState
<1>4. t.node \in [NodesOf(p) -> NodeState]
    BY <1>1, <1>3, PlanFacts, Words
<1>5. /\ t.section \in [SectionsOf(p) -> SectionWork \cup SectionTerminal]
      /\ t.material = [c \in SectionsOf(p) |-> t.material[c]]
      /\ t.verified = [c \in SectionsOf(p) |-> t.verified[c]]
      /\ \A c \in SectionsOf(p) :
            t.verified[c] \subseteq t.material[c] /\ t.material[c] \subseteq t.claims
    BY <1>1, <1>3, PlanFacts, Words
<1>6. MachineState(t)
    BY <1>1, <1>3, <1>4, <1>5, PlanFacts, Phases DEF MachineState
<1>7. ShownIsVerified(t)
    BY <1>1, <1>3, PlanFacts DEF ShownIsVerified, Sections
<1>8. Interpreted(t)
    BY <1>1, <1>3 DEF Interpreted, Nodes
<1> QED
    BY <1>1, <1>2, <1>3, <1>6, <1>7, <1>8, Phases DEF SoundState, Settled, Nodes, Sections

LEMMA ActivatedIsSound ==
    ASSUME NEW s, NEW N, NEW t, SoundState(s), Open(s), t = Activated(s, N),
           \A n \in N : n \in Nodes(s) /\ s.node[n] = "queued"
    PROVE  /\ SoundState(t)
           /\ t.phase = s.phase /\ t.plan = s.plan /\ t.section = s.section
           /\ t.terminal = s.terminal
           /\ Nodes(t) = Nodes(s)
           /\ \A n \in Nodes(s) :
                 t.node[n] = IF n \in N THEN "active" ELSE s.node[n]
<1>1. /\ t.phase = s.phase /\ t.plan = s.plan /\ t.section = s.section
      /\ t.material = s.material /\ t.verified = s.verified /\ t.claims = s.claims
      /\ t.terminal = s.terminal /\ s.terminal = "none"
      /\ t.node = [n \in Nodes(s) |-> IF n \in N THEN "active" ELSE s.node[n]]
      /\ t.entity = s.entity
      /\ t = [phase |-> t.phase, plan |-> t.plan, entity |-> t.entity, node |-> t.node,
            rejected |-> t.rejected, section |-> t.section, material |-> t.material,
            verified |-> t.verified, claims |-> t.claims, useful |-> t.useful,
            terminal |-> t.terminal]
    BY DEF Activated, Open, SoundState, MachineState
<1>2. t.node \in [NodesOf(t.plan) -> NodeState]
    BY <1>1, Words DEF SoundState, MachineState, Nodes
<1>3. MachineState(t)
    BY <1>1, <1>2 DEF SoundState, MachineState
<1>4. Interpreted(t)
    BY <1>1, Words DEF SoundState, MachineState, Interpreted, NodesOf, Nodes
<1>5. ShownIsVerified(t)
    BY <1>1 DEF SoundState, ShownIsVerified, Sections, PlanOf
<1> QED
    BY <1>1, <1>3, <1>4, <1>5 DEF SoundState, Settled, Nodes

LEMMA FinishedIsSound ==
    ASSUME NEW s, SoundState(s), Open(s), NEW n \in Nodes(s), s.node[n] = "active",
           NEW r, r.state \in NodeTerminal,
           CanFinish(s, n, r) \/ (r.claims = {} /\ r.verdicts = {}),
           NEW t, t = Finished(s, n, r)
    PROVE  /\ SoundState(t)
           /\ t.phase = s.phase /\ t.plan = s.plan /\ t.section = s.section
           /\ t.terminal = s.terminal
           /\ t.node = [s.node EXCEPT ![n] = r.state]
<1>1. /\ t.phase = s.phase /\ t.plan = s.plan /\ t.section = s.section
      /\ t.terminal = s.terminal /\ s.terminal = "none"
      /\ t.node = [s.node EXCEPT ![n] = r.state]
      /\ t.claims = s.claims \cup r.claims
      /\ t.entity = s.entity
      /\ t = [phase |-> t.phase, plan |-> t.plan, entity |-> t.entity, node |-> t.node,
            rejected |-> t.rejected, section |-> t.section, material |-> t.material,
            verified |-> t.verified, claims |-> t.claims, useful |-> t.useful,
            terminal |-> t.terminal]
    BY DEF Finished, Open, SoundState, MachineState
<1>2. /\ t.material = [c \in Sections(s) |->
                        IF r.claims # {} /\ c \in ClaimTargets(s, n)
                        THEN s.material[c] \cup r.claims ELSE s.material[c]]
      /\ t.verified = [c \in Sections(s) |->
                        s.verified[c] \cup (r.verdicts \cap s.material[c])]
    BY DEF Finished, SoundState, MachineState
<1>3. t.node \in [NodesOf(t.plan) -> NodeState]
    BY <1>1, Words DEF SoundState, MachineState, Nodes
<1>4. Sections(s) = SectionsOf(s.plan) /\ Sections(t) = SectionsOf(s.plan)
    BY <1>1 DEF SoundState, MachineState, Sections
<1>5. \A c \in SectionsOf(s.plan) :
          t.verified[c] \subseteq t.material[c] /\ t.material[c] \subseteq t.claims
    BY <1>1, <1>2, <1>4 DEF SoundState, MachineState
<1>6. MachineState(t)
    BY <1>1, <1>2, <1>3, <1>4, <1>5 DEF SoundState, MachineState
<1>7. Interpreted(t)
    BY <1>1, Words DEF SoundState, MachineState, Interpreted, NodesOf, Nodes
<1>8. ShownIsVerified(t)
  <2> SUFFICES ASSUME NEW c \in SectionsOf(s.plan), c \in PlanOf(s).grounded,
                      s.section[c] \in Shown
               PROVE  t.material[c] \subseteq t.verified[c]
    BY <1>1, <1>4 DEF ShownIsVerified, PlanOf
  <2>1. s.material[c] \subseteq s.verified[c]
    BY <1>4 DEF SoundState, ShownIsVerified
  <2>2. ~(r.claims # {} /\ c \in ClaimTargets(s, n))
    BY Words DEF CanFinish
  <2> QED
    BY <1>2, <1>4, <2>1, <2>2
<1> QED
    BY <1>1, <1>6, <1>7, <1>8 DEF SoundState, Settled

LEMMA SectionMovedIsSound ==
    ASSUME NEW s, NEW c, NEW target, NEW t, SoundState(s), c \in Sections(s),
           target \in SectionWork \cup SectionTerminal,
           CanTransitionSection(s, c, target), t = SectionMoved(s, c, target)
    PROVE  /\ SoundState(t)
           /\ t.phase = s.phase /\ t.plan = s.plan /\ t.node = s.node
           /\ t.terminal = s.terminal /\ s.terminal = "none"
           /\ s.section[c] \in SectionWork
           /\ Sections(t) = Sections(s) /\ t.section[c] = target
           /\ \A d \in Sections(s) : d # c => t.section[d] = s.section[d]
<1>1. /\ t.phase = s.phase /\ t.plan = s.plan /\ t.node = s.node
      /\ t.terminal = s.terminal /\ s.terminal = "none"
      /\ t.material = s.material /\ t.verified = s.verified /\ t.claims = s.claims
      /\ s.section[c] \in SectionWork
      /\ t.section = [s.section EXCEPT ![c] = target]
      /\ t.entity = s.entity
      /\ t = [phase |-> t.phase, plan |-> t.plan, entity |-> t.entity, node |-> t.node,
            rejected |-> t.rejected, section |-> t.section, material |-> t.material,
            verified |-> t.verified, claims |-> t.claims, useful |-> t.useful,
            terminal |-> t.terminal]
    BY DEF SectionMoved, CanTransitionSection, Open, SoundState, MachineState
<1>2. MachineState(t)
    BY <1>1 DEF SoundState, MachineState, Sections
<1>3. ShownIsVerified(t)
    BY <1>1 DEF SoundState, MachineState, ShownIsVerified, CanTransitionSection, Sections, PlanOf
<1>4. Interpreted(t)
    BY <1>1 DEF SoundState, Interpreted, Nodes
<1>5. /\ Sections(t) = Sections(s) /\ t.section[c] = target
      /\ \A d \in Sections(s) : d # c => t.section[d] = s.section[d]
    BY <1>1 DEF Sections, SoundState, MachineState
<1> QED
    BY <1>1, <1>2, <1>3, <1>4, <1>5 DEF SoundState, Settled

LEMMA CutOffIsSound ==
    ASSUME NEW s, SoundState(s), NEW t, t = HardCutoff(s), t # s
    PROVE  /\ SoundState(t)
           /\ t.phase = s.phase /\ t.plan = s.plan /\ t.node = s.node
           /\ t.terminal = s.terminal /\ s.terminal = "none"
           /\ DOMAIN t.section = DOMAIN s.section
           /\ \A c \in Sections(s) : t.section[c] \in SectionTerminal
<1> DEFINE open == {c \in Sections(s) : s.section[c] \notin SectionTerminal}
<1>1. /\ t.phase = s.phase /\ t.plan = s.plan /\ t.node = s.node
      /\ t.terminal = s.terminal /\ t.rejected = s.rejected /\ t.useful = s.useful
      /\ t.verified = s.verified /\ t.claims = s.claims
      /\ t.entity = s.entity
      /\ t = [phase |-> t.phase, plan |-> t.plan, entity |-> t.entity, node |-> t.node,
            rejected |-> t.rejected, section |-> t.section, material |-> t.material,
            verified |-> t.verified, claims |-> t.claims, useful |-> t.useful,
            terminal |-> t.terminal]
    BY DEF HardCutoff, SoundState, MachineState
<1>2. /\ DOMAIN t.section = Sections(s)
      /\ \A c \in Sections(s) :
            IF c \in open THEN t.section[c] \in {"degraded", "omitted"}
            ELSE t.section[c] = s.section[c]
      /\ t.section = [c \in Sections(s) |-> t.section[c]]
    BY DEF HardCutoff, SoundState, MachineState
<1>3. t.material = [c \in Sections(s) |->
              IF c \in open THEN s.verified[c] ELSE s.material[c]]
    BY DEF HardCutoff, SoundState, MachineState
<1>4. Sections(s) = SectionsOf(s.plan) /\ Sections(t) = SectionsOf(s.plan)
    BY <1>1, <1>2 DEF SoundState, MachineState, Sections
<1>5. \A c \in Sections(s) : t.section[c] \in SectionTerminal
    BY <1>2, Words
<1>6. s.terminal = "none"
  <2> SUFFICES ASSUME s.terminal # "none" PROVE FALSE
    OBVIOUS
  <2>1. open = {}
    BY DEF SoundState, Settled
  <2>2. t.section = s.section
    BY <1>2, <1>4, <2>1 DEF SoundState, MachineState
  <2>3. t.material = s.material
    BY <1>3, <1>4, <2>1 DEF SoundState, MachineState
  <2>4. s = [phase |-> s.phase, plan |-> s.plan, entity |-> s.entity, node |-> s.node,
            rejected |-> s.rejected, section |-> s.section, material |-> s.material,
            verified |-> s.verified, claims |-> s.claims, useful |-> s.useful,
            terminal |-> s.terminal]
    BY DEF SoundState, MachineState
  <2> QED
    BY <1>1, <2>2, <2>3, <2>4
<1>7. \A c \in SectionsOf(s.plan) :
          t.verified[c] \subseteq t.material[c] /\ t.material[c] \subseteq t.claims
    BY <1>1, <1>3, <1>4 DEF SoundState, MachineState
<1>8. t.section \in [SectionsOf(s.plan) -> SectionWork \cup SectionTerminal]
    BY <1>2, <1>4, <1>5
<1>9. t.material = [c \in SectionsOf(s.plan) |-> t.material[c]]
    BY <1>3, <1>4
<1>10. MachineState(t)
    BY <1>1, <1>7, <1>8, <1>9 DEF SoundState, MachineState
<1>11. ShownIsVerified(t)
    BY <1>1, <1>2, <1>3, <1>4 DEF SoundState, ShownIsVerified, PlanOf
<1>12. Interpreted(t)
    BY <1>1 DEF SoundState, Interpreted, Nodes
<1> QED
    BY <1>1, <1>2, <1>5, <1>6, <1>10, <1>11, <1>12 DEF SoundState, Settled, Sections

LEMMA FinalizedIsSound ==
    ASSUME NEW s, SoundState(s), NEW terminal, NEW t, t = Finalized(s, terminal),
           \/ CanFinalizeClarification(s) /\ terminal = "clarification_result"
           \/ CanFinalize(s)
    PROVE  /\ SoundState(t)
           /\ t.phase = s.phase /\ t.plan = s.plan /\ t.node = s.node
           /\ t.section = s.section /\ t.terminal = terminal /\ s.terminal = "none"
           /\ \A n \in Nodes(s) : s.node[n] \in NodeTerminal
           /\ \A c \in Sections(s) : s.section[c] \in SectionTerminal
           /\ terminal = "clarification_result" \/ s.phase = Completion
<1>1. /\ t.phase = s.phase /\ t.plan = s.plan /\ t.node = s.node
      /\ t.terminal = terminal /\ t.section = s.section
      /\ t.material = s.material /\ t.verified = s.verified /\ t.claims = s.claims
      /\ t.entity = s.entity
      /\ t = [phase |-> t.phase, plan |-> t.plan, entity |-> t.entity, node |-> t.node,
            rejected |-> t.rejected, section |-> t.section, material |-> t.material,
            verified |-> t.verified, claims |-> t.claims, useful |-> t.useful,
            terminal |-> t.terminal]
    BY DEF Finalized, SoundState, MachineState
<1>2. s.terminal = "none"
    BY DEF CanFinalize, CanFinalizeClarification, Open
<1>3. /\ \A n \in Nodes(s) : s.node[n] \in NodeTerminal
      /\ \A c \in Sections(s) : s.section[c] \in SectionTerminal
      /\ terminal = "clarification_result" \/ s.phase = Completion
  <2>1. CASE CanFinalize(s)
    BY <2>1 DEF CanFinalize
  <2>2. CASE CanFinalizeClarification(s) /\ terminal = "clarification_result"
    <3>1. s.phase = 1 /\ \A n \in Bootstrap : s.node[n] \in NodeTerminal
      BY <2>2, Phases DEF CanFinalizeClarification
    <3>2. s.plan = NoPlan
      BY <3>1, Phases DEF SoundState, MachineState
    <3>3. Nodes(s) = Bootstrap /\ Sections(s) = {}
      BY <3>2 DEF SoundState, MachineState, NodesOf, SectionsOf, Nodes, Sections
    <3> QED
      BY <2>2, <3>1, <3>3
  <2> QED
    BY <2>1, <2>2
<1>4. MachineState(t)
    BY <1>1 DEF SoundState, MachineState
<1>5. ShownIsVerified(t) /\ Interpreted(t)
    BY <1>1 DEF SoundState, ShownIsVerified, Interpreted, Nodes, Sections, PlanOf
<1> QED
    BY <1>1, <1>2, <1>3, <1>4, <1>5 DEF SoundState, Settled, Nodes, Sections

-----------------------------------------------------------------------------
(* The results of a wave.                                                   *)

\* Counting up to L from 0 reaches every number up to L.
LEMMA CountingUp ==
    ASSUME NEW L \in Nat, NEW S, 0 \in S,
           \A k \in 0..L : k \in S /\ k < L => k + 1 \in S
    PROVE  \A k \in 0..L : k \in S
<1> DEFINE T == {k \in 0..L : k \notin S}
<1>1. SUFFICES ASSUME T # {} PROVE FALSE
    OBVIOUS
<1>2. T \subseteq Nat
    OBVIOUS
<1>3. PICK m \in T : \A k \in T : ~(<<k, m>> \in OpToRel(<, Nat))
    BY <1>1, <1>2, WFMin, NatLessThanWellFounded
<1>4. \A k \in T : ~(k < m)
    BY <1>2, <1>3 DEF OpToRel
<1>5. m \in 0..L /\ m \notin S /\ m # 0
    BY <1>3
<1>6. m - 1 \in 0..L /\ m - 1 < m /\ m - 1 < L /\ (m - 1) + 1 = m
    BY <1>5
<1>7. m - 1 \in S
    BY <1>4, <1>6
<1> QED
    BY <1>5, <1>6, <1>7

\* The wave of the call that is executing: its nodes are those that are active,
\* and what they come back with ends them.
WaveOK ==
    /\ DOMAIN wave = {n \in Nodes(cur) : cur.node[n] = "active"}
    /\ \A n \in DOMAIN wave :
          /\ wave[n] = [stage |-> wave[n].stage, result |-> wave[n].result]
          /\ Stage(n) \in Stages
          /\ wave[n].result.state \in NodeTerminal

\* A node gets what it came back with, or the fixed result; where nobody can
\* disagree about it, what it came back with.
Outcome(x, r) ==
    /\ x \in {r.state, "invalid_output"}
    /\ r.legal /\ r.claims = {} /\ r.verdicts = {} => x = r.state

\* The state after the results of the first k nodes.
Halfway(s, k) ==
    /\ SoundState(s)
    /\ s.phase = cur.phase /\ s.plan = cur.plan /\ s.section = cur.section
    /\ s.terminal = cur.terminal /\ Nodes(s) = Nodes(cur)
    /\ \A n \in Nodes(cur) :
          IF n \in DOMAIN wave /\ \E i \in 1..k : Order(cur)[i] = n
          THEN Outcome(s.node[n], wave[n].result) ELSE s.node[n] = cur.node[n]

LEMMA OrderFacts ==
    ASSUME SoundState(cur), WaveOK
    PROVE  /\ Len(Order(cur)) \in Nat
           /\ \A n \in DOMAIN wave : \E i \in 1..Len(Order(cur)) : Order(cur)[i] = n
           /\ \A i, j \in 1..Len(Order(cur)) : Order(cur)[i] = Order(cur)[j] => i = j
<1>1. CASE cur.plan = NoPlan
  <2>1. Order(cur) = <<"intent", "entity">>
    BY <1>1 DEF Order
  <2>2. Nodes(cur) = {"intent", "entity"}
    BY <1>1, Words DEF SoundState, MachineState, NodesOf, Nodes
  <2>3. DOMAIN wave \subseteq {"intent", "entity"}
    BY <2>2 DEF WaveOK
  <2>4. /\ Len(Order(cur)) = 2 /\ Order(cur)[1] = "intent" /\ Order(cur)[2] = "entity"
    BY <2>1
  <2>5. 1 \in 1..2 /\ 2 \in 1..2 /\ \A i \in 1..2 : i = 1 \/ i = 2
    OBVIOUS
  <2> QED
    BY <2>3, <2>4, <2>5
<1>2. CASE cur.plan # NoPlan
  <2> DEFINE p == WorkPlan[cur.plan]
  <2>1. cur.plan \in AcceptedPlans
    BY <1>2 DEF SoundState, MachineState
  <2>2. Order(cur) = p.order
    BY <1>2 DEF Order, PlanOf
  <2>3. /\ p.order \in Seq(PlanNodes(p))
        /\ \A i, j \in DOMAIN p.order : p.order[i] = p.order[j] => i = j
    BY <2>1, PlanFacts
  <2>4. Len(p.order) \in Nat /\ DOMAIN p.order = 1..Len(p.order)
    BY <2>3
  <2>5. Nodes(cur) \subseteq (Bootstrap \cap Nodes(cur)) \cup PlanNodes(p)
    BY <2>1, PlanFacts DEF SoundState, MachineState, Nodes
  <2>6. \A n \in DOMAIN wave : n \in PlanNodes(p)
    BY <1>2, <2>5, Words DEF WaveOK, SoundState, Interpreted
  <2>7. \A n \in PlanNodes(p) : \E i \in DOMAIN p.order : p.order[i] = n
    BY DEF PlanNodes, ToSet
  <2> QED
    BY <2>2, <2>3, <2>4, <2>6, <2>7
<1> QED
    BY <1>1, <1>2

LEMMA ApplyStep ==
    ASSUME SoundState(cur), Open(cur), WaveOK,
           NEW k \in 0..Len(Order(cur)), k < Len(Order(cur)), NEW s, Halfway(s, k),
           NEW t, t = IF Order(cur)[k + 1] \in DOMAIN wave
                      THEN Apply(s, Order(cur)[k + 1]) ELSE s
    PROVE  Halfway(t, k + 1)
<1> DEFINE n == Order(cur)[k + 1]
<1>1. /\ Len(Order(cur)) \in Nat
      /\ \A i, j \in 1..Len(Order(cur)) : Order(cur)[i] = Order(cur)[j] => i = j
    BY OrderFacts
<1>2. k \in Nat /\ k + 1 \in 1..Len(Order(cur)) /\ 1..(k + 1) = (1..k) \cup {k + 1}
    BY <1>1
<1>3. \A i \in 1..k : i \in 1..Len(Order(cur)) /\ i # k + 1
    BY <1>1, <1>2
<1>4. ~ \E i \in 1..k : Order(cur)[i] = n
    BY <1>1, <1>2, <1>3
<1>5. \A m : (\E i \in 1..(k + 1) : Order(cur)[i] = m)
                <=> (\E i \in 1..k : Order(cur)[i] = m) \/ m = n
    BY <1>2
<1>6. CASE n \notin DOMAIN wave
  <2>1. t = s
    BY <1>6
  <2> QED
    BY <1>5, <1>6, <2>1 DEF Halfway
<1>7. CASE n \in DOMAIN wave
  <2> DEFINE r == wave[n].result
  <2>1. n \in Nodes(cur) /\ cur.node[n] = "active" /\ r.state \in NodeTerminal
    BY <1>7 DEF WaveOK
  <2>2. s.node[n] = "active" /\ n \in Nodes(s) /\ SoundState(s) /\ Open(s)
    BY <1>4, <2>1 DEF Halfway, Open
  <2>3. t = Apply(s, n)
    BY <1>7
  <2>4. PICK x : /\ t = Finished(s, n, x) /\ x.state \in NodeTerminal
                 /\ CanFinish(s, n, x) \/ (x.claims = {} /\ x.verdicts = {})
                 /\ Outcome(x.state, r)
    <3>1. CASE CanFinish(s, n, r)
      <4>1. t = Finished(s, n, r)
        BY <2>3, <3>1 DEF Apply
      <4>2. Outcome(r.state, r)
        BY DEF Outcome
      <4> QED
        BY <2>1, <3>1, <4>1, <4>2
    <3>2. CASE ~CanFinish(s, n, r)
      <4> DEFINE f == Failure("invalid_output")
      <4>1. t = Finished(s, n, f)
        BY <2>3, <3>2 DEF Apply
      <4>2. f.state = "invalid_output" /\ f.claims = {} /\ f.verdicts = {}
        BY DEF Failure
      <4>3. "invalid_output" \in NodeTerminal
        BY DEF NodeTerminal, Reported, Failing
      <4>4. ~(r.legal /\ r.claims = {} /\ r.verdicts = {})
        BY <2>2, <3>2 DEF CanFinish
      <4>5. Outcome(f.state, r)
        BY <4>2, <4>4 DEF Outcome
      <4> QED
        BY <4>1, <4>2, <4>3, <4>5
    <3> QED
      BY <3>1, <3>2
  <2>5. /\ SoundState(t)
        /\ t.phase = s.phase /\ t.plan = s.plan /\ t.section = s.section
        /\ t.terminal = s.terminal
        /\ t.node = [s.node EXCEPT ![n] = x.state]
    BY <2>2, <2>4, FinishedIsSound
  <2>6. Nodes(t) = Nodes(s)
    BY <2>5 DEF Nodes
  <2>7. s.node = [m \in Nodes(s) |-> s.node[m]]
    BY <2>2 DEF SoundState, MachineState, Nodes
  <2>8. t.node[n] = x.state /\ \A m \in Nodes(s) : m # n => t.node[m] = s.node[m]
    BY <2>2, <2>5, <2>7
  <2>9. ASSUME NEW m \in Nodes(cur)
        PROVE  IF m \in DOMAIN wave /\ \E i \in 1..(k + 1) : Order(cur)[i] = m
               THEN Outcome(t.node[m], wave[m].result) ELSE t.node[m] = cur.node[m]
    <3>1. CASE m = n
      BY <1>5, <1>7, <2>4, <2>8, <3>1
    <3>2. CASE m # n
      BY <1>5, <2>8, <3>2 DEF Halfway
    <3> QED
      BY <3>1, <3>2
  <2> QED
    BY <2>5, <2>6, <2>9 DEF Halfway
<1> QED
    BY <1>6, <1>7

\* The recursion by which the results of a wave are applied has a solution, and
\* its last value is the outcome of all of them.
LEMMA AfterWaveIsSound ==
    ASSUME SoundState(cur), Open(cur), WaveOK
    PROVE  /\ SoundState(AfterWave)
           /\ AfterWave.phase = cur.phase /\ AfterWave.plan = cur.plan
           /\ AfterWave.section = cur.section /\ AfterWave.terminal = cur.terminal
           /\ Nodes(AfterWave) = Nodes(cur)
           /\ \A n \in Nodes(cur) :
                 IF n \in DOMAIN wave THEN Outcome(AfterWave.node[n], wave[n].result)
                 ELSE AfterWave.node[n] = cur.node[n]
<1> DEFINE order == Order(cur)
           L == Len(order)
           step(s, k) == IF order[k] \in DOMAIN wave THEN Apply(s, order[k]) ELSE s
           Sol(h, m) == h = [k \in 0..m |-> IF k = 0 THEN cur ELSE step(h[k - 1], k)]
           S == {m \in 0..L : \E h : Sol(h, m)}
<1>1. L \in Nat
    BY OrderFacts
<1>2. 0 \in S
  <2> DEFINE h == [k \in 0..0 |-> cur]
  <2> HIDE DEF step
  <2>1. Sol(h, 0)
    OBVIOUS
  <2>2. \E g : Sol(g, 0)
    BY <2>1
  <2> QED
    BY <1>1, <2>2
<1>3. ASSUME NEW m \in 0..L, m \in S, m < L PROVE m + 1 \in S
  <2>1. PICK h : Sol(h, m)
    BY <1>3
  <2> DEFINE g == [k \in 0..(m + 1) |-> IF k <= m THEN h[k] ELSE step(h[m], m + 1)]
  <2> HIDE DEF step, L
  <2>2. m \in Nat /\ m + 1 \in 0..L
    BY <1>1, <1>3
  <2>3. h[0] = cur /\ \A k \in 1..m : h[k] = step(h[k - 1], k)
    BY <2>1, <2>2
  <2>4. ASSUME NEW k \in 0..(m + 1)
        PROVE  g[k] = IF k = 0 THEN cur ELSE step(g[k - 1], k)
    <3>1. CASE k = 0
      BY <2>2, <2>3, <3>1
    <3>2. CASE k \in 1..m
      <4>1. g[k] = h[k] /\ g[k - 1] = h[k - 1] /\ k # 0
        BY <2>2, <3>2
      <4> QED
        BY <2>3, <3>2, <4>1
    <3>3. CASE k = m + 1
      <4>1. g[k] = step(h[m], m + 1) /\ g[k - 1] = h[m] /\ k # 0
        BY <2>2, <3>3
      <4> QED
        BY <3>3, <4>1
    <3> QED
      BY <2>2, <3>1, <3>2, <3>3
  <2>5. Sol(g, m + 1)
    BY <2>4
  <2>6. \E f : Sol(f, m + 1)
    BY <2>5
  <2> QED
    BY <2>2, <2>6
<1>4. L \in S
  <2> HIDE DEF S, L
  <2>1. \A k \in 0..L : k \in S
    BY <1>1, <1>2, <1>3, CountingUp
  <2> QED
    BY <1>1, <2>1
<1> DEFINE Rec(h) == h = [k \in 0..Len(order) |->
                             IF k = 0 THEN cur
                             ELSE IF order[k] \in DOMAIN wave THEN Apply(h[k - 1], order[k])
                             ELSE h[k - 1]]
           after == CHOOSE h : Rec(h)
<1>5. \E h : Rec(h)
    BY <1>4
<1>6. Rec(after)
    BY <1>5, Zenon
<1>7. AfterWave = after[L]
    BY DEF AfterWave
<1>8. PICK f : f = after /\ Sol(f, L)
    BY <1>6
<1> HIDE DEF after, Rec
<1> DEFINE H == {k \in 0..L : Halfway(f[k], k)}
<1>9. 0 \in H
  <2>1. f[0] = cur
    BY <1>1, <1>8
  <2>2. Halfway(cur, 0)
    BY DEF Halfway
  <2> QED
    BY <1>1, <2>1, <2>2
<1>10. ASSUME NEW k \in 0..L, k \in H, k < L PROVE k + 1 \in H
  <2>1. k + 1 \in 0..L /\ k + 1 # 0 /\ (k + 1) - 1 = k
    BY <1>1, <1>10
  <2>2. f[k + 1] = step(f[k], k + 1)
    <3> HIDE DEF step, L
    <3> QED
      BY <1>8, <2>1
  <2>3. Halfway(f[k], k)
    BY <1>10
  <2>4. Halfway(f[k + 1], k + 1)
    BY <1>10, <2>2, <2>3, ApplyStep
  <2> QED
    BY <2>1, <2>4
<1>11. Halfway(AfterWave, L)
  <2> HIDE DEF H, L
  <2>1. \A k \in 0..L : k \in H
    BY <1>1, <1>9, <1>10, CountingUp
  <2>2. L \in H
    BY <1>1, <2>1
  <2> QED
    BY <1>7, <1>8, <2>2 DEF H
<1>12. \A n \in DOMAIN wave : \E i \in 1..L : order[i] = n
    BY OrderFacts
<1> HIDE DEF L, order
<1> QED
    BY <1>11, <1>12 DEF Halfway, L, order

-----------------------------------------------------------------------------
(* The scheduler.                                                           *)

\* While a call executes, its state differs from the caller's only in nodes that
\* the caller has queued.
InCall ==
    /\ Open(st) /\ ~executed
    /\ cur.phase = st.phase /\ cur.plan = st.plan /\ cur.section = st.section
    /\ cur.terminal = st.terminal
    /\ \A n \in Nodes(st) : st.node[n] # "queued" => cur.node[n] = st.node[n]

\* Both states are sound; between calls they are one; the limits hold.
SchedulerInv ==
    /\ SoundState(st) /\ SoundState(cur)
    /\ call \in {"idle", "executing"}
    /\ call = "idle" => cur = st /\ DOMAIN wave = {}
    /\ call = "executing" => InCall
    /\ \A n \in Nodes(st) : st.node[n] # "active"
    /\ WaveOK
    /\ OverallHeld <= MaxConcurrency /\ BlockingHeld <= MaxBlocking
    /\ threads \in Nat

LEMMA NodesAreFinite ==
    ASSUME NEW s, SoundState(s)
    PROVE  IsFiniteSet(Nodes(s))
<1>1. Nodes(s) = NodesOf(s.plan)
    BY DEF SoundState, MachineState, Nodes
<1>2. IsFiniteSet(Bootstrap)
  <2>1. IsFiniteSet({}) /\ Bootstrap = ({} \cup {"intent"}) \cup {"entity"}
    BY FS_EmptySet DEF Bootstrap
  <2>2. IsFiniteSet({} \cup {"intent"})
    BY <2>1, FS_AddElement
  <2> QED
    BY <2>1, <2>2, FS_AddElement
<1>3. CASE s.plan = NoPlan
    BY <1>1, <1>2, <1>3 DEF NodesOf
<1>4. CASE s.plan # NoPlan
  <2> DEFINE p == WorkPlan[s.plan]
  <2>1. s.plan \in AcceptedPlans
    BY <1>4 DEF SoundState, MachineState
  <2>2. p.order \in Seq(PlanNodes(p))
    BY <2>1, PlanFacts
  <2>3. p.order \in Surjection(1..Len(p.order), PlanNodes(p))
    BY <2>2 DEF Surjection, PlanNodes, ToSet
  <2>4. IsFiniteSet(1..Len(p.order))
    BY <2>2, FS_Interval
  <2>5. IsFiniteSet(PlanNodes(p))
    BY <2>3, <2>4, FS_Surjection
  <2>6. Nodes(s) \subseteq Bootstrap \cup PlanNodes(p)
    BY <1>1, <2>1, PlanFacts
  <2>7. IsFiniteSet(Bootstrap \cup PlanNodes(p))
    BY <1>2, <2>5, FS_Union
  <2> QED
    BY <2>6, <2>7, FS_Subset
<1> QED
    BY <1>3, <1>4

LEMMA Held ==
    ASSUME NEW A, IsFiniteSet(A), NEW B
    PROVE  /\ Cardinality(A) \in Nat
           /\ B \subseteq A => Cardinality(B) \in Nat /\ Cardinality(B) <= Cardinality(A)
           /\ \A x : B \subseteq A \cup {x}
                => Cardinality(B) \in Nat /\ Cardinality(B) <= Cardinality(A) + 1
<1>1. Cardinality(A) \in Nat
    BY FS_CardinalityType
<1>2. ASSUME B \subseteq A PROVE Cardinality(B) \in Nat /\ Cardinality(B) <= Cardinality(A)
    BY <1>2, FS_Subset, FS_CardinalityType
<1>3. ASSUME NEW x, B \subseteq A \cup {x}
      PROVE  Cardinality(B) \in Nat /\ Cardinality(B) <= Cardinality(A) + 1
  <2>1. IsFiniteSet(A \cup {x}) /\ Cardinality(A \cup {x}) <= Cardinality(A) + 1
    BY <1>1, FS_AddElement
  <2>2. /\ IsFiniteSet(B) /\ Cardinality(B) <= Cardinality(A \cup {x})
    BY <1>3, <2>1, FS_Subset
  <2>3. Cardinality(B) \in Nat /\ Cardinality(A \cup {x}) \in Nat
    BY <2>1, <2>2, FS_CardinalityType
  <2> QED
    BY <1>1, <2>1, <2>2, <2>3
<1> QED
    BY <1>1, <1>2, <1>3

\* Between two waves nothing is held.
LEMMA EmptyWave ==
    ASSUME DOMAIN wave = {}
    PROVE  OverallHeld <= MaxConcurrency /\ BlockingHeld <= MaxBlocking
<1>1. InStage({"running"}) = {} /\ {n \in InStage({"slot", "running"}) : IsBlocking(n)} = {}
    BY DEF InStage
<1>2. Cardinality({}) = 0
    BY FS_EmptySet
<1>3. OverallHeld = 0
    BY <1>1, <1>2 DEF OverallHeld
<1>4. BlockingHeld = 0
    BY <1>1, <1>2 DEF BlockingHeld
<1> QED
    BY <1>3, <1>4, SchedulerAssumption

LEMMA EmptyWaveNext ==
    ASSUME DOMAIN wave' = {}
    PROVE  (OverallHeld <= MaxConcurrency /\ BlockingHeld <= MaxBlocking)'
<1>1. InStage({"running"})' = {} /\ {n \in InStage({"slot", "running"}) : IsBlocking(n)}' = {}
    BY DEF InStage
<1>2. Cardinality({}) = 0
    BY FS_EmptySet
<1>3. OverallHeld' = 0
    BY <1>1, <1>2 DEF OverallHeld
<1>4. BlockingHeld' = 0
    BY <1>1, <1>2 DEF BlockingHeld
<1> QED
    BY <1>3, <1>4, SchedulerAssumption

\* The caller replaces its state between two calls.
LEMMA BecomeStep ==
    ASSUME SchedulerInv, NEW s, SoundState(s), Become(s),
           \A n \in Nodes(s) : s.node[n] # "active"
    PROVE  SchedulerInv'
<1>1. /\ call = "idle" /\ call' = "idle" /\ st' = s /\ cur' = s /\ wave' = wave
      /\ threads' = threads
    BY DEF Become
<1>2. DOMAIN wave = {}
    BY <1>1 DEF SchedulerInv
<1>3. DOMAIN wave' = {}
    BY <1>1, <1>2
<1>4. (OverallHeld <= MaxConcurrency /\ BlockingHeld <= MaxBlocking)'
    BY <1>3, EmptyWaveNext
<1>5. WaveOK'
    BY <1>1, <1>3 DEF WaveOK
<1> QED
    BY <1>1, <1>3, <1>4, <1>5 DEF SchedulerInv

LEMMA CallerStep ==
    ASSUME SchedulerInv, Caller
    PROVE  SchedulerInv'
<1>0. SoundState(st) /\ \A n \in Nodes(st) : st.node[n] # "active"
    BY DEF SchedulerInv
<1>1. CASE Execute
  <2>1. /\ call = "idle" /\ call' = "executing" /\ st' = st /\ cur' = st /\ wave' = wave
        /\ threads' = threads /\ executed' = executed /\ Open(st) /\ ~executed
    BY <1>1 DEF Execute
  <2>2. cur = st /\ DOMAIN wave = {}
    BY <2>1 DEF SchedulerInv
  <2>3. (OverallHeld <= MaxConcurrency /\ BlockingHeld <= MaxBlocking)'
    BY <2>1, <2>2, EmptyWaveNext
  <2>4. WaveOK'
    BY <2>1, <2>2 DEF WaveOK, SchedulerInv
  <2>5. InCall'
    BY <2>1 DEF InCall, Open
  <2> QED
    BY <2>1, <2>2, <2>3, <2>4, <2>5 DEF SchedulerInv
<1>2. CASE AdvancePhase
  <2>1. CanAdvancePhase(st) /\ Become(AdvancedPhase(st))
    BY <1>2 DEF AdvancePhase, EnterPhase
  <2>2. PICK s : s = AdvancedPhase(st)
    OBVIOUS
  <2>3. SoundState(s) /\ s.node = st.node
    BY <1>0, <2>1, <2>2, AdvancedIsSound
  <2> QED
    BY <2>1, <2>2, <2>3, BecomeStep, <1>0 DEF Nodes
<1>3. CASE ApprovePlan
  <2>1. PICK p \in DOMAIN WorkPlan : CanApprove(st, p) /\ Become(Approved(st, p))
    BY <1>3 DEF ApprovePlan, EnterPhase
  <2>2. PICK s : s = Approved(st, p)
    OBVIOUS
  <2>3. /\ SoundState(s) /\ st.plan = NoPlan
        /\ \A n \in Bootstrap \cap Nodes(s) : s.node[n] = st.node[n]
        /\ \A n \in Nodes(s) : n \notin Bootstrap => s.node[n] = "queued"
    BY <1>0, <2>1, <2>2, ApprovedIsSound
  <2>4. Nodes(st) = Bootstrap
    BY <2>3 DEF SchedulerInv, SoundState, MachineState, NodesOf, Nodes
  <2>5. \A n \in Nodes(s) : s.node[n] # "active"
    BY <2>3, <2>4 DEF SchedulerInv, Nodes
  <2> QED
    BY <2>1, <2>2, <2>3, <2>5, BecomeStep
<1>4. CASE TransitionSection
  <2>1. PICK c \in Sections(st) : \E target \in SectionWork \cup SectionTerminal :
            /\ CanTransitionSection(st, c, target)
            /\ Become(SectionMoved(st, c, target))
    BY <1>4 DEF TransitionSection, InPlace
  <2>2. PICK target \in SectionWork \cup SectionTerminal :
            /\ CanTransitionSection(st, c, target)
            /\ Become(SectionMoved(st, c, target))
    BY <2>1
  <2>3. PICK s : s = SectionMoved(st, c, target)
    OBVIOUS
  <2>4. SoundState(s) /\ s.node = st.node
    BY <1>0, <2>1, <2>2, <2>3, SectionMovedIsSound
  <2> QED
    BY <2>2, <2>3, <2>4, BecomeStep, <1>0 DEF Nodes
<1>5. CASE CutOff
  <2>1. PICK s : s = HardCutoff(st)
    OBVIOUS
  <2>2. s # st /\ Become(s)
    BY <1>5, <2>1 DEF CutOff, InPlace
  <2>3. SoundState(s) /\ s.node = st.node
    BY <1>0, <2>1, <2>2, CutOffIsSound
  <2> QED
    BY <2>2, <2>3, BecomeStep, <1>0 DEF Nodes
<1>6. CASE FinalizeClarification
  <2>1. PICK s : s = Finalized(st, "clarification_result")
    OBVIOUS
  <2>2. CanFinalizeClarification(st) /\ Become(s)
    BY <1>6, <2>1 DEF FinalizeClarification, InPlace
  <2>3. SoundState(s) /\ s.node = st.node
    BY <1>0, <2>1, <2>2, FinalizedIsSound
  <2> QED
    BY <2>2, <2>3, BecomeStep, <1>0 DEF Nodes
<1>7. CASE FinalizeOrchestration
  <2>1. PICK s : s = Finalized(st, DerivedTerminal(st))
    OBVIOUS
  <2>2. CanFinalize(st) /\ Become(s)
    BY <1>7, <2>1 DEF FinalizeOrchestration, InPlace
  <2>3. SoundState(s) /\ s.node = st.node
    BY <1>0, <2>1, <2>2, FinalizedIsSound
  <2> QED
    BY <2>2, <2>3, BecomeStep, <1>0 DEF Nodes
<1> QED
    BY <1>1, <1>2, <1>3, <1>4, <1>5, <1>6, <1>7 DEF Caller

LEMMA InitOK == Init => SchedulerInv
<1> SUFFICES ASSUME Init PROVE SchedulerInv
    OBVIOUS
<1>0. PICK role \in EntityRole : st = InitialOrchestration(role)
    BY DEF Init
<1>1. /\ cur = st /\ call = "idle" /\ wave = <<>> /\ threads = 0
    BY DEF Init
<1>2. DOMAIN wave = {}
    BY <1>1
<1>3. SoundState(st) /\ \A n \in Nodes(st) : st.node[n] \in {"queued", "skipped"}
    BY <1>0, InitialIsSound
<1>4. OverallHeld <= MaxConcurrency /\ BlockingHeld <= MaxBlocking
    BY <1>2, EmptyWave
<1>5. WaveOK
    BY <1>1, <1>2, <1>3 DEF WaveOK
<1> QED
    BY <1>1, <1>2, <1>3, <1>4, <1>5 DEF SchedulerInv

\* What the call does to its own state; the caller's is as it was.
LEMMA RaiseStep ==
    ASSUME SchedulerInv, NEW reason, Raise(reason)
    PROVE  SchedulerInv'
<1>1. /\ call' = "idle" /\ cur' = st /\ wave' = <<>> /\ st' = st /\ threads' = threads
    BY DEF Raise
<1>2. DOMAIN wave' = {}
    BY <1>1
<1>3. (OverallHeld <= MaxConcurrency /\ BlockingHeld <= MaxBlocking)'
    BY <1>2, EmptyWaveNext
<1>4. WaveOK'
    BY <1>1, <1>2 DEF WaveOK, SchedulerInv
<1> QED
    BY <1>1, <1>2, <1>3, <1>4 DEF SchedulerInv

LEMMA BeginWaveStep ==
    ASSUME SchedulerInv, BeginWave
    PROVE  SchedulerInv'
<1>1. CASE Raise("factory")
    BY <1>1, RaiseStep
<1>2. CASE ~Raise("factory")
  <2> DEFINE ready == ReadyNodes(cur)
  <2>1. /\ call = "executing" /\ DOMAIN wave = {}
        /\ cur' = Activated(cur, ready)
        /\ wave' = [n \in ready |-> [stage |-> "begin", result |-> NoAttempt]]
        /\ st' = st /\ call' = call /\ executed' = executed /\ threads' = threads
    BY <1>2 DEF BeginWave
  <2>2. InCall /\ SoundState(cur) /\ Open(cur)
    BY <2>1 DEF SchedulerInv, InCall, Open
  <2>3. \A n \in ready : n \in Nodes(cur) /\ cur.node[n] = "queued"
    BY DEF ReadyNodes, CanActivate
  <2>4. PICK t : t = Activated(cur, ready)
    OBVIOUS
  <2>5. PICK N : N = ready
    OBVIOUS
  <2>6. /\ SoundState(t)
        /\ t.phase = cur.phase /\ t.plan = cur.plan /\ t.section = cur.section
        /\ t.terminal = cur.terminal
        /\ Nodes(t) = Nodes(cur)
        /\ \A n \in Nodes(cur) : t.node[n] = IF n \in N THEN "active" ELSE cur.node[n]
    BY <2>2, <2>3, <2>4, <2>5, ActivatedIsSound
  <2>7. \A n \in Nodes(cur) : cur.node[n] # "active"
    BY <2>1 DEF SchedulerInv, WaveOK
  <2>8. cur' = t /\ DOMAIN wave' = N
    BY <2>1, <2>4, <2>5
  <2>9. \A n \in N : wave'[n] = [stage |-> "begin", result |-> NoAttempt]
    BY <2>1, <2>5
  <2>10. /\ "begin" \in Stages /\ NoAttempt.state \in NodeTerminal
    BY DEF Stages, NoAttempt, Failure, NodeTerminal, Reported
  <2>11. WaveOK'
    <3>1. N = {n \in Nodes(t) : t.node[n] = "active"}
      BY <2>3, <2>5, <2>6, <2>7
    <3>2. \A n \in N : /\ wave'[n] = [stage |-> wave'[n].stage, result |-> wave'[n].result]
                         /\ wave'[n].stage \in Stages /\ wave'[n].result.state \in NodeTerminal
      BY <2>9, <2>10
    <3> QED
      BY <2>8, <3>1, <3>2 DEF WaveOK, Stage
  <2>12. InCall'
    <3>1. \A n \in Nodes(st) : st.node[n] # "queued" => t.node[n] = st.node[n]
      <4>1. Nodes(st) = Nodes(cur)
        BY <2>2 DEF InCall, SchedulerInv, SoundState, MachineState, Nodes
      <4> QED
        BY <2>2, <2>3, <2>5, <2>6, <4>1 DEF InCall
    <3> QED
      BY <2>1, <2>2, <2>6, <2>8, <3>1 DEF InCall, Open
  <2>13. (OverallHeld <= MaxConcurrency /\ BlockingHeld <= MaxBlocking)'
    <3>1. \A n \in DOMAIN wave' : wave'[n].stage = "begin"
      BY <2>8, <2>9
    <3>2. InStage({"running"})' = {} /\ {n \in InStage({"slot", "running"}) : IsBlocking(n)}' = {}
      BY <3>1 DEF InStage, Stage
    <3>3. Cardinality({}) = 0
      BY FS_EmptySet
    <3>4. OverallHeld' = 0
      BY <3>2, <3>3 DEF OverallHeld
    <3>5. BlockingHeld' = 0
      BY <3>2, <3>3 DEF BlockingHeld
    <3> QED
      BY <3>4, <3>5, SchedulerAssumption
  <2> QED
    BY <2>1, <2>6, <2>8, <2>11, <2>12, <2>13 DEF SchedulerInv
<1> QED
    BY <1>1, <1>2

LEMMA EndWaveStep ==
    ASSUME SchedulerInv, EndWave
    PROVE  /\ SchedulerInv'
           /\ \A n \in Nodes(cur) :
                 IF n \in DOMAIN wave THEN Outcome(cur'.node[n], wave[n].result)
                 ELSE cur'.node[n] = cur.node[n]
<1>1. /\ call = "executing" /\ cur' = AfterWave /\ wave' = <<>>
      /\ st' = st /\ call' = call /\ executed' = executed /\ threads' = threads
    BY DEF EndWave
<1>2. InCall /\ SoundState(cur) /\ Open(cur) /\ WaveOK
    BY <1>1 DEF SchedulerInv, InCall, Open
<1>3. PICK t : t = AfterWave
    OBVIOUS
<1>4. /\ SoundState(t)
      /\ t.phase = cur.phase /\ t.plan = cur.plan /\ t.section = cur.section
      /\ t.terminal = cur.terminal /\ Nodes(t) = Nodes(cur)
      /\ \A n \in Nodes(cur) :
            IF n \in DOMAIN wave THEN Outcome(t.node[n], wave[n].result)
            ELSE t.node[n] = cur.node[n]
    BY <1>2, <1>3, AfterWaveIsSound
<1>5. cur' = t /\ DOMAIN wave' = {}
    BY <1>1, <1>3
<1>6. \A n \in Nodes(cur) : IF n \in DOMAIN wave THEN t.node[n] \in NodeTerminal
                              ELSE t.node[n] = cur.node[n]
  <2>1. "invalid_output" \in NodeTerminal
    BY DEF NodeTerminal, Reported, Failing
  <2> QED
    BY <1>2, <1>4, <2>1 DEF WaveOK, Outcome
<1>7. \A n \in Nodes(t) : t.node[n] # "active"
    BY <1>2, <1>4, <1>6, Words DEF WaveOK
<1>8. WaveOK'
    BY <1>5, <1>7 DEF WaveOK
<1>9. (OverallHeld <= MaxConcurrency /\ BlockingHeld <= MaxBlocking)'
    BY <1>5, EmptyWaveNext
<1>10. InCall'
  <2>1. Nodes(st) = Nodes(cur)
    BY <1>2 DEF InCall, SchedulerInv, SoundState, MachineState, Nodes
  <2>2. \A n \in Nodes(st) : st.node[n] # "queued" => t.node[n] = st.node[n]
    BY <1>2, <1>6, <2>1 DEF InCall, SchedulerInv, WaveOK
  <2> QED
    BY <1>1, <1>2, <1>4, <1>5, <2>2 DEF InCall, Open
<1> QED
    BY <1>1, <1>4, <1>5, <1>8, <1>9, <1>10 DEF SchedulerInv

LEMMA EndPhaseStep ==
    ASSUME SchedulerInv, EndPhase
    PROVE  SchedulerInv'
<1>1. CASE Raise("unresolved")
    BY <1>1, RaiseStep
<1>2. CASE ~Raise("unresolved")
  <2>1. /\ DOMAIN wave = {} /\ st' = cur /\ cur' = cur /\ call' = "idle"
        /\ wave' = wave /\ threads' = threads
    BY <1>2 DEF EndPhase
  <2>2. \A n \in Nodes(cur) : cur.node[n] # "active"
    BY <2>1 DEF SchedulerInv, WaveOK
  <2>3. DOMAIN wave' = {}
    BY <2>1
  <2>4. (OverallHeld <= MaxConcurrency /\ BlockingHeld <= MaxBlocking)'
    BY <2>3, EmptyWaveNext
  <2>5. WaveOK'
    BY <2>1, <2>3 DEF WaveOK, SchedulerInv
  <2> QED
    BY <2>1, <2>2, <2>3, <2>4, <2>5 DEF SchedulerInv
<1> QED
    BY <1>1, <1>2

\* A coroutine of the wave takes a step: it holds a permit or a slot only if it
\* did before, or if one was free.
LEMMA CoroutineStep ==
    ASSUME SchedulerInv, NEW n \in DOMAIN wave,
           UNCHANGED <<st, call, cur, executed>>, threads' \in Nat,
           DOMAIN wave' = DOMAIN wave, \A m \in DOMAIN wave : m # n => wave'[m] = wave[m],
           NEW stage \in Stages, NEW r, r.state \in NodeTerminal,
           wave'[n] = [stage |-> stage, result |-> r],
           stage = "running" => Stage(n) = "running" \/ OverallHeld < MaxConcurrency,
           stage \in {"slot", "running"} /\ IsBlocking(n) =>
               Stage(n) \in {"slot", "running"} \/ BlockingHeld < MaxBlocking
    PROVE  SchedulerInv'
<1>1. /\ SoundState(cur) /\ WaveOK
      /\ OverallHeld <= MaxConcurrency /\ BlockingHeld <= MaxBlocking
    BY DEF SchedulerInv
<1>2. IsFiniteSet(DOMAIN wave)
  <2>1. IsFiniteSet(Nodes(cur)) /\ DOMAIN wave \subseteq Nodes(cur)
    BY <1>1, NodesAreFinite DEF WaveOK
  <2> QED
    BY <2>1, FS_Subset
<1>3. WaveOK'
  <2>1. \A m \in DOMAIN wave :
            /\ wave'[m] = [stage |-> wave'[m].stage, result |-> wave'[m].result]
            /\ wave'[m].stage \in Stages /\ wave'[m].result.state \in NodeTerminal
    <3> SUFFICES ASSUME NEW m \in DOMAIN wave
                 PROVE  /\ wave'[m] = [stage |-> wave'[m].stage, result |-> wave'[m].result]
                        /\ wave'[m].stage \in Stages /\ wave'[m].result.state \in NodeTerminal
      OBVIOUS
    <3>1. CASE m = n
      BY <3>1
    <3>2. CASE m # n
      BY <1>1, <3>2 DEF WaveOK, Stage
    <3> QED
      BY <3>1, <3>2
  <2> QED
    BY <1>1, <2>1 DEF WaveOK, Stage
<1>4. \A m \in DOMAIN wave : m # n => Stage(m)' = Stage(m)
    BY DEF Stage
<1>5. Stage(n)' = stage
    BY DEF Stage
<1>6. (OverallHeld <= MaxConcurrency)'
  <2> DEFINE A == InStage({"running"})
  <2>1. PICK B : B = InStage({"running"})'
    OBVIOUS
  <2>2. IsFiniteSet(A)
    BY <1>2, FS_Subset DEF InStage
  <2>3. B \subseteq A \cup {n} /\ (stage # "running" \/ Stage(n) = "running" => B \subseteq A)
    BY <1>4, <1>5, <2>1 DEF InStage
  <2>4. OverallHeld = Cardinality(A) /\ OverallHeld' = Cardinality(B)
    BY <2>1 DEF OverallHeld
  <2> HIDE DEF A
  <2>5. Cardinality(A) \in Nat
    BY <2>2, Held
  <2>6. CASE B \subseteq A
    <3>1. Cardinality(B) \in Nat /\ Cardinality(B) <= Cardinality(A)
      BY <2>2, <2>6, Held
    <3> QED
      BY <1>1, <2>4, <2>5, <3>1, SchedulerAssumption
  <2>7. CASE ~(B \subseteq A)
    <3>1. Cardinality(B) \in Nat /\ Cardinality(B) <= Cardinality(A) + 1
      BY <2>2, <2>3, Held
    <3>2. OverallHeld < MaxConcurrency
      BY <2>3, <2>7
    <3> QED
      BY <2>4, <2>5, <3>1, <3>2, SchedulerAssumption
  <2> QED
    BY <2>6, <2>7
<1>7. (BlockingHeld <= MaxBlocking)'
  <2> DEFINE A == {m \in InStage({"slot", "running"}) : IsBlocking(m)}
  <2>1. PICK B : B = A'
    OBVIOUS
  <2>2. IsFiniteSet(A)
    BY <1>2, FS_Subset DEF InStage
  <2>3. \A m : IsBlocking(m)' <=> IsBlocking(m)
    BY DEF IsBlocking
  <2>4. /\ B \subseteq A \cup {n}
        /\ \/ stage \notin {"slot", "running"} \/ ~IsBlocking(n)
           \/ Stage(n) \in {"slot", "running"}
           => B \subseteq A
    BY <1>4, <1>5, <2>1, <2>3 DEF InStage
  <2>5. BlockingHeld = Cardinality(A) /\ BlockingHeld' = Cardinality(B)
    BY <2>1 DEF BlockingHeld
  <2> HIDE DEF A
  <2>6. Cardinality(A) \in Nat
    BY <2>2, Held
  <2>7. CASE B \subseteq A
    <3>1. Cardinality(B) \in Nat /\ Cardinality(B) <= Cardinality(A)
      BY <2>2, <2>7, Held
    <3> QED
      BY <1>1, <2>5, <2>6, <3>1, SchedulerAssumption
  <2>8. CASE ~(B \subseteq A)
    <3>1. Cardinality(B) \in Nat /\ Cardinality(B) <= Cardinality(A) + 1
      BY <2>2, <2>4, Held
    <3>2. BlockingHeld < MaxBlocking
      BY <2>4, <2>8
    <3> QED
      BY <2>5, <2>6, <3>1, <3>2, SchedulerAssumption
  <2> QED
    BY <2>7, <2>8
<1>8. InCall => InCall'
    BY DEF InCall, Open
<1> QED
    BY <1>3, <1>6, <1>7, <1>8 DEF SchedulerInv

LEMMA GotoStep ==
    ASSUME SchedulerInv, NEW n \in DOMAIN wave, NEW stage \in Stages, Goto(n, stage),
           UNCHANGED <<st, call, cur, executed, threads>>,
           stage = "running" => Stage(n) = "running" \/ OverallHeld < MaxConcurrency,
           stage \in {"slot", "running"} /\ IsBlocking(n) =>
               Stage(n) \in {"slot", "running"} \/ BlockingHeld < MaxBlocking
    PROVE  SchedulerInv'
<1>1. /\ wave[n] = [stage |-> wave[n].stage, result |-> wave[n].result]
      /\ wave[n].result.state \in NodeTerminal /\ threads \in Nat
    BY DEF SchedulerInv, WaveOK
<1>2. DOMAIN wave' = DOMAIN wave /\ \A m \in DOMAIN wave : m # n => wave'[m] = wave[m]
    BY DEF Goto
<1>3. wave'[n] = [wave[n] EXCEPT !.stage = stage]
    BY DEF Goto
<1>4. PICK r : r = wave[n].result
    OBVIOUS
<1>5. wave'[n] = [stage |-> stage, result |-> r]
    BY <1>1, <1>3, <1>4
<1> QED
    BY <1>1, <1>2, <1>4, <1>5, CoroutineStep

LEMMA AttemptStep ==
    ASSUME SchedulerInv, NEW n \in DOMAIN wave, NEW r, Attempt(n, r), r.state \in NodeTerminal,
           UNCHANGED <<st, call, cur, executed>>, threads' \in Nat
    PROVE  SchedulerInv'
<1>1. DOMAIN wave' = DOMAIN wave /\ \A m \in DOMAIN wave : m # n => wave'[m] = wave[m]
    BY DEF Attempt
<1>2. wave'[n] = [stage |-> "done", result |-> r]
    BY DEF Attempt
<1>3. PICK stage \in Stages : stage = "done"
    BY DEF Stages
<1> QED
    BY <1>1, <1>2, <1>3, CoroutineStep

\* What a node can come back with ends it.
LEMMA FailureFacts ==
    ASSUME NEW state
    PROVE  Failure(state).state = state
BY DEF Failure

LEMMA StoppedFacts ==
    ASSUME NEW n
    PROVE  Stopped(n).state \in NodeTerminal /\ StoppedByTimeout(n).state \in NodeTerminal
<1>1. {"cancelled", "timed_out"} \subseteq NodeTerminal
    BY DEF NodeTerminal, Reported, Failing
<1> QED
    BY <1>1, FailureFacts DEF Stopped, StoppedByTimeout

LEMMA CapabilityTyped ==
    ASSUME NEW s, NEW n, SoundState(s), n \in Nodes(s)
    PROVE  CapabilityOf(s, n) \in Capability
<1>1. {"intent_classifier", "entity_resolver"} \subseteq Capability
    BY DEF Capability
<1>2. CASE s.plan = NoPlan
    BY <1>1, <1>2, Words DEF SoundState, MachineState, NodesOf, Nodes, CapabilityOf
<1>3. CASE s.plan # NoPlan
  <2>1. s.plan \in AcceptedPlans /\ Nodes(s) = NodesOf(s.plan)
    BY <1>3 DEF SoundState, MachineState, Nodes
  <2>2. PICK p : p = WorkPlan[s.plan]
    OBVIOUS
  <2>3. /\ Nodes(s) \subseteq Bootstrap \cup PlanNodes(p)
        /\ p.capability \in [PlanNodes(p) -> Capability]
    BY <2>1, <2>2, PlanFacts
  <2> QED
    BY <1>1, <2>2, <2>3, Words DEF CapabilityOf, PlanOf
<1> QED
    BY <1>2, <1>3

\* Whatever a capability answers, its node ends.
LEMMA ResultsEnd ==
    ASSUME SoundState(cur), NEW n \in Nodes(cur), NEW r \in Results(n)
    PROVE  r.state \in NodeTerminal
<1>1. PICK a \in Answers[CapabilityOf(cur, n)] : r.state = a
    BY DEF Results
<1>2. Answers[CapabilityOf(cur, n)] \subseteq NodeTerminal
    BY CapabilityTyped, SchedulerAssumption, Words
<1> QED
    BY <1>1, <1>2

LEMMA NodeStep ==
    ASSUME SchedulerInv, NEW n \in DOMAIN wave, Coroutine(n) \/ Return(n) \/ Fault(n)
    PROVE  SchedulerInv'
<1>0. /\ threads \in Nat /\ SoundState(cur) /\ n \in Nodes(cur)
      /\ {"permit", "slot", "running"} \subseteq Stages
    BY DEF SchedulerInv, WaveOK, Stages
<1>1. CASE BeginNode(n)
  <2>1. UNCHANGED <<st, call, cur, executed, threads>> /\ Stage(n) = "begin"
    BY <1>1 DEF BeginNode, InStage
  <2>2. CASE OutOfTime(n)
    BY <1>0, <1>1, <2>1, <2>2, StoppedFacts, AttemptStep DEF BeginNode
  <2>3. CASE ~OutOfTime(n) /\ CapabilityOf(cur, n) \notin Bound
    <3>1. Attempt(n, Failure("unavailable"))
      BY <1>1, <2>3 DEF BeginNode
    <3>2. Failure("unavailable").state \in NodeTerminal
      BY FailureFacts DEF NodeTerminal, Reported, Failing
    <3> QED
      BY <1>0, <2>1, <3>1, <3>2, AttemptStep
  <2>4. CASE ~OutOfTime(n) /\ CapabilityOf(cur, n) \in Bound /\ IsBlocking(n)
    <3>1. Goto(n, "permit")
      BY <1>1, <2>4 DEF BeginNode
    <3> QED
      BY <1>0, <2>1, <3>1, GotoStep
  <2>5. CASE ~OutOfTime(n) /\ CapabilityOf(cur, n) \in Bound /\ ~IsBlocking(n)
    <3>1. Goto(n, "slot")
      BY <1>1, <2>5 DEF BeginNode
    <3> QED
      BY <1>0, <2>1, <2>5, <3>1, GotoStep
  <2> QED
    BY <2>2, <2>3, <2>4, <2>5
<1>2. CASE AcquirePermit(n)
  <2>1. /\ UNCHANGED <<st, call, cur, executed, threads>> /\ Goto(n, "slot")
        /\ BlockingHeld < MaxBlocking
    BY <1>2 DEF AcquirePermit
  <2> QED
    BY <1>0, <2>1, GotoStep
<1>3. CASE AcquireSlot(n)
  <2>1. /\ UNCHANGED <<st, call, cur, executed, threads>> /\ Goto(n, "running")
        /\ OverallHeld < MaxConcurrency /\ Stage(n) \in {"slot", "running"}
    BY <1>3 DEF AcquireSlot, InStage
  <2> QED
    BY <1>0, <2>1, GotoStep
<1>4. CASE Timeout(n)
  <2>1. UNCHANGED <<st, call, cur, executed>> /\ Attempt(n, StoppedByTimeout(n))
    BY <1>4 DEF Timeout
  <2>2. threads' \in Nat
    BY <1>0, <1>4 DEF Timeout
  <2> QED
    BY <2>1, <2>2, StoppedFacts, AttemptStep
<1>5. CASE Return(n)
  <2>1. UNCHANGED <<st, call, cur, executed, threads>>
    BY <1>5 DEF Return
  <2>2. CASE OutOfTime(n)
    BY <1>0, <1>5, <2>1, <2>2, StoppedFacts, AttemptStep DEF Return
  <2>3. CASE ~OutOfTime(n)
    <3>1. PICK r \in Results(n) : Attempt(n, r)
      BY <1>5, <2>3 DEF Return
    <3>2. r.state \in NodeTerminal
      BY <1>0, <3>1, ResultsEnd
    <3> QED
      BY <1>0, <2>1, <3>1, <3>2, AttemptStep
  <2> QED
    BY <2>2, <2>3
<1>6. CASE Fault(n)
  <2>1. UNCHANGED <<st, call, cur, executed, threads>>
    BY <1>6 DEF Fault
  <2>2. PICK r \in {Failure("unavailable"), OutOfContract} : Attempt(n, r)
    BY <1>6 DEF Fault
  <2>3. r.state \in {"unavailable", "satisfied"}
    BY <2>2 DEF OutOfContract, Failure
  <2>4. r.state \in NodeTerminal
    BY <2>3 DEF NodeTerminal, Reported, Failing
  <2> QED
    BY <1>0, <2>1, <2>2, <2>4, AttemptStep
<1> QED
    BY <1>1, <1>2, <1>3, <1>4, <1>5, <1>6 DEF Coroutine

\* Steps that leave the call as it is.
LEMMA IdleStep ==
    ASSUME SchedulerInv, UNCHANGED <<st, call, cur, wave, executed>>, threads' \in Nat
    PROVE  SchedulerInv'
<1>1. WaveOK'
    BY DEF SchedulerInv, WaveOK, Stage
<1>2. (OverallHeld <= MaxConcurrency /\ BlockingHeld <= MaxBlocking)'
    BY DEF SchedulerInv, OverallHeld, BlockingHeld, InStage, IsBlocking, Stage
<1>3. InCall => InCall'
    BY DEF InCall, Open
<1> QED
    BY <1>1, <1>2, <1>3 DEF SchedulerInv

LEMMA SchedulerStep == SchedulerInv /\ [Next]_vars => SchedulerInv'
<1> SUFFICES ASSUME SchedulerInv, [Next]_vars PROVE SchedulerInv'
    OBVIOUS
<1>1. threads \in Nat
    BY DEF SchedulerInv
<1>2. CASE ThreadEnds
  <2>1. threads' \in Nat
    BY <1>1, <1>2 DEF ThreadEnds
  <2> QED
    BY <1>2, <2>1, IdleStep DEF ThreadEnds
<1>3. CASE Tick
    BY <1>1, <1>3, IdleStep DEF Tick
<1>4. CASE UNCHANGED vars
    BY <1>1, <1>4, IdleStep DEF vars
<1> QED
    BY <1>2, <1>3, <1>4, CallerStep, BeginWaveStep, EndWaveStep, EndPhaseStep, NodeStep
    DEF Next

\* The inductive invariant of the scheduler and the caller of the state machine
\* (execute_ready_phase, state_machine.py): both states are sound, they differ
\* only in what the caller has queued, and the wave is what is active.
THEOREM SchedulerInvHolds == Spec => []SchedulerInv
<1> QED
    BY InitOK, SchedulerStep, PTL DEF Spec

LEMMA InvMachine == SchedulerInv => MachineIsSound
<1> SUFFICES ASSUME SchedulerInv PROVE MachineIsSound
    OBVIOUS
<1>1. ASSUME NEW s, SoundState(s) PROVE Shape(s)
  <2>1. Nodes(s) = NodesOf(s.plan) /\ Sections(s) = SectionsOf(s.plan)
    BY <1>1 DEF SoundState, MachineState, Nodes, Sections
  <2> QED
    BY <1>1, <2>1 DEF SoundState, MachineState, Shape
<1>2. TypeOK
    BY <1>1 DEF SchedulerInv, WaveOK, TypeOK
<1>3. NoUnverifiedClaimShown
    BY DEF SchedulerInv, SoundState, ShownIsVerified, NoUnverifiedClaimShown
<1> QED
    BY <1>2, <1>3 DEF MachineIsSound

\* Whatever the caller and the coroutines do, both states of a call are states
\* of the machine, semaphores are respected, and no section of a grounded answer
\* is shown with a claim that has no final verdict (transition_section,
\* finish_capability, apply_hard_cutoff_to_sections).
THEOREM MachineStaysSound == Spec => []MachineIsSound
<1> QED
    BY SchedulerInvHolds, InvMachine, PTL

\* A node that _validate_retry_node admits has a failure decision for its retry
\* plan, whatever it reported before it failed (decide_failure_transition).
THEOREM RetryStaysPlannable == Spec => []RetryIsPlannable
<1>1. RetryIsPlannable
  <2> SUFFICES ASSUME NEW n \in Nodes(st), Retryable(st, n) PROVE Decides(st, n)
    BY DEF RetryIsPlannable
  <2> DEFINE cap == CapabilityOf(st, n)
             signal == FailureSignal(st, n)
  <2>1. /\ cap \in Verifier \cup {"regulatory_retriever", "news_retriever", "general_ai"}
        /\ st.node[n] \in Failing
    BY DEF Retryable
  <2>2. st.node[n] \in Transient /\ st.node[n] \notin {"partial", "no_match"}
    BY <2>1 DEF Transient, Failing
  <2>3. \/ signal = "evidence_rejected" /\ cap = "evidence_integrity"
        \/ signal \in {"claim_rejected", "all_claims_rejected"} /\ cap \in Verifier
        \/ signal = st.node[n]
    BY <2>2 DEF FailureSignal
  <2>4. signal \in Eligible(cap)
    BY <2>1, <2>2, <2>3 DEF Eligible, Transient, Verifier
  <2>5. Revisions(cap, signal) = 1 => signal = "claim_rejected"
    BY <2>2, <2>3 DEF Revisions
  <2>6. st.node[n] \in NodeTerminal
    BY <2>1 DEF NodeTerminal, Reported
  <2> QED
    BY <2>4, <2>5, <2>6 DEF Decides, RuleApplies
<1> QED
    BY <1>1, PTL

\* When a wave ends, each of its nodes has one terminal state, nodes outside it
\* keep theirs, and a legal result about which no two nodes can disagree is
\* admitted as it is, whatever became of its siblings (execute_ready_phase).
THEOREM SiblingsKeep == Spec => SiblingsKeepTheirResults
<1> DEFINE Kept ==
        DOMAIN wave # {} /\ wave' = <<>> /\ call' = "executing" =>
          \A n \in Nodes(cur) :
             IF n \notin DOMAIN wave THEN cur'.node[n] = cur.node[n]
             ELSE LET r == wave[n].result IN
                  /\ cur'.node[n] \in {r.state, "invalid_output"}
                  /\ r.legal /\ r.claims = {} /\ r.verdicts = {}
                        => cur'.node[n] = r.state
<1>1. SchedulerInv /\ [Next]_vars => [Kept]_vars
  <2> SUFFICES ASSUME SchedulerInv, Next, DOMAIN wave # {}, wave' = <<>>, call' = "executing"
               PROVE  Kept
    BY DEF vars
  <2>1. DOMAIN wave' = {}
    OBVIOUS
  <2>2. call = "executing"
    BY DEF SchedulerInv
  <2>3. ~Caller
    BY <2>2 DEF Caller, Execute, AdvancePhase, ApprovePlan, TransitionSection, CutOff,
                FinalizeClarification, FinalizeOrchestration, EnterPhase, InPlace, Become
  <2>4. ~BeginWave /\ ~EndPhase
    BY DEF BeginWave, EndPhase
  <2>5. ~ThreadEnds /\ ~Tick
    BY <2>1 DEF ThreadEnds, Tick
  <2>6. ASSUME NEW n \in DOMAIN wave PROVE ~(Coroutine(n) \/ Return(n) \/ Fault(n))
    <3>1. ASSUME NEW x PROVE ~Goto(n, x) /\ ~Attempt(n, x)
      BY <2>1 DEF Goto, Attempt
    <3> QED
      BY <3>1 DEF Coroutine, BeginNode, AcquirePermit, AcquireSlot, Timeout, Return, Fault
  <2>7. EndWave
    BY <2>3, <2>4, <2>5, <2>6 DEF Next
  <2>8. \A n \in Nodes(cur) :
            IF n \in DOMAIN wave THEN Outcome(cur'.node[n], wave[n].result)
            ELSE cur'.node[n] = cur.node[n]
    BY <2>7, EndWaveStep
  <2> QED
    BY <2>8 DEF Outcome
<1> QED
    BY <1>1, SchedulerInvHolds, PTL DEF Spec, SiblingsKeepTheirResults

-----------------------------------------------------------------------------
(* Draining.                                                                *)

\* The phases in which a capability may run follow each other.
LEMMA PhasesAreIntervals ==
    ASSUME NEW c \in Capability
    PROVE  /\ ActivationPhases(c) \subseteq 0..9
           /\ First(c) \in ActivationPhases(c)
           /\ \A j \in ActivationPhases(c) : First(c) <= j
           /\ \A i, j \in ActivationPhases(c) : \A k \in Nat :
                 i <= k /\ k <= j => k \in ActivationPhases(c)
<1>1. ActivationPhases(c) \in {{1}, {3}, {3, 4}, {4}, {5}, {6}, {7}, {9}}
    BY DEF ActivationPhases, Capability, Verifier
<1>2. PICK A : A = ActivationPhases(c)
    OBVIOUS
<1>3. /\ A \subseteq 0..9 /\ \E i \in A : \A j \in A : i <= j
      /\ \A i, j \in A : \A k \in Nat : i <= k /\ k <= j => k \in A
    BY <1>1, <1>2
<1>4. First(c) = CHOOSE i \in A : \A j \in A : i <= j
    BY <1>2 DEF First
<1>5. First(c) \in A /\ \A j \in A : First(c) <= j
    BY <1>3, <1>4
<1> QED
    BY <1>2, <1>3, <1>5

Ordered(s) == s.plan = NoPlan \/ InOrder(PlanOf(s))

\* A node still has a phase in which a call may execute it.
Ahead(n) == \E i \in PhasesOf(st, n) : i > st.phase \/ (i = st.phase /\ ~executed)

LEMMA DrainMeans ==
    OrderlyRunsDrain <=>
        (orderly /\ Ordered(st) =>
            /\ raised # "unresolved"
            /\ \A n \in Nodes(st) : st.node[n] = "queued" => Ahead(n))
BY DEF OrderlyRunsDrain, Ordered, Ahead

LEMMA SamePlan ==
    ASSUME NEW s, NEW t, t.plan = s.plan
    PROVE  /\ Ordered(t) <=> Ordered(s)
           /\ \A n : /\ CapabilityOf(t, n) = CapabilityOf(s, n)
                     /\ PhasesOf(t, n) = PhasesOf(s, n) /\ Needs(t, n) = Needs(s, n)
BY DEF Ordered, PlanOf, PhasesOf, CapabilityOf, Needs

\* The call never gets stuck: if no node is ready, then of the queued nodes that
\* this phase should execute each would wait for another one of them, and the
\* dependencies have no cycle.
LEMMA NoDeadEnd ==
    ASSUME SchedulerInv, OrderlyRunsDrain, orderly, Ordered(st), call = "executing",
           DOMAIN wave = {}, ReadyNodes(cur) = {}
    PROVE  Unresolved(cur) = {}
<1>1. /\ SoundState(cur) /\ SoundState(st) /\ InCall /\ cur.plan = st.plan
      /\ cur.phase = st.phase /\ Open(cur)
    BY DEF SchedulerInv, InCall, Open
<1>2. Nodes(st) = Nodes(cur)
    BY <1>1 DEF SoundState, MachineState, Nodes
<1>3. \A n \in Nodes(cur) : cur.node[n] # "active" /\ cur.node[n] \in NodeState
    BY <1>1 DEF SchedulerInv, WaveOK, SoundState, MachineState, Nodes
<1>4. cur.phase \in Nat
    BY <1>1, Phases DEF SoundState, MachineState
<1>5. PICK U : U = Unresolved(cur)
    OBVIOUS
<1>6. \A n \in U : n \in Nodes(cur) /\ cur.node[n] = "queued" /\ cur.phase \in PhasesOf(cur, n)
    BY <1>5 DEF Unresolved
<1>7. ASSUME NEW n \in U
      PROVE  \E d \in Needs(cur, n) : cur.node[d] \notin NodeTerminal
  <2>1. ~CanActivate(cur, n)
    BY <1>6 DEF ReadyNodes
  <2> QED
    BY <1>1, <1>6, <2>1 DEF CanActivate
<1>8. ASSUME NEW n \in U
      PROVE  /\ cur.plan \in AcceptedPlans /\ n \in PlanNodes(PlanOf(cur))
             /\ Needs(cur, n) = PlanOf(cur).needs[n]
  <2>1. n \notin Bootstrap
    BY <1>7 DEF Needs
  <2>2. cur.plan # NoPlan
    BY <1>1, <1>6, <2>1 DEF SoundState, MachineState, Nodes, NodesOf
  <2>3. cur.plan \in AcceptedPlans
    BY <1>1, <2>2 DEF SoundState, MachineState
  <2>4. Nodes(cur) \subseteq Bootstrap \cup PlanNodes(WorkPlan[cur.plan])
    BY <1>1, <2>3, PlanFacts DEF SoundState, MachineState, Nodes
  <2> QED
    BY <1>6, <2>1, <2>3, <2>4 DEF Needs, PlanOf
<1>9. ASSUME NEW n \in U PROVE \E d \in Needs(cur, n) : d \in U
  <2> DEFINE p == WorkPlan[cur.plan]
  <2>1. PICK d \in Needs(cur, n) : cur.node[d] \notin NodeTerminal
    BY <1>7
  <2>2. /\ cur.plan \in AcceptedPlans /\ n \in PlanNodes(p) /\ d \in p.needs[n]
    BY <1>8, <2>1 DEF PlanOf
  <2>3. /\ d \in PlanNodes(p) /\ PlanNodes(p) \subseteq Nodes(cur)
        /\ PlanNodes(p) \cap Bootstrap = {} /\ cur.plan # NoPlan
        /\ p.capability \in [PlanNodes(p) -> Capability]
    BY <1>1, <2>2, PlanFacts DEF SoundState, MachineState, Nodes
  <2>4. cur.node[d] = "queued"
    BY <1>3, <2>1, <2>3, Words
  <2>5. st.node[d] = "queued"
    BY <1>1, <1>2, <2>3, <2>4 DEF InCall
  <2>6. PICK i \in PhasesOf(st, d) : i > st.phase \/ i = st.phase
    BY <1>2, <2>3, <2>5, DrainMeans DEF Ahead
  <2>7. InOrder(p)
    BY <1>1, <2>3 DEF Ordered, PlanOf
  <2>8. First(p.capability[d]) <= First(p.capability[n])
    BY <2>2, <2>7 DEF InOrder
  <2>9. /\ CapabilityOf(cur, d) = p.capability[d] /\ CapabilityOf(cur, n) = p.capability[n]
        /\ p.capability[d] \in Capability /\ p.capability[n] \in Capability
    BY <2>2, <2>3, Words DEF CapabilityOf, PlanOf
  <2>10. i \in ActivationPhases(p.capability[d])
    BY <1>1, <2>9, SamePlan DEF PhasesOf
  <2>11. cur.phase \in ActivationPhases(p.capability[n])
    BY <1>6, <2>9 DEF PhasesOf
  <2>12. /\ First(p.capability[n]) <= cur.phase
         /\ First(p.capability[d]) \in Nat /\ First(p.capability[n]) \in Nat /\ i \in Nat
    BY <2>9, <2>10, <2>11, PhasesAreIntervals
  <2>13. First(p.capability[d]) <= cur.phase /\ cur.phase <= i
    BY <1>1, <1>4, <2>6, <2>8, <2>12
  <2>14. cur.phase \in ActivationPhases(p.capability[d])
    BY <1>4, <2>9, <2>10, <2>13, PhasesAreIntervals
  <2>15. d \in Unresolved(cur)
    BY <2>3, <2>4, <2>9, <2>14 DEF Unresolved, PhasesOf
  <2> QED
    BY <1>5, <2>15
<1>10. SUFFICES ASSUME U # {} PROVE FALSE
    BY <1>5
<1>11. cur.plan \in AcceptedPlans /\ U \in SUBSET PlanNodes(PlanOf(cur))
    BY <1>8, <1>10
<1>12. PICK n \in U : PlanOf(cur).needs[n] \cap U = {}
    BY <1>10, <1>11, PlanFacts DEF Acyclic, PlanOf
<1> QED
    BY <1>8, <1>9, <1>12

\* Steps that leave the caller's state where it is, or change nothing that
\* says where a node may run.
LEMMA DrainStays ==
    ASSUME OrderlyRunsDrain, NEW s, st' = s, s.plan = st.plan, s.phase = st.phase,
           s.node = st.node, executed' = executed, orderly' = orderly,
           raised' = raised \/ raised' \in {"factory", "none"}
    PROVE  OrderlyRunsDrain'
<1>1. SUFFICES ASSUME orderly', Ordered(s)
               PROVE  /\ raised' # "unresolved"
                      /\ \A n \in Nodes(s) : s.node[n] = "queued" =>
                            \E i \in PhasesOf(s, n) :
                                i > s.phase \/ (i = s.phase /\ ~executed')
    BY DEF OrderlyRunsDrain, Ordered
<1>2. Ordered(st) /\ \A n : PhasesOf(s, n) = PhasesOf(st, n)
    BY <1>1, SamePlan
<1>3. /\ raised # "unresolved"
      /\ \A n \in Nodes(st) : st.node[n] = "queued" => Ahead(n)
    BY <1>1, <1>2, DrainMeans
<1> QED
    BY <1>2, <1>3 DEF Ahead, Nodes

LEMMA DrainStep ==
    SchedulerInv /\ OrderlyRunsDrain /\ [Next]_vars => OrderlyRunsDrain'
<1> SUFFICES ASSUME SchedulerInv, OrderlyRunsDrain, [Next]_vars PROVE OrderlyRunsDrain'
    OBVIOUS
<1>0. SoundState(st) /\ SoundState(cur)
    BY DEF SchedulerInv
<1>1. ASSUME UNCHANGED <<st, executed, orderly>>,
             raised' = raised \/ raised' \in {"factory", "none"}
      PROVE  OrderlyRunsDrain'
  <2>1. PICK s : s = st
    OBVIOUS
  <2> QED
    BY <1>1, <2>1, DrainStays
<1>2. CASE AdvancePhase
  <2>1. PICK s : s = AdvancedPhase(st)
    OBVIOUS
  <2>2. /\ st' = s /\ executed' = FALSE /\ raised' = "none"
        /\ executed \/ Unresolved(st) = {} \/ orderly' = FALSE
        /\ orderly' => orderly
    BY <1>2, <2>1 DEF AdvancePhase, EnterPhase, Become
  <2>3. s.phase = st.phase + 1 /\ s.plan = st.plan /\ s.node = st.node
    BY <1>0, <1>2, <2>1, AdvancedIsSound DEF AdvancePhase
  <2>4. st.phase \in Nat
    BY <1>0, Phases DEF SoundState, MachineState
  <2>5. SUFFICES ASSUME orderly', Ordered(s), NEW n \in Nodes(s), s.node[n] = "queued"
                 PROVE  \E i \in PhasesOf(s, n) : i > s.phase \/ i = s.phase
    BY <2>2 DEF OrderlyRunsDrain, Ordered
  <2>6. PhasesOf(s, n) = PhasesOf(st, n) /\ Ordered(st) /\ n \in Nodes(st)
    BY <2>3, <2>5, SamePlan DEF Nodes
  <2>7. PICK i \in PhasesOf(st, n) : i > st.phase \/ (i = st.phase /\ ~executed)
    BY <2>2, <2>3, <2>5, <2>6, DrainMeans DEF Ahead
  <2>8. i # st.phase \/ executed
    BY <2>2, <2>3, <2>5, <2>6, <2>7 DEF Unresolved
  <2>9. CapabilityOf(st, n) \in Capability
    BY <1>0, <2>6, CapabilityTyped
  <2>10. i \in Nat
    BY <2>7, <2>9, PhasesAreIntervals DEF PhasesOf
  <2>11. i > s.phase \/ i = s.phase
    BY <2>3, <2>4, <2>7, <2>8, <2>10
  <2> QED
    BY <2>6, <2>7, <2>11
<1>3. CASE ApprovePlan
  <2>1. PICK p \in DOMAIN WorkPlan : CanApprove(st, p) /\ EnterPhase(Approved(st, p))
    BY <1>3 DEF ApprovePlan
  <2>2. PICK s : s = Approved(st, p)
    OBVIOUS
  <2>3. st' = s /\ executed' = FALSE /\ raised' = "none"
    BY <2>1, <2>2 DEF EnterPhase, Become
  <2>4. /\ SoundState(s) /\ p \in AcceptedPlans /\ s.phase = PlanApproval /\ s.plan = p
        /\ Nodes(s) \subseteq Bootstrap \cup PlanNodes(WorkPlan[p])
        /\ \A n \in Bootstrap \cap Nodes(s) : s.node[n] = st.node[n]
    BY <1>0, <2>1, <2>2, ApprovedIsSound, PlanFacts
  <2>5. SUFFICES ASSUME Ordered(s), NEW n \in Nodes(s), s.node[n] = "queued"
                 PROVE  \E i \in PhasesOf(s, n) : i > s.phase
    BY <2>3 DEF OrderlyRunsDrain, Ordered
  <2>6. n \notin Bootstrap
    BY <2>1, <2>4, <2>5, Words DEF CanApprove
  <2>7. n \in PlanNodes(WorkPlan[p]) /\ InOrder(WorkPlan[p])
    BY <2>4, <2>5, <2>6, PlanFacts DEF Ordered, PlanOf
  <2>8. CapabilityOf(s, n) = WorkPlan[p].capability[n]
    BY <2>4, <2>6, Words DEF CapabilityOf, PlanOf
  <2>9. First(CapabilityOf(s, n)) > PlanApproval
    BY <2>7, <2>8 DEF InOrder
  <2>10. CapabilityOf(s, n) \in Capability
    BY <2>4, <2>5, CapabilityTyped
  <2>11. First(CapabilityOf(s, n)) \in PhasesOf(s, n)
    BY <2>10, PhasesAreIntervals DEF PhasesOf
  <2> QED
    BY <2>4, <2>9, <2>11
<1>4. CASE TransitionSection
  <2>1. PICK c \in Sections(st) : \E target \in SectionWork \cup SectionTerminal :
            CanTransitionSection(st, c, target) /\ InPlace(SectionMoved(st, c, target))
    BY <1>4 DEF TransitionSection
  <2>2. PICK target \in SectionWork \cup SectionTerminal :
            CanTransitionSection(st, c, target) /\ InPlace(SectionMoved(st, c, target))
    BY <2>1
  <2>3. PICK s : s = SectionMoved(st, c, target)
    OBVIOUS
  <2>4. st' = s /\ executed' = executed /\ orderly' = orderly /\ raised' = "none"
    BY <2>2, <2>3 DEF InPlace, Become
  <2>5. s.plan = st.plan /\ s.phase = st.phase /\ s.node = st.node
    BY <1>0, <2>1, <2>2, <2>3, SectionMovedIsSound
  <2> QED
    BY <2>4, <2>5, DrainStays
<1>5. CASE CutOff
  <2>1. PICK s : s = HardCutoff(st)
    OBVIOUS
  <2>2. /\ s # st /\ st' = s /\ executed' = executed /\ orderly' = orderly
        /\ raised' = "none"
    BY <1>5, <2>1 DEF CutOff, InPlace, Become
  <2>3. s.plan = st.plan /\ s.phase = st.phase /\ s.node = st.node
    BY <1>0, <2>1, <2>2, CutOffIsSound
  <2> QED
    BY <2>2, <2>3, DrainStays
<1>6. CASE FinalizeClarification
  <2>1. PICK s : s = Finalized(st, "clarification_result")
    OBVIOUS
  <2>2. /\ CanFinalizeClarification(st) /\ st' = s /\ executed' = executed
        /\ orderly' = orderly /\ raised' = "none"
    BY <1>6, <2>1 DEF FinalizeClarification, InPlace, Become
  <2>3. s.plan = st.plan /\ s.phase = st.phase /\ s.node = st.node
    BY <1>0, <2>1, <2>2, FinalizedIsSound
  <2> QED
    BY <2>2, <2>3, DrainStays
<1>7. CASE FinalizeOrchestration
  <2>1. PICK s : s = Finalized(st, DerivedTerminal(st))
    OBVIOUS
  <2>2. /\ CanFinalize(st) /\ st' = s /\ executed' = executed
        /\ orderly' = orderly /\ raised' = "none"
    BY <1>7, <2>1 DEF FinalizeOrchestration, InPlace, Become
  <2>3. s.plan = st.plan /\ s.phase = st.phase /\ s.node = st.node
    BY <1>0, <2>1, <2>2, FinalizedIsSound
  <2> QED
    BY <2>2, <2>3, DrainStays
<1>8. CASE EndPhase
  <2>1. /\ call = "executing" /\ DOMAIN wave = {} /\ ReadyNodes(cur) = {} /\ orderly' = orderly
    BY <1>8 DEF EndPhase, Raise
  <2>2. /\ InCall /\ cur.plan = st.plan /\ cur.phase = st.phase
    BY <2>1 DEF SchedulerInv, InCall
  <2>3. CASE Unresolved(cur) # {}
    <3>1. st' = st
      BY <1>8, <2>3 DEF EndPhase, Raise
    <3>2. ~(orderly /\ Ordered(st))
      BY <2>1, <2>3, NoDeadEnd
    <3> QED
      BY <2>1, <3>1, <3>2 DEF OrderlyRunsDrain, Ordered
  <2>4. CASE Unresolved(cur) = {}
    <3>1. st' = cur /\ raised' = "none"
      BY <1>8, <2>4 DEF EndPhase
    <3>2. SUFFICES ASSUME orderly', Ordered(cur), NEW n \in Nodes(cur), cur.node[n] = "queued"
                   PROVE  \E i \in PhasesOf(cur, n) : i > cur.phase
      BY <3>1 DEF OrderlyRunsDrain, Ordered
    <3>3. Nodes(st) = Nodes(cur)
      BY <1>0, <2>2 DEF SoundState, MachineState, Nodes
    <3>4. st.node[n] = "queued" /\ Ordered(st) /\ PhasesOf(cur, n) = PhasesOf(st, n)
      BY <2>2, <3>2, <3>3, SamePlan DEF InCall
    <3>5. PICK i \in PhasesOf(st, n) : i > st.phase \/ i = st.phase
      BY <2>1, <3>2, <3>3, <3>4, DrainMeans DEF Ahead
    <3>6. cur.phase \notin PhasesOf(cur, n)
      BY <2>4, <3>2 DEF Unresolved
    <3> QED
      BY <2>2, <3>4, <3>5, <3>6
  <2> QED
    BY <2>3, <2>4
<1>9. CASE Execute
    BY <1>1, <1>9 DEF Execute
<1>10. CASE BeginWave
    BY <1>1, <1>10 DEF BeginWave, Raise
<1>11. CASE EndWave
    BY <1>1, <1>11 DEF EndWave
<1>12. CASE \E n \in DOMAIN wave : Coroutine(n) \/ Return(n) \/ Fault(n)
    BY <1>1, <1>12 DEF Coroutine, BeginNode, AcquirePermit, AcquireSlot, Timeout, Return, Fault
<1>13. CASE ThreadEnds \/ Tick \/ UNCHANGED vars
    BY <1>1, <1>13 DEF ThreadEnds, Tick, vars
<1> QED
    BY <1>2, <1>3, <1>4, <1>5, <1>6, <1>7, <1>8, <1>9, <1>10, <1>11, <1>12, <1>13
    DEF Next, Caller

\* As long as the caller leaves no phase before a call has returned for it, no
\* call ends with queued nodes that its phase should have executed, and every
\* queued node has a phase to come, whatever fails, times out or is cut off
\* (execute_ready_phase, advance_phase, approve_work_plan).
THEOREM OrderlyRunsAlwaysDrain == Spec => []OrderlyRunsDrain
<1>1. Init => OrderlyRunsDrain
  <2> SUFFICES ASSUME Init, NEW n \in Nodes(st)
               PROVE  raised # "unresolved" /\ \E i \in PhasesOf(st, n) : i > st.phase
    BY DEF OrderlyRunsDrain, Init
  <2>0. PICK role \in EntityRole : st = InitialOrchestration(role)
    BY DEF Init
  <2>1. st.phase = 0 /\ Nodes(st) = Bootstrap /\ raised = "none"
    BY <2>0, InitialIsSound DEF Init
  <2>2. PhasesOf(st, n) = {1}
    BY <2>1, Words DEF PhasesOf, CapabilityOf, ActivationPhases
  <2> QED
    BY <2>1, <2>2
<1> QED
    BY <1>1, DrainStep, SchedulerInvHolds, PTL DEF Spec

-----------------------------------------------------------------------------
(* Persistence.                                                             *)

\* What persistence sees of a sound state is valid.
LEMMA AbstractIsValid ==
    ASSUME NEW s, SoundState(s)
    PROVE  Persisted!ValidState(Abstract(s))
<1>1. Abstract(s).terminal = s.terminal /\ Abstract(s).phase = s.phase
    BY DEF Abstract
<1>2. SUFFICES ASSUME s.terminal # "none"
               PROVE  /\ \A n \in AllNodes : Abstract(s).node[n] \in {"success", "unavailable"}
                      /\ \A c \in AllSections : Abstract(s).section[c] = "terminal"
                      /\ s.terminal # "clarification_result" => s.phase = Completion
    BY <1>1 DEF Persisted!ValidState, Persisted!NoTerminal, Persisted!NodeTerminal
<1>3. /\ ~Open(s) /\ \A n \in Nodes(s) : s.node[n] \in NodeTerminal
      /\ \A c \in Sections(s) : s.section[c] \in SectionTerminal
      /\ s.terminal = "clarification_result" \/ s.phase = Completion
    BY <1>2 DEF SoundState, Settled, Open
<1>4. ASSUME NEW n \in AllNodes PROVE Abstract(s).node[n] \in {"success", "unavailable"}
  <2>1. Abstract(s).node[n] =
            IF n \notin Nodes(s) THEN IF Open(s) THEN "queued" ELSE "success"
            ELSE IF s.node[n] \in {"queued", "active", "unavailable"} THEN s.node[n]
            ELSE "success"
    BY DEF Abstract
  <2> QED
    BY <1>3, <2>1, Words
<1>5. ASSUME NEW c \in AllSections PROVE Abstract(s).section[c] = "terminal"
  <2>1. Abstract(s).section[c] =
            IF c \in Sections(s) /\ s.section[c] \in SectionWork THEN "planned"
            ELSE IF c \notin Sections(s) /\ Open(s) THEN "planned" ELSE "terminal"
    BY DEF Abstract
  <2> QED
    BY <1>3, <2>1, Words
<1> QED
    BY <1>3, <1>4, <1>5

\* A step of an open run that keeps what has ended is progress to persistence.
LEMMA AbstractProgress ==
    ASSUME NEW s, NEW t, SoundState(s), SoundState(t), Open(s), s.phase <= t.phase,
           \A n \in Nodes(s) :
              /\ n \in Nodes(t) /\ s.node[n] # "active"
              /\ s.node[n] \in NodeTerminal => t.node[n] = s.node[n],
           \A c \in Sections(s) :
              c \in Sections(t) /\ (s.section[c] \in SectionTerminal
                                        => t.section[c] \in SectionTerminal)
    PROVE  Persisted!Progress(Abstract(s), Abstract(t))
<1> DEFINE NodeOf(x, n) ==
               IF n \notin Nodes(x) THEN IF Open(x) THEN "queued" ELSE "success"
               ELSE IF x.node[n] \in {"queued", "active", "unavailable"} THEN x.node[n]
               ELSE "success"
           SectionOf(x, c) ==
               IF c \in Sections(x) /\ x.section[c] \in SectionWork THEN "planned"
               ELSE IF c \notin Sections(x) /\ Open(x) THEN "planned" ELSE "terminal"
<1>1. ASSUME NEW x
      PROVE  /\ Abstract(x).terminal = x.terminal /\ Abstract(x).phase = x.phase
             /\ \A n \in AllNodes : Abstract(x).node[n] = NodeOf(x, n)
             /\ \A c \in AllSections : Abstract(x).section[c] = SectionOf(x, c)
    BY DEF Abstract
<1>2. s.terminal = "none" /\ s.phase \in Nat /\ t.phase \in Nat
    BY Phases DEF Open, SoundState, MachineState
<1>3. ASSUME NEW n \in AllNodes
      PROVE  /\ NodeOf(s, n) \in {"success", "unavailable"} => NodeOf(t, n) = NodeOf(s, n)
             /\ NodeOf(s, n) = "active" => NodeOf(t, n) # "queued"
  <2>1. CASE n \notin Nodes(s)
    <3>1. NodeOf(s, n) = "queued"
      BY <2>1
    <3> QED
      BY <3>1
  <2>2. CASE n \in Nodes(s) /\ s.node[n] \in NodeTerminal
    <3>1. NodeOf(t, n) = NodeOf(s, n) /\ NodeOf(s, n) # "active"
      BY <2>2, Words
    <3> QED
      BY <3>1
  <2>3. CASE n \in Nodes(s) /\ s.node[n] \notin NodeTerminal
    <3>1. s.node[n] = "queued"
      BY <2>3, Words DEF SoundState, MachineState, Nodes
    <3>2. NodeOf(s, n) = "queued"
      BY <2>3, <3>1
    <3> QED
      BY <3>2
  <2> QED
    BY <2>1, <2>2, <2>3
<1>4. ASSUME NEW c \in AllSections, SectionOf(s, c) = "terminal"
      PROVE  SectionOf(t, c) = "terminal"
  <2>1. c \in Sections(s) /\ s.section[c] \notin SectionWork
    BY <1>4
  <2>2. s.section[c] \in SectionTerminal
    BY <2>1 DEF SoundState, MachineState, Sections
  <2>3. c \in Sections(t) /\ t.section[c] \notin SectionWork
    BY <2>1, <2>2, Words
  <2> QED
    BY <2>3
<1> HIDE DEF NodeOf, SectionOf
<1> QED
    BY <1>1, <1>2, <1>3, <1>4
    DEF Persisted!Progress, Persisted!NoTerminal, Persisted!NodeTerminal

\* A settled node that an open run drops is refused.
LEMMA DroppedIsRefused ==
    ASSUME NEW s, NEW t, Open(t), NEW n \in Nodes(s), n \notin Nodes(t), n \in AllNodes,
           s.node[n] \in NodeTerminal
    PROVE  ~Persisted!Progress(Abstract(s), Abstract(t))
<1>1. Abstract(s).node[n] = IF s.node[n] \in {"queued", "active", "unavailable"}
                            THEN s.node[n] ELSE "success"
    BY DEF Abstract
<1>2. Abstract(t).node[n] = "queued"
    BY DEF Abstract
<1>3. Abstract(s).node[n] \in {"success", "unavailable"}
    BY <1>1, Words
<1> QED
    BY <1>2, <1>3 DEF Persisted!Progress, Persisted!NodeTerminal

LEMMA PersistStep ==
    ASSUME SchedulerInv, Next, st' # st
    PROVE  /\ Persisted!ValidState(Abstract(st'))
           /\ Persisted!Progress(Abstract(st), Abstract(st')) <=> Nodes(st) \subseteq Nodes(st')
<1>0. /\ SoundState(st) /\ SoundState(cur)
      /\ \A n \in Nodes(st) : st.node[n] # "active"
    BY DEF SchedulerInv
<1>1. PICK s : s = st'
    OBVIOUS
<1>2. SoundState(s)
  <2>1. SchedulerInv'
    BY SchedulerStep
  <2> QED
    BY <1>1, <2>1 DEF SchedulerInv
<1>3. SUFFICES
        /\ Open(st) /\ st.phase <= s.phase
        /\ \A n \in Nodes(st) \cap Nodes(s) :
              st.node[n] \in NodeTerminal => s.node[n] = st.node[n]
        /\ \/ Nodes(st) \subseteq Nodes(s)
           \/ Open(s) /\ \A n \in Nodes(st) : n \in Bootstrap /\ st.node[n] \in NodeTerminal
        /\ \A c \in Sections(st) :
              c \in Sections(s) /\ (st.section[c] \in SectionTerminal
                                         => s.section[c] \in SectionTerminal)
  <2>1. Persisted!ValidState(Abstract(st'))
    BY <1>1, <1>2, AbstractIsValid
  <2>2. CASE Nodes(st) \subseteq Nodes(s)
    <3>1. Persisted!Progress(Abstract(st), Abstract(s))
      BY <1>0, <1>2, <1>3, <2>2, AbstractProgress
    <3> QED
      BY <1>1, <2>1, <2>2, <3>1
  <2>3. CASE ~(Nodes(st) \subseteq Nodes(s))
    <3>1. PICK n \in Nodes(st) : n \notin Nodes(s)
      BY <2>3
    <3>2. Open(s) /\ n \in AllNodes /\ st.node[n] \in NodeTerminal
      BY <1>3, <2>3, <3>1 DEF AllNodes
    <3>3. ~Persisted!Progress(Abstract(st), Abstract(s))
      BY <3>1, <3>2, DroppedIsRefused
    <3> QED
      BY <1>1, <2>1, <2>3, <3>3
  <2> QED
    BY <2>2, <2>3
<1>4. st.phase \in Nat /\ s.phase \in Nat
    BY <1>0, <1>2, Phases DEF SoundState, MachineState
<1>5. CASE AdvancePhase
  <2>1. s = AdvancedPhase(st) /\ CanAdvancePhase(st)
    BY <1>1, <1>5 DEF AdvancePhase, EnterPhase, Become
  <2>2. /\ s.phase = st.phase + 1 /\ s.node = st.node /\ s.section = st.section
        /\ st.terminal = "none"
    BY <1>0, <2>1, AdvancedIsSound
  <2> QED
    BY <1>4, <2>2 DEF Open, Nodes, Sections
<1>6. CASE ApprovePlan
  <2>1. PICK p \in DOMAIN WorkPlan : CanApprove(st, p) /\ EnterPhase(Approved(st, p))
    BY <1>6 DEF ApprovePlan
  <2>2. s = Approved(st, p)
    BY <1>1, <2>1 DEF EnterPhase, Become
  <2>3. /\ st.plan = NoPlan /\ st.terminal = "none" /\ st.phase = Interpretation
        /\ s.phase = PlanApproval /\ s.terminal = "none"
        /\ \A n \in Bootstrap \cap Nodes(s) : s.node[n] = st.node[n]
        /\ \A n \in Bootstrap : st.node[n] \in NodeTerminal
    BY <1>0, <2>1, <2>2, ApprovedIsSound
  <2>4. Nodes(st) = Bootstrap /\ Sections(st) = {}
    BY <1>0, <2>3 DEF SoundState, MachineState, NodesOf, SectionsOf, Nodes, Sections
  <2> QED
    BY <2>3, <2>4, Phases DEF Open
<1>7. CASE TransitionSection
  <2>1. PICK c \in Sections(st) : \E target \in SectionWork \cup SectionTerminal :
            CanTransitionSection(st, c, target) /\ InPlace(SectionMoved(st, c, target))
    BY <1>7 DEF TransitionSection
  <2>2. PICK target \in SectionWork \cup SectionTerminal :
            CanTransitionSection(st, c, target) /\ InPlace(SectionMoved(st, c, target))
    BY <2>1
  <2>3. s = SectionMoved(st, c, target)
    BY <1>1, <2>2 DEF InPlace, Become
  <2>4. /\ s.phase = st.phase /\ s.node = st.node /\ st.terminal = "none"
        /\ st.section[c] \in SectionWork /\ Sections(s) = Sections(st)
        /\ \A d \in Sections(st) : d # c => s.section[d] = st.section[d]
    BY <1>0, <2>1, <2>2, <2>3, SectionMovedIsSound
  <2>5. \A d \in Sections(st) :
            st.section[d] \in SectionTerminal => s.section[d] \in SectionTerminal
    BY <2>4, Words
  <2> QED
    BY <1>4, <2>4, <2>5 DEF Open, Nodes
<1>8. CASE CutOff
  <2>1. s = HardCutoff(st) /\ s # st
    BY <1>1, <1>8 DEF CutOff, InPlace, Become
  <2>2. /\ s.phase = st.phase /\ s.node = st.node /\ st.terminal = "none"
        /\ DOMAIN s.section = DOMAIN st.section
        /\ \A c \in Sections(st) : s.section[c] \in SectionTerminal
    BY <1>0, <2>1, CutOffIsSound
  <2> QED
    BY <1>4, <2>2 DEF Open, Nodes, Sections
<1>9. CASE FinalizeClarification
  <2>1. s = Finalized(st, "clarification_result") /\ CanFinalizeClarification(st)
    BY <1>1, <1>9 DEF FinalizeClarification, InPlace, Become
  <2>2. /\ s.phase = st.phase /\ s.node = st.node /\ st.terminal = "none"
        /\ s.section = st.section
    BY <1>0, <2>1, FinalizedIsSound
  <2> QED
    BY <1>4, <2>2 DEF Open, Nodes, Sections
<1>10. CASE FinalizeOrchestration
  <2>1. s = Finalized(st, DerivedTerminal(st)) /\ CanFinalize(st)
    BY <1>1, <1>10 DEF FinalizeOrchestration, InPlace, Become
  <2>2. /\ s.phase = st.phase /\ s.node = st.node /\ st.terminal = "none"
        /\ s.section = st.section
    BY <1>0, <2>1, FinalizedIsSound
  <2> QED
    BY <1>4, <2>2 DEF Open, Nodes, Sections
<1>11. CASE EndPhase
  <2>1. call = "executing" /\ s = cur
    BY <1>1, <1>11 DEF EndPhase, Raise
  <2>2. InCall
    BY <2>1 DEF SchedulerInv
  <2>3. Nodes(s) = Nodes(st)
    BY <1>0, <2>1, <2>2 DEF InCall, SoundState, MachineState, Nodes
  <2>4. \A n \in Nodes(st) : st.node[n] \in NodeTerminal => s.node[n] = st.node[n]
    BY <2>1, <2>2, Words DEF InCall
  <2> QED
    BY <1>4, <2>1, <2>2, <2>3, <2>4 DEF InCall, Sections
<1>12. ~Execute /\ ~BeginWave /\ ~EndWave /\ ~ThreadEnds /\ ~Tick
    BY DEF Execute, BeginWave, EndWave, ThreadEnds, Tick, Raise
<1>13. ASSUME NEW n PROVE ~(Coroutine(n) \/ Return(n) \/ Fault(n))
    BY DEF Coroutine, BeginNode, AcquirePermit, AcquireSlot, Timeout, Return, Fault
<1> QED
    BY <1>5, <1>6, <1>7, <1>8, <1>9, <1>10, <1>11, <1>12, <1>13 DEF Next, Caller

\* Whatever the caller does with the machine and the scheduler, every state is
\* valid (OrchestrationState.validate_state), and persistence accepts it as
\* successor of the one before it (validate_orchestration_progress), unless it is
\* the approval of a plan that does not keep both bootstrap nodes
\* (approve_work_plan): that, and nothing else, it refuses.
THEOREM StepsAlwaysPersist == Spec => StepsPersist
<1>1. SchedulerInv /\ [Next]_vars =>
          [/\ Persisted!ValidState(Abstract(st'))
           /\ Persisted!Progress(Abstract(st), Abstract(st'))
                <=> Nodes(st) \subseteq Nodes(st')]_st
    BY PersistStep DEF vars
<1> QED
    BY <1>1, SchedulerInvHolds, PTL DEF Spec, StepsPersist

-----------------------------------------------------------------------------
(* The publication of answers.                                             *)

\* What the theorems about publication assume of the constants.
PublishingSetting == MaxDay \in Nat /\ MaxVersion \in Nat /\ Unit # {}

\* A judgment names the evidence it rests on.
LEMMA JudgmentsAreGrounded ==
    ASSUME PublishingSetting
    PROVE  \A J \in MCVerdicts : J # {} /\ \A j \in J : j.ids # {}
<1> SUFFICES ASSUME PublishingSetting, NEW J \in MCVerdicts
             PROVE  J # {} /\ \A j \in J : j.ids # {}
    OBVIOUS
<1>1. \/ \E o, l : J = {Judgment(o, l, Unit)}
      \/ J = {Judgment("supported", 3, {1})}
      \/ J = {Judgment("supported", 3, {1}), Judgment("partial", 1, {2})}
    BY DEF MCVerdicts
<1>2. \A o, l, S : Judgment(o, l, S).ids = S
    BY DEF Judgment
<1> HIDE DEF Judgment
<1> QED
    BY <1>1, <1>2 DEF PublishingSetting

\* The instances count as this module does.
LEMMA CountedPublishing ==
    \A S : Publishing!Cardinality(S) = Cardinality(S)
BY Zenon DEF Publishing!Cardinality, Cardinality

LEMMA CountedPolicies ==
    \A S : Policies!Cardinality(S) = Cardinality(S)
BY Zenon DEF Policies!Cardinality, Cardinality

RecordOK(x) ==
    x.avail \in Publishing!Day /\ x.on \in Publishing!Day /\ x.status \in Publishing!Status

FamilyOK(v) ==
    /\ v = [records |-> v.records, edges |-> v.edges]
    /\ Publishing!Versions(v) \subseteq 1..MaxVersion
    /\ \A r \in Publishing!Versions(v) : RecordOK(v.records[r])
    /\ \A e \in v.edges :
          /\ e.from \in Publishing!Versions(v) /\ e.to \in 1..MaxVersion
          /\ e.kind \in Publishing!Kind /\ e.on \in Publishing!Day

-----------------------------------------------------------------------------
\* Of some numbers up to a bound one is the highest.
LEMMA TopExists ==
    ASSUME NEW n \in Nat, NEW S \in SUBSET (0..n), S # {}
    PROVE  \E x \in S : \A y \in S : y <= x
<1> DEFINE T == {n - k : k \in S}
<1>1. T \subseteq Nat /\ T # {}
  <2>1. \A k \in S : n - k \in Nat
      OBVIOUS
  <2> QED
      BY <2>1
<1>2. PICK t \in T : \A y \in T : ~(<<y, t>> \in OpToRel(<, Nat))
    BY <1>1, WFMin, NatLessThanWellFounded
<1>3. \A y \in T : t <= y
  <2>1. \A y \in T : ~(y < t)
      BY <1>1, <1>2 DEF OpToRel
  <2>2. t \in T
      BY <1>2
  <2> HIDE DEF T
  <2> QED
      BY <1>1, <2>1, <2>2
<1>4. PICK x \in S : t = n - x
    OBVIOUS
<1>5. ASSUME NEW y \in S PROVE y <= x
  <2>1. n - y \in T
      OBVIOUS
  <2>2. n - x <= n - y
      BY <1>3, <1>4, <2>1
  <2> HIDE DEF T
  <2> QED
      BY <2>2
<1> QED
    BY <1>5

\* What happened to a version has dates, and one of them is the last.
LEMMA EventsDated ==
    ASSUME NEW v, FamilyOK(v), NEW r \in Publishing!Versions(v),
           NEW d \in Publishing!Day
    PROVE  /\ Publishing!Events(v, r, d) # {}
           /\ \A e \in Publishing!Events(v, r, d) :
                 e.on \in Publishing!Day /\ e.status \in Publishing!Status
<1>1. RecordOK(v.records[r])
    BY DEF FamilyOK
<1>2. /\ Publishing!Declared(v.records[r], d).on \in Publishing!Day
      /\ Publishing!Declared(v.records[r], d).status \in Publishing!Status
    BY <1>1 DEF RecordOK, Publishing!Declared, Publishing!Status
<1>3. \A e \in v.edges : e.on \in Publishing!Day
    BY DEF FamilyOK
<1> QED
    BY <1>2, <1>3 DEF Publishing!Events, Publishing!Status

\* A version has one status on a day on which it is known.
LEMMA StatusExists ==
    ASSUME PublishingSetting, NEW v, FamilyOK(v), NEW r \in Publishing!Versions(v),
           NEW d \in Publishing!Day
    PROVE  /\ Publishing!NewestStatuses(v, r, d) # {}
           /\ Publishing!NewestStatuses(v, r, d) \subseteq Publishing!Status
<1> DEFINE all == Publishing!Events(v, r, d)
           dates == {e.on : e \in all}
<1>1. all # {} /\ \A e \in all : e.on \in Publishing!Day /\ e.status \in Publishing!Status
    BY EventsDated
<1> HIDE DEF all
<1>2. dates # {} /\ dates \subseteq 0..MaxDay /\ MaxDay \in Nat
    BY <1>1 DEF Publishing!Day, PublishingSetting
<1>3. PICK t \in dates : \A y \in dates : y <= t
    BY <1>2, TopExists
<1>4. PICK e \in all : e.on = t
    OBVIOUS
<1>5. \A y \in all : y.on <= e.on
    BY <1>3, <1>4
<1>6. Publishing!NewestStatuses(v, r, d) =
        {x.status : x \in {z \in all : \A y \in all : y.on <= z.on}}
    BY DEF Publishing!NewestStatuses, all
<1> QED
    BY <1>1, <1>4, <1>5, <1>6

\* A version that is not said to be two things is what StatusOf says.
LEMMA OneStatus ==
    ASSUME PublishingSetting, NEW v, FamilyOK(v), NEW r \in Publishing!Versions(v),
           NEW d \in Publishing!Day,
           ~(Cardinality(Publishing!NewestStatuses(v, r, d)) > 1)
    PROVE  Publishing!NewestStatuses(v, r, d) = {Publishing!StatusOf(v, r, d)}
<1> DEFINE N == Publishing!NewestStatuses(v, r, d)
<1>1. N # {} /\ N \subseteq Publishing!Status
    BY StatusExists
<1>2. IsFiniteSet(Publishing!Status)
  <2>1. Publishing!Status = {"draft", "in_force"} \cup {"superseded", "repealed"} \cup {"unknown"}
      BY DEF Publishing!Status
  <2>2. /\ IsFiniteSet({"draft"}) /\ IsFiniteSet({"in_force"}) /\ IsFiniteSet({"superseded"})
        /\ IsFiniteSet({"repealed"}) /\ IsFiniteSet({"unknown"})
      BY FS_Singleton
  <2>3. Publishing!Status = ((({"draft"} \cup {"in_force"}) \cup {"superseded"}) \cup {"repealed"})
                 \cup {"unknown"}
      BY <2>1
  <2> QED
      BY <2>2, <2>3, FS_Union
<1>3. IsFiniteSet(N)
    BY <1>1, <1>2, FS_Subset
<1> HIDE DEF N
<1>4. Cardinality(N) \in Nat /\ Cardinality(N) # 0
    BY <1>1, <1>3, FS_CardinalityType, FS_EmptySet
<1>5. Cardinality(N) = 1
    BY <1>4 DEF N
<1>6. PICK x : N = {x}
    BY <1>3, <1>5, FS_Singleton
<1> QED
    BY <1>6 DEF N, Publishing!StatusOf

\* Among some versions there is the newest.
LEMMA NewestIs ==
    ASSUME PublishingSetting, NEW v, FamilyOK(v), NEW R \in SUBSET Publishing!Versions(v), R # {}
    PROVE  Publishing!Newest(v, R) \in R
<1> DEFINE days == {v.records[r].avail : r \in R}
<1>1. days # {} /\ days \subseteq 0..MaxDay /\ MaxDay \in Nat /\ MaxVersion \in Nat
    BY DEF FamilyOK, RecordOK, Publishing!Day, PublishingSetting
<1>2. PICK t \in days : \A y \in days : y <= t
    BY <1>1, TopExists
<1> DEFINE last == {r \in R : v.records[r].avail = t}
<1>3. last # {} /\ last \subseteq 0..MaxVersion
    BY DEF FamilyOK
<1>4. PICK m \in last : \A y \in last : y <= m
    BY <1>1, <1>3, TopExists
<1>5. \A x \in R : \/ v.records[x].avail < v.records[m].avail
                  \/ (v.records[x].avail = v.records[m].avail /\ x <= m)
  <2> SUFFICES ASSUME NEW x \in R
               PROVE  \/ v.records[x].avail < v.records[m].avail
                      \/ (v.records[x].avail = v.records[m].avail /\ x <= m)
      OBVIOUS
  <2>1. v.records[m].avail = t /\ v.records[x].avail <= t
      BY <1>2
  <2>2. v.records[x].avail \in 0..MaxDay /\ t \in 0..MaxDay
      BY <1>1
  <2>3. v.records[x].avail = t => x <= m
      BY <1>4
  <2> HIDE DEF days, last
  <2> QED
      BY <1>1, <2>1, <2>2, <2>3
<1> QED
    BY <1>5 DEF Publishing!Newest

-----------------------------------------------------------------------------
(* The invariant of the publication.                                        *)

\* What a status that was validated means: no version is said to be two things;
\* the versions in force were selected, or the newest of those that ended when
\* none is, or the newest draft where a draft was asked for.
LEMMA ResolvedMeans ==
    ASSUME PublishingSetting, NEW v, FamilyOK(v), NEW c, NEW mode \in Publishing!Mode,
           NEW d \in Publishing!Day,
           Publishing!Resolve(v, c, mode, d).outcome = Publishing!Validated(mode)
    PROVE  /\ \A r \in Publishing!Eligible(v, d) :
                 ~(Cardinality(Publishing!NewestStatuses(v, r, d)) > 1)
           /\ LET S == Publishing!Resolve(v, c, mode, d).selected
              IN /\ mode = "draft" => S \subseteq Publishing!With(v, d, {"draft"})
                 /\ mode # "draft" =>
                       \/ S \subseteq Publishing!With(v, d, {"in_force"})
                       \/ S \subseteq Publishing!With(v, d, Publishing!Terminal)
                          /\ Publishing!With(v, d, {"in_force"}) = {}
<1>1. /\ Publishing!With(v, d, {"draft"}) \subseteq Publishing!Versions(v)
      /\ Publishing!With(v, d, Publishing!Terminal) \subseteq Publishing!Versions(v)
    BY DEF Publishing!With, Publishing!Eligible
<1>2. /\ Publishing!With(v, d, {"draft"}) # {} =>
            Publishing!Newest(v, Publishing!With(v, d, {"draft"}))
                \in Publishing!With(v, d, {"draft"})
      /\ Publishing!With(v, d, Publishing!Terminal) # {} =>
            Publishing!Newest(v, Publishing!With(v, d, Publishing!Terminal))
                \in Publishing!With(v, d, Publishing!Terminal)
    BY <1>1, NewestIs
<1>3. Publishing!Validated(mode) \notin {"unknown", "invalid_lineage", "contradictory", "no_match"}
    BY DEF Publishing!Validated, Publishing!Mode
<1> QED
    BY <1>2, <1>3, CountedPublishing DEF Publishing!Resolve, Publishing!Decision

-----------------------------------------------------------------------------
\* What is written of an answer: the request it came with, the units admitted
\* for it, its claim, and how far its verification is.
Question == [mode : Publishing!Mode \cup {"none"}, as_of : Publishing!Day, at : Publishing!Day]

\* The bundle, the admission, the claim and the attempt, each beside what it
\* rests on.
BundleOK ==
    bundle # Publishing!Nothing =>
        /\ bundle = [question |-> bundle.question, view |-> bundle.view,
                     coverage |-> bundle.coverage, decision |-> bundle.decision,
                     units |-> bundle.units]
        /\ bundle.question \in Question
        /\ FamilyOK(bundle.view)

AdmissionOK ==
    admission # Publishing!Nothing =>
        /\ bundle # Publishing!Nothing
        /\ admission.admitted = {u \in Unit : Publishing!Admissible(bundle, admission.asked, u)}

ClaimOK ==
    claim # Publishing!Nothing =>
        /\ admission # Publishing!Nothing
        /\ claim.text \in Publishing!Wording /\ claim.text.tokens # {}
        /\ claim.supports \subseteq Unit

Try == [text : Publishing!Wording, ids : SUBSET Unit,
        outcome : {"contradiction", "unknown", "partial", "supported"}]

\* What a verification that goes on, or published prose, has in its hands.
Carried(a) ==
    /\ Publishing!Verifiable
    /\ a.text \in Publishing!Wording /\ a.text.tokens # {}
    /\ a.text.tokens \subseteq claim.text.tokens
    /\ a.ids \subseteq claim.supports

AttemptOK ==
    /\ attempt = [pc |-> attempt.pc, text |-> attempt.text, ids |-> attempt.ids,
                  tries |-> attempt.tries, corrected |-> attempt.corrected,
                  late |-> attempt.late, released |-> attempt.released,
                  result |-> attempt.result]
    /\ attempt.pc \in {"none", "asking", "ended"}
    /\ attempt.pc # "none" => claim # Publishing!Nothing
    /\ attempt.pc = "asking" =>
          /\ Carried(attempt)
          /\ attempt.tries \in Seq(Try)
          /\ Len(attempt.tries) = IF attempt.corrected THEN 1 ELSE 0
    /\ attempt.pc = "ended" /\ attempt.result.mode = "prose" =>
          /\ Carried(attempt)
          /\ attempt.tries \in Seq(Try) /\ Len(attempt.tries) \in {1, 2}
          /\ attempt.released /\ ~attempt.late
          /\ attempt.result.text = attempt.text
          /\ LET last == attempt.tries[Len(attempt.tries)]
             IN /\ last.text = attempt.text /\ last.outcome = "supported"
                /\ last.ids # {} /\ last.ids \subseteq claim.supports

PublicationInv ==
    /\ FamilyOK(family) /\ today \in Publishing!Day
    /\ BundleOK /\ AdmissionOK /\ ClaimOK /\ AttemptOK

-----------------------------------------------------------------------------
\* Only the one that brings a unit to prose says why it may be there.
LEMMA InvGrounds ==
    ASSUME PublishingSetting, PublicationInv
    PROVE  Publishing!PublishedIsGrounded
<1> SUFFICES ASSUME attempt.pc = "ended", attempt.result.mode = "prose"
             PROVE  Publishing!PublishedIsGrounded
    BY DEF Publishing!PublishedIsGrounded
<1> DEFINE q == admission.asked
           d == Publishing!EvaluatedFor(q)
           v == bundle.view
           last == attempt.tries[Len(attempt.tries)]
<1>1. /\ Carried(attempt) /\ Len(attempt.tries) <= 2 /\ attempt.released /\ ~attempt.late
      /\ attempt.result.text = attempt.text
      /\ last.text = attempt.text /\ last.outcome = "supported"
      /\ last.ids # {} /\ last.ids \subseteq claim.supports
    BY DEF PublicationInv, AttemptOK
<1>2. claim # Publishing!Nothing /\ admission # Publishing!Nothing /\ bundle # Publishing!Nothing
    BY DEF PublicationInv, AttemptOK, ClaimOK, AdmissionOK
<1>3. /\ attempt.text.tokens \subseteq claim.text.tokens /\ attempt.text.tokens # {}
      /\ claim.supports = admission.admitted
      /\ \A u \in claim.supports : drifted[u] \cap {"source"} = {}
    BY <1>1 DEF Carried, Publishing!Verifiable
<1>4. bundle.question \in Question /\ FamilyOK(v)
    BY <1>2 DEF PublicationInv, BundleOK
<1>5. ASSUME NEW u \in claim.supports
      PROVE  /\ bundle.units[u].flaw = "none"
             /\ q.mode \in {"current", "as_of"} =>
                  /\ q.at = bundle.question.at
                  /\ {bundle.units[u].label} =
                         Publishing!NewestStatuses(v, bundle.units[u].version, d)
                  /\ bundle.units[u].label \in {"in_force"} \cup Publishing!Terminal
                  /\ bundle.units[u].label \in Publishing!Terminal =>
                         Publishing!With(v, d, {"in_force"}) = {}
             /\ q.mode = "draft" => bundle.units[u].label = "draft"
  <2> DEFINE unit == bundle.units[u]
  <2>1. Publishing!Admissible(bundle, q, u)
      BY <1>2, <1>3 DEF PublicationInv, AdmissionOK
  <2>2. unit.flaw = "none" /\ Publishing!StatusAccepted(bundle, q, u)
      BY <2>1 DEF Publishing!Admissible
  <2>3. SUFFICES ASSUME q.mode \in Publishing!Mode
                 PROVE  /\ q.at = bundle.question.at
                        /\ {unit.label} = Publishing!NewestStatuses(v, unit.version, d)
                        /\ q.mode # "draft" =>
                             /\ unit.label \in {"in_force"} \cup Publishing!Terminal
                             /\ unit.label \in Publishing!Terminal =>
                                    Publishing!With(v, d, {"in_force"}) = {}
                        /\ q.mode = "draft" => unit.label = "draft"
      BY <2>2, Zenon DEF Publishing!Mode
  <2>4. bundle.question = q
      BY <2>2, <2>3 DEF Publishing!StatusAccepted, Publishing!Mode
  <2> DEFINE now == Publishing!Resolve(v, bundle.coverage, q.mode, d)
  <2>5. /\ now.outcome = Publishing!Validated(q.mode)
        /\ unit.version \in Publishing!Versions(v)
        /\ unit.version \in now.selected
        /\ unit.label = Publishing!StatusOf(v, unit.version, d)
      BY <2>2, <2>3, <2>4 DEF Publishing!StatusAccepted, Publishing!Mode
  <2>6. d \in Publishing!Day
      BY <1>4, <2>4 DEF Publishing!EvaluatedFor, Question
  <2> HIDE DEF d, v
  <2>7. /\ \A r \in Publishing!Eligible(v, d) :
             ~(Cardinality(Publishing!NewestStatuses(v, r, d)) > 1)
        /\ q.mode = "draft" => now.selected \subseteq Publishing!With(v, d, {"draft"})
        /\ q.mode # "draft" =>
              \/ now.selected \subseteq Publishing!With(v, d, {"in_force"})
              \/ now.selected \subseteq Publishing!With(v, d, Publishing!Terminal)
                 /\ Publishing!With(v, d, {"in_force"}) = {}
      BY <1>4, <2>3, <2>5, <2>6, ResolvedMeans
  <2>8. unit.version \in Publishing!Eligible(v, d)
      BY <2>3, <2>5, <2>7 DEF Publishing!With
  <2>9. Publishing!NewestStatuses(v, unit.version, d) = {Publishing!StatusOf(v, unit.version, d)}
      BY <1>4, <2>5, <2>6, <2>7, <2>8, OneStatus
  <2>10. q.mode = "draft" => unit.label = "draft"
      BY <2>5, <2>7 DEF Publishing!With
  <2>11. q.mode # "draft" =>
           /\ unit.label \in {"in_force"} \cup Publishing!Terminal
           /\ unit.label \in Publishing!Terminal => Publishing!With(v, d, {"in_force"}) = {}
      BY <2>5, <2>7 DEF Publishing!With, Publishing!Terminal
  <2> QED
      BY <2>4, <2>5, <2>9, <2>10, <2>11
<1> QED
    BY <1>1, <1>3, <1>5 DEF Publishing!PublishedIsGrounded

-----------------------------------------------------------------------------
(* Its steps.                                                               *)

\* One lemma for each handler of the publication.
LEMMA PublicationStarts ==
    ASSUME PublishingSetting, Publishing!PublicationInit
    PROVE  PublicationInv
<1>1. FamilyOK(family) /\ today \in Publishing!Day
    BY DEF Publishing!PublicationInit, FamilyOK, Publishing!Versions,
           Publishing!Day, PublishingSetting
<1>2. BundleOK /\ AdmissionOK /\ ClaimOK
    BY DEF Publishing!PublicationInit, BundleOK, AdmissionOK, ClaimOK
<1>3. AttemptOK
    BY DEF Publishing!PublicationInit, AttemptOK, Publishing!NoAttempt
<1> QED
    BY <1>1, <1>2, <1>3 DEF PublicationInv

\* What is observed of the family, and the days, are no part of an answer.
LEMMA ObservingKeeps ==
    ASSUME PublicationInv, FamilyOK(family'), today' \in Publishing!Day,
           UNCHANGED <<bundle, admission, drifted, claim, attempt>>
    PROVE  PublicationInv'
<1>1. BundleOK' /\ AdmissionOK' /\ ClaimOK'
    BY DEF PublicationInv, BundleOK, AdmissionOK, ClaimOK
<1>2. AttemptOK'
    BY DEF PublicationInv, AttemptOK, Carried, Publishing!Verifiable
<1> QED
    BY <1>1, <1>2 DEF PublicationInv

LEMMA ObserveVersionKeeps ==
    ASSUME PublishingSetting, PublicationInv, NEW r \in 1..MaxVersion, Publishing!ObserveVersion(r)
    PROVE  FamilyOK(family') /\ PublicationInv'
<1>1. PICK a \in 0..today, s \in Publishing!Status, on \in Publishing!Day :
        family' = [family EXCEPT !.records =
                      [x \in DOMAIN @ \cup {r} |->
                         IF x = r THEN [avail |-> a, status |-> s, on |-> on] ELSE @[x]]]
    BY DEF Publishing!ObserveVersion
<1>2. FamilyOK(family) /\ today \in Publishing!Day /\ a \in Publishing!Day
    BY DEF PublicationInv, Publishing!Day, PublishingSetting
<1>3. /\ family' = [records |-> family'.records, edges |-> family'.edges]
      /\ family'.edges = family.edges
      /\ DOMAIN family'.records = Publishing!Versions(family) \cup {r}
      /\ family'.records[r] = [avail |-> a, status |-> s, on |-> on]
      /\ \A x \in Publishing!Versions(family) \ {r} : family'.records[x] = family.records[x]
    BY <1>1, <1>2 DEF FamilyOK, Publishing!Versions
<1>4. \A x \in DOMAIN family'.records : RecordOK(family'.records[x])
    BY <1>2, <1>3 DEF RecordOK, FamilyOK
<1>5. FamilyOK(family')
    BY <1>2, <1>3, <1>4 DEF FamilyOK, Publishing!Versions
<1> QED
    BY <1>2, <1>5, ObservingKeeps DEF Publishing!ObserveVersion

LEMMA ObserveEdgeKeeps ==
    ASSUME PublicationInv, NEW r \in 1..MaxVersion, NEW x \in 1..MaxVersion,
           Publishing!ObserveEdge(r, x)
    PROVE  FamilyOK(family') /\ PublicationInv'
<1>1. PICK k \in Publishing!Kind, on \in Publishing!Day :
        family' = [family EXCEPT !.edges =
                      @ \cup {[from |-> r, to |-> x, kind |-> k, on |-> on]}]
    BY DEF Publishing!ObserveEdge
<1>2. FamilyOK(family) /\ r \in Publishing!Versions(family)
    BY DEF PublicationInv, Publishing!ObserveEdge
<1>3. /\ family' = [records |-> family'.records, edges |-> family'.edges]
      /\ family'.records = family.records
      /\ family'.edges = family.edges \cup {[from |-> r, to |-> x, kind |-> k, on |-> on]}
    BY <1>1, <1>2 DEF FamilyOK
<1>4. FamilyOK(family')
    BY <1>2, <1>3 DEF FamilyOK, Publishing!Versions
<1> QED
    BY <1>4, ObservingKeeps DEF Publishing!ObserveEdge, PublicationInv

LEMMA NextDayKeeps ==
    ASSUME PublishingSetting, PublicationInv, Publishing!NextDay
    PROVE  PublicationInv'
BY ObservingKeeps DEF Publishing!NextDay, PublicationInv, Publishing!Day, PublishingSetting

LEMMA CollectKeeps ==
    ASSUME PublishingSetting, PublicationInv, Publishing!Collect
    PROVE  PublicationInv'
<1>1. PICK mode \in Publishing!Mode \cup {"none"}, d \in 0..today :
        /\ bundle'.question = [mode |-> mode, as_of |-> IF mode = "as_of" THEN d ELSE 0,
                               at |-> today]
        /\ bundle'.view = family
        /\ bundle' = [question |-> bundle'.question, view |-> bundle'.view,
                      coverage |-> bundle'.coverage, decision |-> bundle'.decision,
                      units |-> bundle'.units]
    BY DEF Publishing!Collect
<1>2. today \in Publishing!Day /\ d \in Publishing!Day /\ 0 \in Publishing!Day
    BY DEF PublicationInv, Publishing!Day, PublishingSetting
<1>3. bundle'.question \in Question
    BY <1>1, <1>2 DEF Question
<1>4. BundleOK'
    BY <1>1, <1>3 DEF BundleOK, PublicationInv, Publishing!Collect
<1>5. admission = Publishing!Nothing /\ claim = Publishing!Nothing /\ attempt.pc = "none"
    BY DEF Publishing!Collect, PublicationInv, AdmissionOK, ClaimOK, AttemptOK
<1>6. AdmissionOK' /\ ClaimOK' /\ AttemptOK'
    BY <1>5 DEF Publishing!Collect, PublicationInv, AdmissionOK, ClaimOK, AttemptOK
<1> QED
    BY <1>4, <1>6 DEF PublicationInv, Publishing!Collect

LEMMA RereadKeeps ==
    ASSUME PublicationInv, Publishing!Reread
    PROVE  PublicationInv'
<1>1. BundleOK'
    BY DEF BundleOK, PublicationInv, Publishing!Reread
<1>2. admission = Publishing!Nothing /\ claim = Publishing!Nothing /\ attempt.pc = "none"
    BY DEF Publishing!Reread, PublicationInv, AdmissionOK, ClaimOK, AttemptOK
<1>3. AdmissionOK' /\ ClaimOK' /\ AttemptOK'
    BY <1>2 DEF Publishing!Reread, PublicationInv, AdmissionOK, ClaimOK, AttemptOK
<1> QED
    BY <1>1, <1>3 DEF PublicationInv, Publishing!Reread

LEMMA AdmitKeeps ==
    ASSUME PublicationInv, Publishing!Admit
    PROVE  PublicationInv'
<1>1. PICK asked : admission' = [asked |-> asked,
                                 admitted |->
                                      {u \in Unit : Publishing!Admissible(bundle, asked, u)}]
    BY DEF Publishing!Admit
<1>2. AdmissionOK'
    BY <1>1 DEF Publishing!Admit, AdmissionOK
<1>3. claim = Publishing!Nothing /\ attempt.pc = "none"
    BY DEF Publishing!Admit, PublicationInv, ClaimOK, AttemptOK
<1>4. BundleOK' /\ ClaimOK' /\ AttemptOK'
    BY <1>3 DEF Publishing!Admit, PublicationInv, BundleOK, ClaimOK, AttemptOK
<1> QED
    BY <1>2, <1>4 DEF PublicationInv, Publishing!Admit

LEMMA DriftKeeps ==
    ASSUME PublicationInv, NEW u \in Unit, Publishing!Drift(u)
    PROVE  PublicationInv'
<1>1. attempt.pc = "none"
    BY DEF Publishing!Drift, PublicationInv, AttemptOK
<1>2. AttemptOK'
    BY <1>1 DEF Publishing!Drift, PublicationInv, AttemptOK
<1>3. BundleOK' /\ AdmissionOK' /\ ClaimOK'
    BY DEF Publishing!Drift, PublicationInv, BundleOK, AdmissionOK, ClaimOK
<1> QED
    BY <1>2, <1>3 DEF PublicationInv, Publishing!Drift

LEMMA ComposeKeeps ==
    ASSUME PublicationInv, Publishing!Compose
    PROVE  PublicationInv'
<1>1. PICK text \in Publishing!Wording, S \in SUBSET Unit,
           flawed \in BOOLEAN, highRisk \in BOOLEAN :
        /\ text.tokens # {}
        /\ claim' = [text |-> text, supports |-> S, flawed |-> flawed, highRisk |-> highRisk]
    BY DEF Publishing!Compose
<1>2. ClaimOK'
    BY <1>1 DEF Publishing!Compose, ClaimOK
<1>3. attempt.pc = "none"
    BY DEF Publishing!Compose, PublicationInv, AttemptOK
<1>4. BundleOK' /\ AdmissionOK' /\ AttemptOK'
    BY <1>3 DEF Publishing!Compose, PublicationInv, BundleOK, AdmissionOK, AttemptOK
<1> QED
    BY <1>2, <1>4 DEF PublicationInv, Publishing!Compose

Attempted(a) ==
    a = [pc |-> a.pc, text |-> a.text, ids |-> a.ids, tries |-> a.tries,
         corrected |-> a.corrected, late |-> a.late, released |-> a.released,
         result |-> a.result]

\* The verification moves on, and nothing else.
Verifies == UNCHANGED <<family, today, bundle, admission, drifted, claim>>

LEMMA VerifyingKeeps ==
    ASSUME PublicationInv, Verifies, AttemptOK'
    PROVE  PublicationInv'
BY DEF PublicationInv, Verifies, BundleOK, AdmissionOK, ClaimOK

\* A failure publishes no prose.
LEMMA FailKeeps ==
    ASSUME PublicationInv, Verifies, claim # Publishing!Nothing, NEW a, Attempted(a), NEW state,
           Publishing!Fail(state, a)
    PROVE  AttemptOK'
<1> DEFINE result == IF a.corrected /\ Len(a.tries) # 2
                     THEN Publishing!Result("raised", "unknown", "none", claim.text)
                     ELSE Publishing!Result(state, "unknown", "evidence_only", claim.text)
<1>1. /\ result.mode # "prose"
      /\ attempt' = [a EXCEPT !.pc = "ended", !.result = result]
    BY DEF Publishing!Fail, Publishing!Result
<1> HIDE DEF result
<1>2. /\ Attempted(attempt') /\ attempt'.pc = "ended" /\ attempt'.result.mode # "prose"
    BY <1>1 DEF Attempted
<1> QED
    BY <1>2 DEF AttemptOK, Attempted, Verifies

LEMMA BeginKeeps ==
    ASSUME PublicationInv, Publishing!Begin
    PROVE  PublicationInv'
<1>1. Verifies /\ claim # Publishing!Nothing
    BY DEF Publishing!Begin, Verifies
<1>2. Attempted(Publishing!NoAttempt)
    BY DEF Publishing!NoAttempt, Attempted
<1>3. CASE \E state : Publishing!Fail(state, Publishing!NoAttempt)
    BY <1>1, <1>2, <1>3, FailKeeps, VerifyingKeeps
<1>4. ASSUME Publishing!Verifiable, NEW released \in BOOLEAN,
             attempt' = [Publishing!NoAttempt EXCEPT !.pc = "asking", !.released = released,
                            !.text = claim.text, !.ids = claim.supports]
      PROVE  PublicationInv'
  <2>1. /\ Attempted(attempt') /\ attempt'.pc = "asking" /\ attempt'.text = claim.text
        /\ attempt'.ids = claim.supports /\ attempt'.tries = <<>>
        /\ attempt'.corrected = FALSE
      BY <1>4 DEF Attempted, Publishing!NoAttempt
  <2>2. claim.text \in Publishing!Wording /\ claim.text.tokens # {}
      BY <1>1 DEF PublicationInv, ClaimOK
  <2>3. Publishing!Verifiable'
      BY <1>1, <1>4 DEF Verifies, Publishing!Verifiable
  <2>4. Carried(attempt)'
      BY <1>1, <2>1, <2>2, <2>3 DEF Carried, Verifies
  <2>5. attempt'.tries \in Seq(Try) /\ Len(attempt'.tries) = 0
    <3>1. <<>> \in Seq(Try) /\ Len(<<>>) = 0
        OBVIOUS
    <3>2. attempt'.tries = <<>>
        BY <2>1
    <3> QED
        BY ONLY <3>1, <3>2
  <2>6. AttemptOK'
      BY <1>1, <2>1, <2>4, <2>5 DEF AttemptOK, Attempted, Verifies
  <2> QED
      BY <1>1, <2>6, VerifyingKeeps
<1> QED
    BY <1>3, <1>4 DEF Publishing!Begin

LEMMA NoAnswerKeeps ==
    ASSUME PublicationInv, Publishing!NoAnswer
    PROVE  PublicationInv'
<1>1. Verifies /\ claim # Publishing!Nothing /\ Attempted(attempt)
    BY DEF Publishing!NoAnswer, Verifies, PublicationInv, AttemptOK, Attempted
<1> QED
    BY <1>1, FailKeeps, VerifyingKeeps DEF Publishing!NoAnswer

LEMMA WeakestIs ==
    ASSUME NEW J
    PROVE  Publishing!WeakestOutcome(J) \in {"contradiction", "unknown", "partial", "supported"}
BY DEF Publishing!WeakestOutcome

\* An answer in the contract: prose comes of a text whose tokens the claim had,
\* judged by what was still there to judge it by.
LEMMA AnswerKeeps ==
    ASSUME PublishingSetting, PublicationInv, Publishing!Answer
    PROVE  PublicationInv'
<1>1. PICK J \in MCVerdicts, late \in BOOLEAN,
           c \in {Publishing!NoCorrection} \cup
                [text : Publishing!Wording, ids : (SUBSET Unit) \ {{}}] :
         Publishing!Judged(J, c, Publishing!Recorded(J, late))
    BY DEF Publishing!Answer
<1> DEFINE used == Publishing!Evidence(J)
           try == [text |-> attempt.text, ids |-> used, outcome |-> Publishing!WeakestOutcome(J)]
           a == Publishing!Recorded(J, late)
<1>2. /\ attempt.pc = "asking" /\ Verifies /\ claim # Publishing!Nothing
      /\ Attempted(attempt) /\ Carried(attempt) /\ attempt.tries \in Seq(Try)
      /\ Len(attempt.tries) = IF attempt.corrected THEN 1 ELSE 0
    BY DEF Publishing!Answer, Verifies, PublicationInv, AttemptOK, Attempted
<1>3. used # {} /\ used \subseteq attempt.ids /\ used \subseteq Unit
  <2>1. used # {}
      BY JudgmentsAreGrounded DEF Publishing!Evidence
  <2>2. attempt.ids \subseteq Unit
      BY <1>2 DEF Carried, PublicationInv, ClaimOK
  <2> QED
      BY <1>1, <2>1, <2>2 DEF Publishing!Judged
<1> HIDE DEF used
<1>4. try \in Try
    BY <1>2, <1>3, WeakestIs DEF Try, Carried
<1>5. /\ try.text = attempt.text /\ try.ids = used /\ try.outcome = Publishing!WeakestOutcome(J)
    OBVIOUS
<1> HIDE DEF try
<1>6. /\ Append(attempt.tries, try) \in Seq(Try)
      /\ Len(Append(attempt.tries, try)) = Len(attempt.tries) + 1
      /\ Append(attempt.tries, try)[Len(attempt.tries) + 1] = try
    BY <1>2, <1>4
<1>7. /\ Attempted(a) /\ a.pc = "asking" /\ a.text = attempt.text /\ a.ids = attempt.ids
      /\ a.tries = Append(attempt.tries, try) /\ a.corrected = attempt.corrected
  <2> DEFINE over == attempt.late \/ late
             all == Append(attempt.tries, try)
  <2>1. a = [attempt EXCEPT !.late = over, !.tries = all]
      BY DEF Publishing!Recorded, used, try
  <2> HIDE DEF over, all, a
  <2>2. /\ Attempted(a) /\ a.pc = attempt.pc /\ a.text = attempt.text /\ a.ids = attempt.ids
        /\ a.tries = all /\ a.corrected = attempt.corrected
      BY <1>2, <2>1 DEF Attempted
  <2> QED
      BY <1>2, <2>2 DEF all
<1>8. Publishing!Verifiable' /\ claim' = claim
    BY <1>2 DEF Verifies, Publishing!Verifiable, Carried
<1>9. /\ Publishing!WeakestOutcome(J) = "supported" => Publishing!Succeed(a)
      /\ Publishing!WeakestOutcome(J) # "supported" =>
           \/ \E result : result.mode = "evidence_only"
                          /\ attempt' = [a EXCEPT !.pc = "ended", !.result = result]
           \/ Publishing!Fail("invalid_output", a)
           \/ /\ ~attempt.corrected /\ c # Publishing!NoCorrection /\ Publishing!ValidCorrection(c)
              /\ attempt' = [a EXCEPT !.corrected = TRUE, !.text = c.text, !.ids = c.ids]
    BY <1>1 DEF Publishing!Judged, Publishing!Result
<1> HIDE DEF a
<1>10. ASSUME Publishing!WeakestOutcome(J) = "supported"
       PROVE  AttemptOK'
  <2>1. PICK result :
          /\ result.mode = "prose" => a.released /\ ~a.late
          /\ result.text = a.text
          /\ attempt' = [a EXCEPT !.pc = "ended", !.result = result]
      BY <1>9, <1>10 DEF Publishing!Succeed, Publishing!Result
  <2>2. /\ Attempted(attempt') /\ attempt'.pc = "ended" /\ attempt'.result = result
        /\ attempt'.text = a.text /\ attempt'.ids = a.ids /\ attempt'.tries = a.tries
        /\ attempt'.released = a.released /\ attempt'.late = a.late
      BY <1>7, <2>1 DEF Attempted
  <2>3. Carried(attempt)'
      BY <1>2, <1>7, <1>8, <2>2 DEF Carried
  <2>4. Len(attempt'.tries) \in {1, 2} /\ attempt'.tries[Len(attempt'.tries)] = try
      BY <1>2, <1>6, <1>7, <2>2
  <2>5. try.ids # {} /\ try.ids \subseteq claim.supports /\ try.outcome = "supported"
      BY <1>2, <1>3, <1>5, <1>10 DEF Carried
  <2> QED
      BY <1>2, <1>5, <1>6, <1>7, <1>8, <2>1, <2>2, <2>3, <2>4, <2>5 DEF AttemptOK, Attempted
<1>11. ASSUME NEW result, result.mode = "evidence_only",
              attempt' = [a EXCEPT !.pc = "ended", !.result = result]
       PROVE  AttemptOK'
  <2>1. /\ Attempted(attempt') /\ attempt'.pc = "ended" /\ attempt'.result.mode # "prose"
      BY <1>7, <1>11 DEF Attempted
  <2> QED
      BY <1>2, <1>8, <2>1 DEF AttemptOK, Attempted
<1>12. CASE Publishing!Fail("invalid_output", a)
    BY <1>2, <1>7, <1>12, FailKeeps, VerifyingKeeps
<1>13. ASSUME ~attempt.corrected, c # Publishing!NoCorrection, Publishing!ValidCorrection(c),
              attempt' = [a EXCEPT !.corrected = TRUE, !.text = c.text, !.ids = c.ids]
       PROVE  AttemptOK'
  <2>1. /\ Attempted(attempt') /\ attempt'.pc = "asking" /\ attempt'.text = c.text
        /\ attempt'.ids = c.ids /\ attempt'.tries = a.tries /\ attempt'.corrected = TRUE
      BY <1>7, <1>13 DEF Attempted
  <2>2. c.text \in Publishing!Wording
      BY <1>13
  <2>3. Carried(attempt)'
      BY <1>2, <1>8, <1>13, <2>1, <2>2 DEF Carried, Publishing!ValidCorrection
  <2>4. attempt'.tries = Append(attempt.tries, try) /\ Len(attempt.tries) = 0
      BY <1>2, <1>7, <1>13, <2>1
  <2>5. attempt'.tries \in Seq(Try) /\ Len(attempt'.tries) = 1
      BY <1>6, <2>4
  <2> QED
      BY <1>2, <1>8, <2>1, <2>3, <2>5 DEF AttemptOK, Attempted
<1> QED
    BY <1>2, <1>9, <1>10, <1>11, <1>12, <1>13, VerifyingKeeps

LEMMA PublicationSteps ==
    ASSUME PublishingSetting, PublicationInv, [Publishing!PublicationNext]_publication
    PROVE  PublicationInv'
<1>1. CASE UNCHANGED publication
  <2>1. FamilyOK(family') /\ today' \in Publishing!Day
      BY <1>1 DEF publication, PublicationInv
  <2> QED
      BY <1>1, <2>1, ObservingKeeps DEF publication
<1>2. CASE Publishing!PublicationNext
    BY <1>2, ObserveVersionKeeps, ObserveEdgeKeeps, NextDayKeeps, CollectKeeps, RereadKeeps,
       AdmitKeeps, DriftKeeps, ComposeKeeps, BeginKeeps, AnswerKeeps, NoAnswerKeeps
       DEF Publishing!PublicationNext
<1> QED
    BY <1>1, <1>2

-----------------------------------------------------------------------------
(* Decisions about earlier days.                                            *)

\* A family that has more versions and relationships than before.
Grown(v, w) ==
    /\ Publishing!Versions(v) \subseteq Publishing!Versions(w) /\ v.edges \subseteq w.edges
    /\ \A r \in Publishing!Versions(v) : w.records[r] = v.records[r]

\* More that is only about later days.
GrownAfter(v, w, d) ==
    /\ Grown(v, w)
    /\ \A r \in Publishing!Versions(w) \ Publishing!Versions(v) : w.records[r].avail > d
    /\ \A e \in w.edges \ v.edges : e.on > d

\* What was eligible, in force, related or newest on the earlier day still is.
LEMMA SameEligible ==
    ASSUME NEW v, NEW w, NEW d \in Publishing!Day, FamilyOK(v), FamilyOK(w), GrownAfter(v, w, d),
           PublishingSetting
    PROVE  /\ Publishing!Eligible(w, d) = Publishing!Eligible(v, d)
           /\ Publishing!Eligible(v, d) \subseteq Publishing!Versions(v)
           /\ \A e \in w.edges : e.on <= d => e \in v.edges
<1>1. \A r \in Publishing!Versions(w) : w.records[r].avail \in Nat
    BY DEF FamilyOK, RecordOK, Publishing!Day
<1>2. \A e \in w.edges : e.on \in Nat
    BY DEF FamilyOK, Publishing!Day
<1>3. d \in Nat
    BY DEF Publishing!Day
<1> QED
    BY <1>1, <1>2, <1>3 DEF GrownAfter, Grown, Publishing!Eligible

LEMMA SameStatuses ==
    ASSUME NEW v, NEW w, NEW d \in Publishing!Day, FamilyOK(v), FamilyOK(w), GrownAfter(v, w, d),
           PublishingSetting, NEW r \in Publishing!Eligible(v, d)
    PROVE  Publishing!NewestStatuses(w, r, d) = Publishing!NewestStatuses(v, r, d)
<1>1. w.records[r] = v.records[r]
    BY SameEligible DEF GrownAfter, Grown
<1>2. {f \in w.edges : f.to = r /\ f.on <= d /\ f.kind \in {"supersedes", "repeals"}}
      = {f \in v.edges : f.to = r /\ f.on <= d /\ f.kind \in {"supersedes", "repeals"}}
    BY SameEligible DEF GrownAfter, Grown
<1>3. Publishing!Events(w, r, d) = Publishing!Events(v, r, d)
    BY <1>1, <1>2, Zenon DEF Publishing!Events
<1> QED
    BY <1>3, Zenon DEF Publishing!NewestStatuses

LEMMA SameWith ==
    ASSUME NEW v, NEW w, NEW d \in Publishing!Day, FamilyOK(v), FamilyOK(w), GrownAfter(v, w, d),
           PublishingSetting, NEW S
    PROVE  Publishing!With(w, d, S) = Publishing!With(v, d, S)
<1>1. \A r \in Publishing!Eligible(v, d) :
        Publishing!StatusOf(w, r, d) = Publishing!StatusOf(v, r, d)
    BY SameStatuses, Zenon DEF Publishing!StatusOf
<1> QED
    BY <1>1, SameEligible, Zenon DEF Publishing!With

LEMMA SameNewest ==
    ASSUME NEW v, NEW w, NEW R, R \subseteq Publishing!Versions(v), Grown(v, w)
    PROVE  Publishing!Newest(w, R) = Publishing!Newest(v, R)
<1> DEFINE Latest(y, r) == \A x \in R :
              y.records[x].avail < y.records[r].avail
              \/ (y.records[x].avail = y.records[r].avail /\ x <= r)
<1>1. \A r \in R : Latest(w, r) <=> Latest(v, r)
    BY DEF Grown
<1>2. Publishing!Newest(w, R) = (CHOOSE r \in R : Latest(w, r))
      /\ Publishing!Newest(v, R) = (CHOOSE r \in R : Latest(v, r))
    BY DEF Publishing!Newest
<1> HIDE DEF Latest
<1> QED
    BY <1>1, <1>2, Zenon

\* The paths between versions of before run over relationships of before.
LEMMA SamePath ==
    ASSUME NEW v, NEW w, NEW d \in Publishing!Day, FamilyOK(v), FamilyOK(w), GrownAfter(v, w, d),
           PublishingSetting, ~Publishing!InvalidLineage(v), NEW r \in Publishing!Versions(v),
           NEW x \in Publishing!Versions(v)
    PROVE  Publishing!ActivePath(w, r, x, d) <=> Publishing!ActivePath(v, r, x, d)
<1> DEFINE Active(e) == e.on <= d /\ e.kind \in {"parent", "amends", "extends"}
           Closed(y, N) == r \in N /\ \A e \in y.edges : Active(e) /\ e.from \in N => e.to \in N
<1>1. \A y : Publishing!ActivePath(y, r, x, d) <=>
        \A N \in SUBSET Publishing!Versions(y) : Closed(y, N) => x \in N
    BY DEF Publishing!ActivePath
<1>2. \A e \in v.edges : e.to \in Publishing!Versions(v)
    BY DEF Publishing!InvalidLineage
<1>3. \A e : e \in w.edges /\ Active(e) <=> e \in v.edges /\ Active(e)
    BY SameEligible DEF GrownAfter, Grown
<1>4. Publishing!Versions(v) \subseteq Publishing!Versions(w)
    BY DEF GrownAfter, Grown
<1> HIDE DEF Active
<1>5. \A N : Closed(v, N) => Closed(w, N)
    BY <1>3
<1>6. \A N : Closed(w, N) => Closed(v, N \cap Publishing!Versions(v))
    BY <1>2, <1>3
<1> HIDE DEF Closed
<1>7. ASSUME Publishing!ActivePath(w, r, x, d) PROVE Publishing!ActivePath(v, r, x, d)
    BY <1>1, <1>4, <1>5, <1>7
<1>8. ASSUME Publishing!ActivePath(v, r, x, d) PROVE Publishing!ActivePath(w, r, x, d)
  <2> SUFFICES ASSUME NEW N \in SUBSET Publishing!Versions(w), Closed(w, N) PROVE x \in N
      BY <1>1
  <2>1. Closed(v, N \cap Publishing!Versions(v))
      /\ N \cap Publishing!Versions(v) \in SUBSET Publishing!Versions(v)
      BY <1>6
  <2> QED
      BY <1>1, <1>8, <2>1
<1> QED
    BY <1>7, <1>8

LEMMA SameDecision ==
    ASSUME NEW v, NEW w, NEW d \in Publishing!Day, FamilyOK(v), FamilyOK(w), GrownAfter(v, w, d),
           PublishingSetting, ~Publishing!InvalidLineage(v), ~Publishing!InvalidLineage(w),
           NEW c, NEW mode
    PROVE  Publishing!Resolve(w, c, mode, d) = Publishing!Resolve(v, c, mode, d)
<1> DEFINE active(y) == Publishing!With(y, d, {"in_force"})
           unknown(y) == Publishing!With(y, d, {"unknown"})
           ended(y) == Publishing!With(y, d, Publishing!Terminal)
           drafts(y) == Publishing!With(y, d, {"draft"})
           split(y) == \E r \in Publishing!Eligible(y, d) :
                Cardinality(Publishing!NewestStatuses(y, r, d)) > 1
           later(y) == \E r \in unknown(y) :
                          y.records[r].avail >= y.records[Publishing!Newest(y, active(y))].avail
           apart(y) == \E r \in active(y) :
                ~Publishing!ActivePath(y, Publishing!Newest(y, active(y)), r, d)
<1>1. /\ active(w) = active(v) /\ unknown(w) = unknown(v) /\ ended(w) = ended(v)
      /\ drafts(w) = drafts(v)
    BY SameWith
<1>2. split(w) <=> split(v)
    BY SameEligible, SameStatuses
<1>3. /\ active(v) \subseteq Publishing!Versions(v) /\ unknown(v) \subseteq Publishing!Versions(v)
      /\ ended(v) \subseteq Publishing!Versions(v) /\ drafts(v) \subseteq Publishing!Versions(v)
    BY DEF Publishing!With, Publishing!Eligible
<1>4. Grown(v, w)
    BY DEF GrownAfter
<1>5. /\ Publishing!Newest(w, active(w)) = Publishing!Newest(v, active(v))
      /\ Publishing!Newest(w, ended(w)) = Publishing!Newest(v, ended(v))
      /\ Publishing!Newest(w, drafts(w)) = Publishing!Newest(v, drafts(v))
    BY <1>1, <1>3, <1>4, SameNewest
<1>6. active(v) # {} => Publishing!Newest(v, active(v)) \in active(v)
    BY <1>3, NewestIs
<1>7. active(v) # {} => (later(w) <=> later(v)) /\ (apart(w) <=> apart(v))
  <2> SUFFICES ASSUME active(v) # {} PROVE (later(w) <=> later(v)) /\ (apart(w) <=> apart(v))
      OBVIOUS
  <2> DEFINE m == Publishing!Newest(v, active(v))
  <2>1. m \in Publishing!Versions(v)
      BY <1>3, <1>6
  <2>2. later(w) <=> \E r \in unknown(v) : w.records[r].avail >= w.records[m].avail
      BY <1>1, <1>5
  <2>3. apart(w) <=> \E r \in active(v) : ~Publishing!ActivePath(w, m, r, d)
      BY <1>1, <1>5
  <2> HIDE DEF m
  <2>4. \A r \in active(v) : Publishing!ActivePath(w, m, r, d) <=> Publishing!ActivePath(v, m, r, d)
      BY <1>3, <2>1, SamePath
  <2>5. /\ w.records[m] = v.records[m]
        /\ \A r \in unknown(v) : w.records[r] = v.records[r]
      BY <1>3, <1>4, <2>1 DEF Grown
  <2> QED
      BY <2>2, <2>3, <2>4, <2>5 DEF m
<1>8. \A y : Publishing!Resolve(y, c, mode, d) =
        IF c # "complete" THEN Publishing!Decision("unknown", {})
        ELSE IF Publishing!InvalidLineage(y) THEN Publishing!Decision("invalid_lineage", {})
        ELSE IF split(y) THEN Publishing!Decision("contradictory", {})
        ELSE IF mode = "draft"
        THEN IF drafts(y) = {} THEN Publishing!Decision("no_match", {})
             ELSE Publishing!Decision(Publishing!Validated(mode), {Publishing!Newest(y, drafts(y))})
        ELSE IF active(y) = {}
        THEN IF unknown(y) # {} THEN Publishing!Decision("unknown", {})
             ELSE IF ended(y) = {} THEN Publishing!Decision("no_match", {})
             ELSE Publishing!Decision(Publishing!Validated(mode), {Publishing!Newest(y, ended(y))})
        ELSE IF later(y) THEN Publishing!Decision("unknown", {})
        ELSE IF apart(y) THEN Publishing!Decision("contradictory", {})
        ELSE Publishing!Decision(Publishing!Validated(mode), active(y))
    BY CountedPublishing DEF Publishing!Resolve
<1> HIDE DEF active, unknown, ended, drafts, split, later, apart
<1> QED
    BY <1>1, <1>2, <1>5, <1>7, <1>8

\* Observations and days add to the family and take nothing away.
LEMMA FamilyGrows ==
    ASSUME PublishingSetting, PublicationInv, [Publishing!PublicationNext]_publication
    PROVE  Grown(family, family')
<1>1. CASE UNCHANGED family
    BY <1>1 DEF Grown, Publishing!Versions
<1>2. ASSUME NEW r \in 1..MaxVersion, Publishing!ObserveVersion(r) PROVE Grown(family, family')
  <2>1. PICK record : family' = [family EXCEPT !.records =
                      [x \in DOMAIN @ \cup {r} |-> IF x = r THEN record ELSE @[x]]]
      BY <1>2 DEF Publishing!ObserveVersion
  <2> QED
      BY <1>2, <2>1 DEF PublicationInv, FamilyOK, Grown, Publishing!Versions,
          Publishing!ObserveVersion
<1>3. ASSUME NEW r \in 1..MaxVersion, NEW x \in 1..MaxVersion, Publishing!ObserveEdge(r, x)
      PROVE  Grown(family, family')
    BY <1>3 DEF Publishing!ObserveEdge, PublicationInv, FamilyOK, Grown, Publishing!Versions
<1> QED
    BY <1>1, <1>2, <1>3
       DEF Publishing!PublicationNext, publication, Publishing!NextDay, Publishing!Collect,
           Publishing!Reread,
           Publishing!Admit, Publishing!Drift, Publishing!Compose,
           Publishing!Begin, Publishing!Answer, Publishing!NoAnswer

LEMMA AsOfStays ==
    ASSUME PublishingSetting, PublicationInv, [Publishing!PublicationNext]_publication
    PROVE  Publishing!AsOfIsStable
<1>1. Grown(family, family') /\ FamilyOK(family) /\ FamilyOK(family')
    BY FamilyGrows, PublicationSteps DEF PublicationInv
<1> SUFFICES ASSUME NEW d \in Publishing!Day, NEW mode \in Publishing!Mode,
                    ~Publishing!InvalidLineage(family), ~Publishing!InvalidLineage(family'),
                    \A r \in DOMAIN family'.records \ Publishing!Versions(family) :
                        family'.records[r].avail > d,
                    \A e \in family'.edges \ family.edges : e.on > d
             PROVE  Publishing!Resolve(family', "complete", mode, d) =
                      Publishing!Resolve(family, "complete", mode, d)
    BY DEF Publishing!AsOfIsStable
<1>2. GrownAfter(family, family', d)
    BY <1>1 DEF GrownAfter, Publishing!Versions
<1> QED
    BY <1>1, <1>2, SameDecision

-----------------------------------------------------------------------------
(* Sums.                                                                   *)

\* The element that a fold takes out of a set next.
Pick(s) == CHOOSE x \in s : TRUE

\* What holds of the empty set, and of a set if it holds without the element
\* that is taken out, holds of all subsets of a finite set.
LEMMA SubsetInduction ==
    ASSUME NEW D, NEW S, IsFiniteSet(D), {} \in S,
           \A s \in SUBSET D : s # {} /\ s \ {Pick(s)} \in S => s \in S
    PROVE  \A s \in SUBSET D : s \in S
<1> DEFINE L == Cardinality(D)
           K == {k \in 0..L : \A s \in SUBSET D : Cardinality(s) <= k => s \in S}
<1>1. L \in Nat
    BY FS_CardinalityType
<1>2. \A s \in SUBSET D : IsFiniteSet(s) /\ Cardinality(s) \in Nat /\ Cardinality(s) <= L
    BY FS_Subset, FS_CardinalityType
<1>3. \A s \in SUBSET D : Cardinality(s) = 0 => s = {}
    BY <1>2, FS_EmptySet
<1>4. 0 \in K
  <2>1. ASSUME NEW s \in SUBSET D, Cardinality(s) <= 0 PROVE s \in S
    <3>1. Cardinality(s) = 0
      BY <1>2, <2>1
    <3> QED
      BY <1>3, <3>1
  <2> QED
    BY <1>1, <2>1
<1>5. ASSUME NEW k \in 0..L, k \in K, k < L PROVE k + 1 \in K
  <2>1. k \in Nat /\ k + 1 \in 0..L
    BY <1>1, <1>5
  <2>2. ASSUME NEW s \in SUBSET D, Cardinality(s) <= k + 1 PROVE s \in S
    <3>1. CASE s = {}
      BY <3>1
    <3>2. CASE s # {}
      <4>1. Pick(s) \in s
        BY <3>2 DEF Pick
      <4>2. Cardinality(s \ {Pick(s)}) = Cardinality(s) - 1
        BY <1>2, <4>1, FS_RemoveElement
      <4>3. Cardinality(s \ {Pick(s)}) <= k
        BY <1>2, <2>1, <2>2, <4>2
      <4>4. s \ {Pick(s)} \in SUBSET D
        OBVIOUS
      <4>5. s \ {Pick(s)} \in S
        BY <1>5, <4>3, <4>4
      <4> QED
        BY <3>2, <4>5
    <3> QED
      BY <3>1, <3>2
  <2> QED
    BY <2>1, <2>2
<1>6. \A k \in 0..L : k \in K
  <2> HIDE DEF K, L
  <2> QED
    BY <1>1, <1>4, <1>5, CountingUp
<1> QED
    BY <1>1, <1>2, <1>6

\* A recursion over the subsets of a finite set has a solution.
IsFold(h, D, b, G) ==
    /\ h[{}] = b
    /\ \A s \in SUBSET D : s # {} =>
          Pick(s) \in s /\ h[s] = G[<<Pick(s), h[s \ {Pick(s)}]>>]

LEMMA FoldExists ==
    ASSUME NEW D, NEW V, NEW b \in V, NEW G \in [D \X V -> V], IsFiniteSet(D)
    PROVE  \E h \in [SUBSET D -> V] : IsFold(h, D, b, G)
<1> DEFINE L == Cardinality(D)
           Small(m) == {s \in SUBSET D : Cardinality(s) <= m}
           val(h, s) == IF s = {} THEN b ELSE G[<<Pick(s), h[s \ {Pick(s)}]>>]
           Sol(h, m) == h = [s \in Small(m) |-> val(h, s)]
           K == {m \in 0..L : \E h : Sol(h, m)}
<1>1. L \in Nat
    BY FS_CardinalityType
<1>2. \A s \in SUBSET D : IsFiniteSet(s) /\ Cardinality(s) \in Nat /\ Cardinality(s) <= L
    BY FS_Subset, FS_CardinalityType
<1>3. \A s \in SUBSET D : Cardinality(s) = 0 => s = {}
    BY <1>2, FS_EmptySet
<1>4. 0 \in K
  <2> DEFINE h == [s \in Small(0) |-> b]
  <2>1. \A s \in Small(0) : s = {}
    BY <1>2, <1>3
  <2>2. \A s \in Small(0) : val(h, s) = b
    BY <2>1
  <2> HIDE DEF val, Small
  <2>3. Sol(h, 0)
    BY <2>2
  <2> HIDE DEF Sol
  <2> QED
    BY <1>1, <2>3
<1>5. ASSUME NEW m \in 0..L, m \in K, m < L PROVE m + 1 \in K
  <2>1. m \in Nat /\ m + 1 \in 0..L
    BY <1>1, <1>5
  <2>2. PICK h : Sol(h, m)
    BY <1>5
  <2> DEFINE g == [s \in Small(m + 1) |-> IF s \in Small(m) THEN h[s] ELSE val(h, s)]
  <2>3. ASSUME NEW s \in Small(m + 1), s # {} PROVE s \ {Pick(s)} \in Small(m)
    <3>1. Pick(s) \in s /\ s \in SUBSET D
      BY <2>3 DEF Pick
    <3>2. Cardinality(s \ {Pick(s)}) = Cardinality(s) - 1
      BY <1>2, <3>1, FS_RemoveElement
    <3>3. Cardinality(s) <= m + 1 /\ Cardinality(s) \in Nat
      BY <1>2, <3>1
    <3> QED
      BY <2>1, <3>1, <3>2, <3>3
  <2>4. Small(m) \subseteq Small(m + 1)
    BY <1>2, <2>1
  <2>5. ASSUME NEW s \in Small(m + 1) PROVE g[s] = val(h, s)
    <3> HIDE DEF val, Small
    <3> QED
      BY <2>2
  <2>6. ASSUME NEW s \in Small(m + 1) PROVE val(h, s) = val(g, s)
    <3>1. CASE s = {}
      BY <3>1
    <3>2. CASE s # {}
      <4>1. s \ {Pick(s)} \in Small(m)
        BY <2>3, <3>2
      <4>2. g[s \ {Pick(s)}] = h[s \ {Pick(s)}]
        <5> HIDE DEF val, Small
        <5> QED
          BY <2>4, <4>1
      <4> QED
        BY <4>2
    <3> QED
      BY <3>1, <3>2
  <2>7. g = [s \in Small(m + 1) |-> val(g, s)]
    <3>1. \A s \in Small(m + 1) : g[s] = val(g, s)
      <4> HIDE DEF g, val, Small
      <4> QED
        BY <2>5, <2>6
    <3>2. g = [s \in Small(m + 1) |-> g[s]]
      <4> HIDE DEF val, Small
      <4> QED
        OBVIOUS
    <3> HIDE DEF g, val, Small
    <3> QED
      BY <3>1, <3>2
  <2>8. Sol(g, m + 1)
    BY <2>7
  <2> HIDE DEF g, Sol
  <2> QED
    BY <2>1, <2>8
<1>6. \A k \in 0..L : k \in K
  <2> HIDE DEF K, L
  <2> QED
    BY <1>1, <1>4, <1>5, CountingUp
<1>7. PICK h : Sol(h, L)
  <2>1. L \in K
    <3> HIDE DEF K, L
    <3> QED
      BY <1>1, <1>6
  <2> QED
    BY <2>1
<1>8. Small(L) = SUBSET D
    BY <1>2
<1>9. h = [s \in SUBSET D |-> val(h, s)]
    BY <1>7, <1>8
<1>10. /\ h[{}] = b
       /\ \A s \in SUBSET D : s # {} =>
             Pick(s) \in s /\ h[s] = G[<<Pick(s), h[s \ {Pick(s)}]>>]
    BY <1>9 DEF Pick
<1>11. \A s \in SUBSET D : h[s] \in V
  <2> DEFINE S == {t \in SUBSET D : h[t] \in V}
  <2>1. {} \in S
    BY <1>10
  <2>2. ASSUME NEW t \in SUBSET D, t # {}, t \ {Pick(t)} \in S PROVE t \in S
    BY <1>10, <2>2
  <2> HIDE DEF S
  <2>3. \A s \in SUBSET D : s \in S
    BY <2>1, <2>2, SubsetInduction
  <2> QED
    BY <2>3 DEF S
<1>12. h \in [SUBSET D -> V]
  <2> HIDE DEF val
  <2> QED
    BY <1>9, <1>11
<1> QED
    BY <1>10, <1>12 DEF IsFold

\* Products of natural numbers are natural, and of positive ones positive.
LEMMA Products ==
    ASSUME NEW a \in Nat, NEW b \in Nat
    PROVE  a * b \in Nat /\ (a # 0 /\ b # 0 => a * b # 0)
OBVIOUS

\* A sum adds up.
AddsUp(h, D, f) ==
    /\ h[{}] = 0
    /\ \A s \in SUBSET D : s # {} =>
          Pick(s) \in s /\ h[s] = f[Pick(s)] + h[s \ {Pick(s)}]

\* SumFunction adds up.
LEMMA SumIs ==
    ASSUME NEW D, NEW f \in [D -> Nat], IsFiniteSet(D)
    PROVE  \E h \in [SUBSET D -> Nat] : Policies!SumFunction(f) = h[D] /\ AddsUp(h, D, f)
<1> DEFINE G == [p \in D \X Nat |-> f[p[1]] + p[2]]
           Rec(h) == h = [s \in SUBSET D |->
                             IF s = {} THEN 0 ELSE f[Pick(s)] + h[s \ {Pick(s)}]]
           sum == CHOOSE h : Rec(h)
<1>1. \E h : Rec(h)
  <2>1. G \in [D \X Nat -> Nat]
    OBVIOUS
  <2>2. PICK h \in [SUBSET D -> Nat] : IsFold(h, D, 0, G)
    <3> HIDE DEF G
    <3> QED
      BY <2>1, FoldExists
  <2>3. ASSUME NEW s \in SUBSET D, s # {} PROVE h[s] = f[Pick(s)] + h[s \ {Pick(s)}]
    <3> DEFINE x == Pick(s)
               r == h[s \ {x}]
    <3>1. x \in D /\ r \in Nat /\ h[s] = G[<<x, r>>]
      BY <2>2, <2>3 DEF IsFold
    <3> HIDE DEF x, r
    <3>2. G[<<x, r>>] = f[x] + r
      BY <3>1
    <3> QED
      BY <3>1, <3>2 DEF x, r
  <2>7. Rec(h)
    BY <2>2, <2>3 DEF IsFold
  <2> QED
    BY <2>7
<1>2. Rec(sum)
    BY <1>1, Zenon
<1>3. Policies!SumFunction(f) = sum[D]
    BY DEF Policies!SumFunction, Policies!SumFunctionOnSet, Policies!FoldFunctionOnSet,
           Policies!MapThenFoldSet, Pick
<1>4. PICK h : h = sum /\ Rec(h)
    BY <1>2
<1> HIDE DEF sum, Rec
<1>5. /\ DOMAIN h = SUBSET D /\ h[{}] = 0
      /\ \A s \in SUBSET D : s # {} =>
            Pick(s) \in s /\ h[s] = f[Pick(s)] + h[s \ {Pick(s)}]
    BY <1>4 DEF Rec, Pick
<1>6. \A s \in SUBSET D : h[s] \in Nat
  <2> DEFINE S == {t \in SUBSET D : h[t] \in Nat}
  <2>1. {} \in S
    BY <1>5
  <2>2. ASSUME NEW t \in SUBSET D, t # {}, t \ {Pick(t)} \in S PROVE t \in S
    <3>1. h[t] = f[Pick(t)] + h[t \ {Pick(t)}] /\ Pick(t) \in D
      BY <1>5, <2>2
    <3> QED
      BY <2>2, <3>1
  <2> HIDE DEF S
  <2>3. \A s \in SUBSET D : s \in S
    BY <2>1, <2>2, SubsetInduction
  <2> QED
    BY <2>3 DEF S
<1>7. h \in [SUBSET D -> Nat]
  <2>1. h = [s \in SUBSET D |-> h[s]]
    BY <1>4, Zenon DEF Rec
  <2> QED
    BY <1>6, <2>1
<1> QED
    BY <1>3, <1>4, <1>5, <1>7 DEF AddsUp

\* A sum of less is less.
LEMMA SumsCompare ==
    ASSUME NEW D, NEW f \in [D -> Nat], NEW g \in [D -> Nat], IsFiniteSet(D),
           \A x \in D : f[x] <= g[x]
    PROVE  /\ Policies!SumFunction(f) \in Nat /\ Policies!SumFunction(g) \in Nat
           /\ Policies!SumFunction(f) <= Policies!SumFunction(g)
<1>1. PICK h \in [SUBSET D -> Nat] : Policies!SumFunction(f) = h[D] /\ AddsUp(h, D, f)
    BY SumIs
<1>2. PICK k \in [SUBSET D -> Nat] : Policies!SumFunction(g) = k[D] /\ AddsUp(k, D, g)
    BY SumIs
<1> DEFINE S == {s \in SUBSET D : h[s] <= k[s]}
<1>3. {} \in S
    BY <1>1, <1>2 DEF AddsUp
<1>4. ASSUME NEW s \in SUBSET D, s # {}, s \ {Pick(s)} \in S PROVE s \in S
  <2>1. /\ Pick(s) \in D /\ s \ {Pick(s)} \in SUBSET D
        /\ h[s] = f[Pick(s)] + h[s \ {Pick(s)}]
        /\ k[s] = g[Pick(s)] + k[s \ {Pick(s)}]
    BY <1>1, <1>2, <1>4 DEF AddsUp
  <2>2. /\ f[Pick(s)] \in Nat /\ g[Pick(s)] \in Nat /\ f[Pick(s)] <= g[Pick(s)]
        /\ h[s \ {Pick(s)}] \in Nat /\ k[s \ {Pick(s)}] \in Nat
        /\ h[s \ {Pick(s)}] <= k[s \ {Pick(s)}]
    BY <1>4, <2>1
  <2> QED
    BY <2>1, <2>2
<1> HIDE DEF S
<1>5. D \in S
    BY <1>3, <1>4, SubsetInduction
<1> QED
    BY <1>1, <1>2, <1>5 DEF S

\* A product of natural numbers is a natural number.
Multiplied(f) == Policies!FoldFunction(LAMBDA x, y : x * y, 1, f)

LEMMA ProductIsNatural ==
    ASSUME NEW D, NEW f \in [D -> Nat], IsFiniteSet(D)
    PROVE  Multiplied(f) \in Nat
<1> DEFINE G == [p \in D \X Nat |-> f[p[1]] * p[2]]
           Rec(h) == h = [s \in SUBSET D |->
                             IF s = {} THEN 1 ELSE f[Pick(s)] * h[s \ {Pick(s)}]]
           product == CHOOSE h : Rec(h)
<1>1. \E h : Rec(h)
  <2>1. G \in [D \X Nat -> Nat]
    BY Products
  <2>2. PICK h \in [SUBSET D -> Nat] : IsFold(h, D, 1, G)
    <3> HIDE DEF G
    <3> QED
      BY <2>1, FoldExists
  <2>3. ASSUME NEW s \in SUBSET D, s # {} PROVE h[s] = f[Pick(s)] * h[s \ {Pick(s)}]
    <3> DEFINE x == Pick(s)
               r == h[s \ {x}]
    <3>1. x \in D /\ r \in Nat /\ h[s] = G[<<x, r>>]
      BY <2>2, <2>3 DEF IsFold
    <3> HIDE DEF x, r
    <3>2. G[<<x, r>>] = f[x] * r
      BY <3>1
    <3> QED
      BY <3>1, <3>2 DEF x, r
  <2>4. Rec(h)
    BY <2>2, <2>3 DEF IsFold
  <2> QED
    BY <2>4
<1>2. Rec(product)
    BY <1>1, Zenon
<1>3. Multiplied(f) = product[D]
    BY DEF Multiplied, Policies!FoldFunction, Policies!FoldFunctionOnSet,
           Policies!MapThenFoldSet, Pick
<1>4. PICK h : h = product /\ Rec(h)
    BY <1>2
<1> HIDE DEF product, Rec
<1>5. /\ h[{}] = 1
      /\ \A s \in SUBSET D : s # {} =>
            Pick(s) \in s /\ h[s] = f[Pick(s)] * h[s \ {Pick(s)}]
    BY <1>4 DEF Rec, Pick
<1> DEFINE S == {t \in SUBSET D : h[t] \in Nat}
<1>6. {} \in S
    BY <1>5
<1>7. ASSUME NEW t \in SUBSET D, t # {}, t \ {Pick(t)} \in S PROVE t \in S
  <2>1. /\ h[t] = f[Pick(t)] * h[t \ {Pick(t)}] /\ f[Pick(t)] \in Nat
        /\ h[t \ {Pick(t)}] \in Nat
    BY <1>5, <1>7
  <2> QED
    BY <2>1, Products
<1> HIDE DEF S
<1>8. D \in S
    BY <1>6, <1>7, SubsetInduction
<1> QED
    BY <1>3, <1>4, <1>8 DEF S

-----------------------------------------------------------------------------
(* Arithmetic.                                                             *)

\* Products and quotients of natural numbers keep their order.
LEMMA TimesCompares ==
    ASSUME NEW a \in Nat, NEW b \in Nat, NEW w \in Nat, a <= b
    PROVE  a * w <= b * w
OBVIOUS

LEMMA QuotientsCompare ==
    ASSUME NEW a \in Nat, NEW b \in Nat, NEW w \in Nat, w # 0, a <= b
    PROVE  a \div w \in Nat /\ b \div w \in Nat /\ a \div w <= b \div w
OBVIOUS

\* A set of natural numbers has a least one.
LEMMA LeastIs ==
    ASSUME NEW S \in SUBSET Nat, S # {}
    PROVE  Policies!Least(S) \in S /\ \A y \in S : Policies!Least(S) <= y
<1>1. PICK m \in S : \A k \in S : ~(<<k, m>> \in OpToRel(<, Nat))
    BY WFMin, NatLessThanWellFounded
<1>2. \A k \in S : ~(k < m)
    BY <1>1 DEF OpToRel
<1>3. ASSUME NEW k \in S PROVE m <= k
  <2>1. m \in Nat /\ k \in Nat
    OBVIOUS
  <2> QED
    BY <1>2, <2>1
<1> QED
    BY <1>3 DEF Policies!Least

-----------------------------------------------------------------------------
(* Labels.                                                                 *)

\* Labels have four ranks.
LEMMA Ranks ==
    /\ Policies!Rank("unknown") = 0
    /\ Policies!Rank("low") = 1
    /\ Policies!Rank("medium") = 2
    /\ Policies!Rank("high") = 3
    /\ \A l \in Policies!Label : Policies!Rank(l) \in 0..3
BY DEF Policies!Rank, Policies!Label

\* There is a weakest label among some.
LEMMA WeakestLabelIs ==
    ASSUME NEW S \in SUBSET Policies!Label, S # {}
    PROVE  /\ Policies!Weakest(S) \in S
           /\ \A k \in S : Policies!Rank(Policies!Weakest(S)) <= Policies!Rank(k)
<1> DEFINE R == {Policies!Rank(l) : l \in S}
<1>1. R \in SUBSET Nat /\ R # {}
    BY Ranks
<1>2. PICK l \in S : Policies!Rank(l) = Policies!Least(R)
    BY <1>1, LeastIs
<1>3. \A k \in S : Policies!Rank(l) <= Policies!Rank(k)
    BY <1>1, <1>2, LeastIs
<1> QED
    BY <1>3 DEF Policies!Weakest

\* The weakest of some labels is not above that of others that each have one
\* among the first that is not above them.
LEMMA WeakestCompare ==
    ASSUME NEW S \in SUBSET Policies!Label, NEW T \in SUBSET Policies!Label, S # {}, T # {},
           \A y \in T : \E x \in S : Policies!Rank(x) <= Policies!Rank(y)
    PROVE  Policies!Rank(Policies!Weakest(S)) <= Policies!Rank(Policies!Weakest(T))
<1>1. PICK x \in S : Policies!Rank(x) <= Policies!Rank(Policies!Weakest(T))
    BY WeakestLabelIs
<1>2. /\ Policies!Weakest(S) \in Policies!Label /\ Policies!Weakest(T) \in Policies!Label
      /\ Policies!Rank(Policies!Weakest(S)) <= Policies!Rank(x)
    BY WeakestLabelIs
<1> QED
    BY <1>1, <1>2, Ranks

\* A lower score has no higher label.
LEMMA LabelsCompare ==
    ASSUME NEW n \in Nat, NEW m \in Nat, NEW d \in Nat, n <= m
    PROVE  /\ Policies!LabelOf(n, d) \in Policies!Label /\ Policies!LabelOf(m, d) \in Policies!Label
           /\ Policies!Rank(Policies!LabelOf(n, d)) <= Policies!Rank(Policies!LabelOf(m, d))
<1>1. 320 * d \in Nat /\ 240 * d \in Nat /\ 140 * d \in Nat
    OBVIOUS
<1> QED
    BY <1>1, Ranks DEF Policies!LabelOf, Policies!Label

-----------------------------------------------------------------------------
(* Claims.                                                                 *)

\* What the scores need of a claim.
GradedClaim(c) ==
    /\ c.dim \in [Policies!Dimension -> Nat]
    /\ c.penalties \subseteq Policies!Penalty
    /\ c.ceiling \in Policies!Label

\* As good as another claim at most, and of the same weight.
Worse(b, c) ==
    /\ \A d \in Policies!Dimension : b.dim[d] <= c.dim[d]
    /\ b.dim["coverage"] = c.dim["coverage"]
    /\ c.penalties \subseteq b.penalties
    /\ c.hard => b.hard
    /\ b.authoritative => c.authoritative
    /\ b.fresh => c.fresh
    /\ Policies!Rank(b.ceiling) <= Policies!Rank(c.ceiling)

\* Each of finitely many penalties has its points.
LEMMA PointsTyped == Policies!Points \in [Policies!Penalty -> Nat] /\ IsFiniteSet(Policies!Penalty)
<1>1. Policies!Penalty = {"contradiction", "stale", "capability", "applicability", "single_source",
                 "date_type"}
    BY DEF Policies!Penalty, Policies!Points
<1>2. IsFiniteSet({"contradiction", "stale", "capability", "applicability", "single_source",
                   "date_type"})
  <2>1. \A S, x : IsFiniteSet(S) => IsFiniteSet(S \cup {x})
    BY FS_AddElement
  <2>2. IsFiniteSet({} \cup {"contradiction"} \cup {"stale"} \cup {"capability"})
    BY <2>1, FS_EmptySet
  <2>3. IsFiniteSet(({} \cup {"contradiction"} \cup {"stale"} \cup {"capability"})
                    \cup {"applicability"} \cup {"single_source"} \cup {"date_type"})
    BY <2>1, <2>2
  <2>4. {"contradiction", "stale", "capability", "applicability", "single_source", "date_type"}
            = ({} \cup {"contradiction"} \cup {"stale"} \cup {"capability"})
              \cup {"applicability"} \cup {"single_source"} \cup {"date_type"}
    OBVIOUS
  <2> QED
    BY <2>3, <2>4
<1>3. Policies!Points \in [Policies!Penalty -> Nat]
    BY DEF Policies!Penalty, Policies!Points
<1> QED
    BY <1>1, <1>2, <1>3

\* A claim that is worse has no higher score, passes no gate that the other one
\* fails, and has no higher label.
LEMMA ScoresCompare ==
    ASSUME NEW b, NEW c, GradedClaim(b), GradedClaim(c), Worse(b, c)
    PROVE  /\ Policies!Score(b) \in Nat
           /\ Policies!Score(c) \in Nat
           /\ Policies!Score(b) <= Policies!Score(c)
<1> DEFINE lost(x) == [p \in Policies!Penalty |->
                         IF p \in x.penalties THEN Policies!Points[p] ELSE 0]
<1>1. /\ lost(b) \in [Policies!Penalty -> Nat] /\ lost(c) \in [Policies!Penalty -> Nat]
      /\ \A p \in Policies!Penalty : lost(c)[p] <= lost(b)[p]
    BY PointsTyped DEF Worse
<1>2. /\ Policies!SumFunction(lost(b)) \in Nat /\ Policies!SumFunction(lost(c)) \in Nat
      /\ Policies!SumFunction(lost(c)) <= Policies!SumFunction(lost(b))
  <2> HIDE DEF lost
  <2> QED
    BY <1>1, PointsTyped, SumsCompare
<1>3. \A d \in Policies!Dimension : b.dim[d] \in Nat /\ c.dim[d] \in Nat /\ b.dim[d] <= c.dim[d]
    BY DEF GradedClaim, Worse
<1>4. /\ Policies!BaseScore(b.dim) \in Nat /\ Policies!BaseScore(c.dim) \in Nat
      /\ Policies!BaseScore(b.dim) <= Policies!BaseScore(c.dim)
    BY <1>3 DEF Policies!BaseScore, Policies!Dimension
<1>5. \A x : Policies!Score(x) =
             IF Policies!SumFunction(lost(x)) >= Policies!BaseScore(x.dim) THEN 0
                        ELSE Policies!BaseScore(x.dim) - Policies!SumFunction(lost(x))
    BY DEF Policies!Score
<1> HIDE DEF lost
<1> QED
    BY <1>2, <1>4, <1>5

LEMMA GatesCompare ==
    ASSUME NEW b, NEW c, GradedClaim(b), GradedClaim(c), Worse(b, c), Policies!PassesHighGates(b)
    PROVE  Policies!PassesHighGates(c)
<1>1. \A d \in Policies!Dimension : b.dim[d] \in Nat /\ c.dim[d] \in Nat /\ b.dim[d] <= c.dim[d]
    BY DEF GradedClaim, Worse
<1> QED
    BY <1>1 DEF Policies!PassesHighGates, Worse, Policies!Dimension

LEMMA ClaimsCompare ==
    ASSUME NEW q, NEW k, NEW b, NEW c, GradedClaim(b), GradedClaim(c), Worse(b, c),
           Policies!Ceiling(q, k) \in Policies!Label
    PROVE  /\ Policies!ClaimLabel(q, k, b) \in Policies!Label
           /\ Policies!ClaimLabel(q, k, c) \in Policies!Label
           /\ Policies!Rank(Policies!ClaimLabel(q, k, b))
                  <= Policies!Rank(Policies!ClaimLabel(q, k, c))
<1> DEFINE labels(x) == {Policies!LabelOf(Policies!Score(x), 1), Policies!Ceiling(q, k), x.ceiling}
                        \cup IF Policies!LabelOf(Policies!Score(x), 1) = "high"
                                /\ ~Policies!PassesHighGates(x)
                             THEN {"medium"} ELSE {}
<1>1. /\ Policies!LabelOf(Policies!Score(b), 1) \in Policies!Label
      /\ Policies!LabelOf(Policies!Score(c), 1) \in Policies!Label
      /\ Policies!Rank(Policies!LabelOf(Policies!Score(b), 1))
             <= Policies!Rank(Policies!LabelOf(Policies!Score(c), 1))
    BY ScoresCompare, LabelsCompare
<1>2. "medium" \in Policies!Label /\ "unknown" \in Policies!Label
    BY DEF Policies!Label
<1>3. /\ labels(b) \in SUBSET Policies!Label /\ labels(b) # {}
      /\ labels(c) \in SUBSET Policies!Label /\ labels(c) # {}
    BY <1>1, <1>2 DEF GradedClaim
<1>4. ASSUME NEW y \in labels(c) PROVE \E x \in labels(b) : Policies!Rank(x) <= Policies!Rank(y)
  <2>1. CASE y = Policies!LabelOf(Policies!Score(c), 1)
    BY <1>1, <2>1
  <2>2. CASE y = Policies!Ceiling(q, k)
    <3>1. Policies!Rank(y) <= Policies!Rank(y)
      BY <2>2, Ranks
    <3> QED
      BY <2>2, <3>1
  <2>3. CASE y = c.ceiling
    BY <2>3 DEF Worse
  <2>4. CASE y = "medium" /\ Policies!LabelOf(Policies!Score(c), 1) = "high"
          /\ ~Policies!PassesHighGates(c)
    <3>1. ~Policies!PassesHighGates(b)
      BY <2>4, GatesCompare
    <3>2. CASE Policies!LabelOf(Policies!Score(b), 1) = "high"
      BY <2>4, <3>1, <3>2, Ranks
    <3>3. CASE Policies!LabelOf(Policies!Score(b), 1) # "high"
      <4>1. Policies!Rank(Policies!LabelOf(Policies!Score(b), 1)) <= 2
        BY <1>1, <3>3, Ranks DEF Policies!Label
      <4> QED
        BY <2>4, <4>1, Ranks
    <3> QED
      BY <3>2, <3>3
  <2> QED
    BY <2>1, <2>2, <2>3, <2>4
<1>5. /\ Policies!ClaimLabel(q, k, b) = IF b.hard THEN "unknown" ELSE Policies!Weakest(labels(b))
      /\ Policies!ClaimLabel(q, k, c) = IF c.hard THEN "unknown" ELSE Policies!Weakest(labels(c))
    BY DEF Policies!ClaimLabel
<1> HIDE DEF labels
<1>6. /\ Policies!Rank(Policies!Weakest(labels(b))) <= Policies!Rank(Policies!Weakest(labels(c)))
      /\ Policies!Weakest(labels(b)) \in Policies!Label
      /\ Policies!Weakest(labels(c)) \in Policies!Label
    BY <1>3, <1>4, WeakestCompare, WeakestLabelIs
<1> QED
    BY <1>2, <1>5, <1>6, Ranks DEF Worse

-----------------------------------------------------------------------------
(* Sections and answers.                                                   *)

\* What the scores need of a section; and a section that is worse, claim by
\* claim.
SectionOK(C) ==
    IsFiniteSet(DOMAIN C) /\ DOMAIN C # {} /\ \A i \in DOMAIN C : GradedClaim(C[i])

WorseSection(B, C) == DOMAIN B = DOMAIN C /\ \A i \in DOMAIN C : Worse(B[i], C[i])

\* The weights of a section that is worse are the same, and its mean and its
\* least score are no higher; so neither is its label.
LEMMA SectionScoresCompare ==
    ASSUME NEW B, NEW C, SectionOK(B), SectionOK(C), WorseSection(B, C)
    PROVE  /\ Policies!SectionScore(B).d \in Nat /\ Policies!SectionScore(B).d # 0
           /\ Policies!SectionScore(B).d = Policies!SectionScore(C).d
           /\ Policies!SectionScore(B).n \in Nat /\ Policies!SectionScore(C).n \in Nat
           /\ Policies!SectionScore(B).n <= Policies!SectionScore(C).n
<1> DEFINE cover(X) == [i \in DOMAIN X |-> X[i].dim["coverage"]]
           weighted(X) == [i \in DOMAIN X |-> Policies!Score(X[i]) * X[i].dim["coverage"]]
           scores(X) == {Policies!Score(X[i]) : i \in DOMAIN X}
           score(X) == IF Policies!SumFunction(cover(X)) = 0
                       THEN [n |-> 3 * Policies!Least(scores(X)), d |-> 10]
                       ELSE [n |-> 7 * Policies!SumFunction(weighted(X))
                                   + 3 * Policies!Least(scores(X)) * Policies!SumFunction(cover(X)),
                             d |-> 10 * Policies!SumFunction(cover(X))]
<1>1. \A X : Policies!SectionScore(X) = score(X)
    BY DEF Policies!SectionScore
<1>2. DOMAIN B = DOMAIN C /\ DOMAIN C # {} /\ IsFiniteSet(DOMAIN C)
    BY DEF SectionOK, WorseSection
<1>3. ASSUME NEW i \in DOMAIN C
      PROVE  /\ Policies!Score(B[i]) \in Nat
             /\ Policies!Score(C[i]) \in Nat
             /\ Policies!Score(B[i]) <= Policies!Score(C[i])
             /\ B[i].dim["coverage"] \in Nat
             /\ B[i].dim["coverage"] = C[i].dim["coverage"]
  <2>1. GradedClaim(B[i]) /\ GradedClaim(C[i]) /\ Worse(B[i], C[i])
    BY <1>2 DEF SectionOK, WorseSection
  <2> QED
    BY <2>1, ScoresCompare DEF GradedClaim, Worse, Policies!Dimension
<1>4. cover(B) = cover(C) /\ cover(C) \in [DOMAIN C -> Nat]
    BY <1>2, <1>3
<1>5. /\ weighted(B) \in [DOMAIN C -> Nat] /\ weighted(C) \in [DOMAIN C -> Nat]
      /\ \A i \in DOMAIN C : weighted(B)[i] <= weighted(C)[i]
    BY <1>2, <1>3, Products, TimesCompares
<1>6. scores(B) \in SUBSET Nat /\ scores(B) # {} /\ scores(C) \in SUBSET Nat /\ scores(C) # {}
    BY <1>2, <1>3
<1>7. \A y \in scores(C) : \E x \in scores(B) : x <= y
    BY <1>2, <1>3
<1>8. Policies!SumFunction(cover(C)) \in Nat
  <2> HIDE DEF cover
  <2> QED
    BY <1>2, <1>4, SumsCompare
<1>9. /\ Policies!SumFunction(weighted(B)) \in Nat /\ Policies!SumFunction(weighted(C)) \in Nat
      /\ Policies!SumFunction(weighted(B)) <= Policies!SumFunction(weighted(C))
  <2> HIDE DEF weighted
  <2> QED
    BY <1>2, <1>5, SumsCompare
<1>10. /\ Policies!Least(scores(B)) \in Nat /\ Policies!Least(scores(C)) \in Nat
       /\ Policies!Least(scores(B)) <= Policies!Least(scores(C))
  <2> HIDE DEF scores
  <2>1. /\ Policies!Least(scores(B)) \in scores(B)
        /\ \A x \in scores(B) : Policies!Least(scores(B)) <= x
        /\ Policies!Least(scores(C)) \in scores(C)
    BY <1>6, LeastIs
  <2>2. PICK x \in scores(B) : x <= Policies!Least(scores(C))
    BY <1>7, <2>1
  <2> QED
    BY <1>6, <2>1, <2>2
<1> HIDE DEF cover, weighted, scores
<1> DEFINE T == Policies!SumFunction(cover(C))
           p == 3 * Policies!Least(scores(B))
           r == 3 * Policies!Least(scores(C))
<1>11. /\ p \in Nat /\ r \in Nat /\ p <= r /\ T \in Nat
    BY <1>8, <1>10
<1>12. p * T \in Nat /\ r * T \in Nat /\ p * T <= r * T
  <2> HIDE DEF p, r, T
  <2> QED
    BY <1>11, Products, TimesCompares
<1>13. Policies!SumFunction(cover(B)) = T
    BY <1>4
<1>14. /\ score(B) = IF T = 0 THEN [n |-> p, d |-> 10]
                     ELSE [n |-> 7 * Policies!SumFunction(weighted(B)) + p * T, d |-> 10 * T]
       /\ score(C) = IF T = 0 THEN [n |-> r, d |-> 10]
                     ELSE [n |-> 7 * Policies!SumFunction(weighted(C)) + r * T, d |-> 10 * T]
    BY <1>13
<1> HIDE DEF p, r, T, score
<1> QED
    BY <1>1, <1>9, <1>11, <1>12, <1>14

LEMMA SectionsCompare ==
    ASSUME NEW q, NEW k, NEW B, NEW C, SectionOK(B), SectionOK(C), WorseSection(B, C),
           Policies!Ceiling(q, k) \in Policies!Label
    PROVE  /\ Policies!SectionLabel(q, k, B) \in Policies!Label
           /\ Policies!SectionLabel(q, k, C) \in Policies!Label
           /\ Policies!Rank(Policies!SectionLabel(q, k, B))
                  <= Policies!Rank(Policies!SectionLabel(q, k, C))
<1> DEFINE whole(X) == Policies!LabelOf(Policies!SectionScore(X).n, Policies!SectionScore(X).d)
           labels(X) == {whole(X)} \cup {Policies!ClaimLabel(q, k, X[i]) : i \in DOMAIN X}
<1>1. /\ whole(B) \in Policies!Label
      /\ whole(C) \in Policies!Label
      /\ Policies!Rank(whole(B)) <= Policies!Rank(whole(C))
    BY SectionScoresCompare, LabelsCompare
<1>2. ASSUME NEW i \in DOMAIN C
      PROVE  /\ Policies!ClaimLabel(q, k, B[i]) \in Policies!Label
             /\ Policies!ClaimLabel(q, k, C[i]) \in Policies!Label
             /\ Policies!Rank(Policies!ClaimLabel(q, k, B[i]))
                    <= Policies!Rank(Policies!ClaimLabel(q, k, C[i]))
  <2>1. GradedClaim(B[i]) /\ GradedClaim(C[i]) /\ Worse(B[i], C[i])
    BY DEF SectionOK, WorseSection
  <2> QED
    BY <2>1, ClaimsCompare
<1>3. DOMAIN B = DOMAIN C
    BY DEF WorseSection
<1> HIDE DEF whole
<1>4. /\ labels(B) \in SUBSET Policies!Label /\ labels(B) # {}
      /\ labels(C) \in SUBSET Policies!Label /\ labels(C) # {}
      /\ \A y \in labels(C) : \E x \in labels(B) : Policies!Rank(x) <= Policies!Rank(y)
    BY <1>1, <1>2, <1>3
<1>5. \A X : Policies!SectionLabel(q, k, X) = Policies!Weakest(labels(X))
    BY DEF Policies!SectionLabel, whole
<1> HIDE DEF labels
<1> QED
    BY <1>4, <1>5, WeakestCompare, WeakestLabelIs

\* What the scores need of an answer; and an answer that is worse, section by
\* section.
AnswerOK(q, a) ==
    /\ IsFiniteSet(DOMAIN a.sections) /\ DOMAIN a.sections # {}
    /\ \A k \in DOMAIN a.sections : /\ SectionOK(a.sections[k])
                                    /\ Policies!Ceiling(q, k) \in Policies!Label
    /\ a.critical \subseteq DOMAIN a.sections /\ a.critical # {}

WorseAnswer(b, a) ==
    /\ DOMAIN b.sections = DOMAIN a.sections
    /\ b.critical = a.critical /\ b.strict = a.strict
    /\ \A k \in DOMAIN a.sections : WorseSection(b.sections[k], a.sections[k])

\* An answer that is worse is no surer.
LEMMA AnswersCompare ==
    ASSUME NEW q, NEW b, NEW a, AnswerOK(q, b), AnswerOK(q, a), WorseAnswer(b, a)
    PROVE  Policies!Rank(Policies!OverallLabel(q, b)) <= Policies!Rank(Policies!OverallLabel(q, a))
<1> DEFINE keys(x) == DOMAIN x.sections
           s(x) == [k \in keys(x) |-> Policies!SectionScore(x.sections[k])]
           d(x) == Policies!FoldFunction(LAMBDA y, z : y * z, 1, [k \in keys(x) |-> s(x)[k].d])
           scaled(x) == [k \in keys(x) |-> s(x)[k].n * (d(x) \div s(x)[k].d)]
           low(x) == {scaled(x)[k] : k \in x.critical}
           part(x) == 7 * Policies!SumFunction(scaled(x))
                        + 3 * Policies!Least(low(x)) * Cardinality(keys(x))
           whole(x) == Policies!LabelOf(part(x) \div Cardinality(keys(x)), 10 * d(x))
           every(x) == UNION {{Policies!ClaimLabel(q, k, x.sections[k][i]) :
                                 i \in DOMAIN x.sections[k]} : k \in keys(x)}
           labels(x) == {whole(x)}
                        \cup {Policies!SectionLabel(q, k, x.sections[k]) : k \in x.critical}
                        \cup IF x.strict THEN every(x) ELSE {}
           K == keys(a)
<1>1. \A x : Policies!OverallLabel(q, x) = Policies!Weakest(labels(x))
    BY CountedPolicies DEF Policies!OverallLabel
<1>2. /\ keys(b) = K /\ IsFiniteSet(K) /\ K # {}
      /\ a.critical \subseteq K /\ a.critical # {} /\ b.critical = a.critical
      /\ b.strict = a.strict
    BY DEF AnswerOK, WorseAnswer
<1>3. \A k \in K : /\ SectionOK(b.sections[k]) /\ SectionOK(a.sections[k])
                   /\ WorseSection(b.sections[k], a.sections[k])
                   /\ Policies!Ceiling(q, k) \in Policies!Label
    BY DEF AnswerOK, WorseAnswer
<1>4. ASSUME NEW k \in K
      PROVE  /\ s(b)[k].d \in Nat /\ s(b)[k].d # 0 /\ s(b)[k].d = s(a)[k].d
             /\ s(b)[k].n \in Nat /\ s(a)[k].n \in Nat /\ s(b)[k].n <= s(a)[k].n
  <2>1. /\ s(b)[k] = Policies!SectionScore(b.sections[k])
        /\ s(a)[k] = Policies!SectionScore(a.sections[k])
    BY <1>2
  <2> HIDE DEF s
  <2> QED
    BY <1>3, <2>1, SectionScoresCompare
<1>5. d(b) = d(a) /\ d(a) \in Nat
  <2> DEFINE e(x) == [k \in keys(x) |-> s(x)[k].d]
  <2>1. e(b) = e(a) /\ e(a) \in [K -> Nat]
    <3> HIDE DEF s
    <3> QED
      BY <1>2, <1>4
  <2>2. d(b) = Multiplied(e(b)) /\ d(a) = Multiplied(e(a))
    BY DEF Multiplied
  <2> HIDE DEF e, d
  <2> QED
    BY <1>2, <2>1, <2>2, ProductIsNatural
<1>6. /\ scaled(b) \in [K -> Nat] /\ scaled(a) \in [K -> Nat]
      /\ \A k \in K : scaled(b)[k] <= scaled(a)[k]
  <2> HIDE DEF s, d
  <2>1. ASSUME NEW k \in K
        PROVE  /\ s(b)[k].n * (d(b) \div s(b)[k].d) \in Nat
               /\ s(a)[k].n * (d(a) \div s(a)[k].d) \in Nat
               /\ s(b)[k].n * (d(b) \div s(b)[k].d) <= s(a)[k].n * (d(a) \div s(a)[k].d)
    <3> DEFINE w == d(a) \div s(a)[k].d
    <3>1. w \in Nat
      BY <1>4, <1>5, QuotientsCompare
    <3>2. d(b) \div s(b)[k].d = w
      BY <1>4, <1>5
    <3> HIDE DEF w
    <3>3. s(b)[k].n * w \in Nat /\ s(a)[k].n * w \in Nat /\ s(b)[k].n * w <= s(a)[k].n * w
      BY <1>4, <3>1, Products, TimesCompares
    <3> QED
      BY <3>2, <3>3 DEF w
  <2> QED
    BY <1>2, <2>1
<1> HIDE DEF d, s
<1>7. /\ Policies!SumFunction(scaled(b)) \in Nat /\ Policies!SumFunction(scaled(a)) \in Nat
      /\ Policies!SumFunction(scaled(b)) <= Policies!SumFunction(scaled(a))
  <2> HIDE DEF scaled
  <2> QED
    BY <1>2, <1>6, SumsCompare
<1> HIDE DEF scaled
<1>8. /\ Policies!Least(low(b)) \in Nat
      /\ Policies!Least(low(a)) \in Nat
      /\ Policies!Least(low(b)) <= Policies!Least(low(a))
  <2>1. /\ low(b) \in SUBSET Nat /\ low(b) # {} /\ low(a) \in SUBSET Nat /\ low(a) # {}
        /\ \A y \in low(a) : \E x \in low(b) : x <= y
    BY <1>2, <1>6
  <2> HIDE DEF low
  <2>2. /\ Policies!Least(low(b)) \in low(b) /\ \A x \in low(b) : Policies!Least(low(b)) <= x
        /\ Policies!Least(low(a)) \in low(a)
    BY <2>1, LeastIs
  <2>3. PICK x \in low(b) : x <= Policies!Least(low(a))
    BY <2>1, <2>2
  <2> QED
    BY <2>1, <2>2, <2>3
<1> HIDE DEF low
<1>9. Cardinality(K) \in Nat /\ Cardinality(K) # 0
    BY <1>2, FS_CardinalityType, FS_EmptySet
<1>10. part(b) \in Nat /\ part(a) \in Nat /\ part(b) <= part(a)
  <2> DEFINE c == Cardinality(K)
             y == 3 * Policies!Least(low(b))
             z == 3 * Policies!Least(low(a))
  <2>1. y \in Nat /\ z \in Nat /\ y <= z /\ c \in Nat
    BY <1>8, <1>9
  <2>2. /\ part(b) = 7 * Policies!SumFunction(scaled(b)) + y * c
        /\ part(a) = 7 * Policies!SumFunction(scaled(a)) + z * c
    BY <1>2
  <2> HIDE DEF c, y, z, part
  <2>3. y * c \in Nat /\ z * c \in Nat /\ y * c <= z * c
    BY <2>1, Products, TimesCompares
  <2> QED
    BY <1>7, <2>2, <2>3
<1> HIDE DEF part
<1>11. /\ whole(b) \in Policies!Label
       /\ whole(a) \in Policies!Label
       /\ Policies!Rank(whole(b)) <= Policies!Rank(whole(a))
  <2> DEFINE c == Cardinality(K)
  <2>1. /\ part(b) \div c \in Nat /\ part(a) \div c \in Nat
        /\ part(b) \div c <= part(a) \div c
    BY <1>9, <1>10, QuotientsCompare
  <2>2. 10 * d(a) \in Nat
    BY <1>5
  <2>3. whole(b) = Policies!LabelOf(part(b) \div c, 10 * d(a))
    BY <1>2, <1>5
  <2> QED
    BY <2>1, <2>2, <2>3, LabelsCompare
<1> HIDE DEF whole
<1>12. \A k \in K :
          /\ Policies!SectionLabel(q, k, b.sections[k]) \in Policies!Label
          /\ Policies!SectionLabel(q, k, a.sections[k]) \in Policies!Label
          /\ Policies!Rank(Policies!SectionLabel(q, k, b.sections[k]))
                 <= Policies!Rank(Policies!SectionLabel(q, k, a.sections[k]))
    BY <1>3, SectionsCompare
<1>13. ASSUME NEW k \in K, NEW i \in DOMAIN a.sections[k]
       PROVE  /\ i \in DOMAIN b.sections[k]
              /\ Policies!ClaimLabel(q, k, a.sections[k][i]) \in Policies!Label
              /\ Policies!ClaimLabel(q, k, b.sections[k][i]) \in Policies!Label
              /\ Policies!Rank(Policies!ClaimLabel(q, k, b.sections[k][i]))
                     <= Policies!Rank(Policies!ClaimLabel(q, k, a.sections[k][i]))
  <2>1. /\ GradedClaim(b.sections[k][i]) /\ GradedClaim(a.sections[k][i])
        /\ Worse(b.sections[k][i], a.sections[k][i])
        /\ i \in DOMAIN b.sections[k]
    BY <1>3 DEF SectionOK, WorseSection
  <2> QED
    BY <1>3, <2>1, ClaimsCompare
<1>14. \A k \in K : DOMAIN b.sections[k] = DOMAIN a.sections[k]
    BY <1>3 DEF WorseSection
<1>15. /\ every(b) \in SUBSET Policies!Label /\ every(a) \in SUBSET Policies!Label
       /\ \A y \in every(a) : \E x \in every(b) : Policies!Rank(x) <= Policies!Rank(y)
    BY <1>2, <1>13, <1>14
<1> HIDE DEF every
<1>16. /\ labels(b) \in SUBSET Policies!Label /\ labels(b) # {}
       /\ labels(a) \in SUBSET Policies!Label /\ labels(a) # {}
       /\ \A y \in labels(a) : \E x \in labels(b) : Policies!Rank(x) <= Policies!Rank(y)
    BY <1>2, <1>11, <1>12, <1>15
<1> HIDE DEF labels
<1> QED
    BY <1>1, <1>16, WeakestCompare

-----------------------------------------------------------------------------
(* The request of the confidence, and what makes it worse.                 *)

\* What Assess and Weaken make of the request.
ClaimRecord ==
    [dim : [Policies!Dimension -> Nat], penalties : SUBSET Policies!Penalty, hard : BOOLEAN,
     authoritative : BOOLEAN, fresh : BOOLEAN, ceiling : Policies!Label]

SectionRecord(C) ==
    /\ IsFiniteSet(DOMAIN C) /\ DOMAIN C # {}
    /\ C \in [DOMAIN C -> ClaimRecord]

AnswerRecord(a) ==
    /\ a = [sections |-> a.sections, critical |-> a.critical, strict |-> a.strict]
    /\ a.sections = [k \in DOMAIN a.sections |-> a.sections[k]]
    /\ DOMAIN a.sections \subseteq {"official", "live", "general"}
    /\ a.critical \subseteq DOMAIN a.sections /\ a.critical # {}
    /\ \A k \in DOMAIN a.sections : SectionRecord(a.sections[k])

ConfidenceOK ==
    /\ lanes.scope \in {"resolved", "assumed", "unresolved"}
    /\ claims = Policies!NoClaims \/ AnswerRecord(claims)

\* The request has all that the scores need.
LEMMA CeilingsAreLabels ==
    ASSUME NEW q, NEW k \in {"official", "live", "general"},
           q.scope \in {"resolved", "assumed", "unresolved"}
    PROVE  Policies!Ceiling(q, k) \in Policies!Label
<1>1. Policies!Base(q, k) \in Policies!Label
    BY DEF Policies!Base, Policies!Label
<1>2. Policies!ScopeCeiling(q) \in Policies!Label
    BY DEF Policies!ScopeCeiling, Policies!Label
<1> QED
    BY <1>1, <1>2, WeakestLabelIs DEF Policies!Ceiling

LEMMA AnswersAreOK ==
    ASSUME NEW q, NEW a, AnswerRecord(a), q.scope \in {"resolved", "assumed", "unresolved"}
    PROVE  AnswerOK(q, a)
<1>1. a.sections # <<>> /\ DOMAIN a.sections # {}
    BY DEF AnswerRecord
<1>2. IsFiniteSet(DOMAIN a.sections)
  <2>1. IsFiniteSet({"official", "live", "general"})
    <3>1. IsFiniteSet({"official"})
      BY FS_Singleton
    <3>2. IsFiniteSet({"official"} \cup {"live"} \cup {"general"})
      BY <3>1, FS_AddElement
    <3>3. {"official"} \cup {"live"} \cup {"general"} = {"official", "live", "general"}
      OBVIOUS
    <3> QED
      BY <3>2, <3>3
  <2> QED
    BY <2>1, FS_Subset DEF AnswerRecord
<1>3. ASSUME NEW k \in DOMAIN a.sections PROVE SectionOK(a.sections[k])
    BY DEF AnswerRecord, SectionRecord, SectionOK, ClaimRecord, GradedClaim
<1>4. ASSUME NEW k \in DOMAIN a.sections PROVE Policies!Ceiling(q, k) \in Policies!Label
    BY CeilingsAreLabels DEF AnswerRecord
<1> QED
    BY <1>1, <1>2, <1>3, <1>4 DEF AnswerOK, AnswerRecord

\* One claim is replaced.
LEMMA Replaced ==
    ASSUME NEW a, NEW b, NEW k \in DOMAIN a.sections, NEW i \in DOMAIN a.sections[k],
           NEW x \in ClaimRecord, AnswerRecord(a),
           b = [a EXCEPT !.sections[k][i] = x]
    PROVE  /\ AnswerRecord(b) /\ DOMAIN b.sections = DOMAIN a.sections
           /\ b.critical = a.critical /\ b.strict = a.strict
           /\ \A c \in DOMAIN a.sections :
                 /\ DOMAIN b.sections[c] = DOMAIN a.sections[c]
                 /\ \A j \in DOMAIN a.sections[c] :
                       b.sections[c][j] = IF c = k /\ j = i THEN x ELSE a.sections[c][j]
<1> DEFINE S == [a.sections EXCEPT ![k] = [a.sections[k] EXCEPT ![i] = x]]
<1>1. a = [sections |-> a.sections, critical |-> a.critical, strict |-> a.strict]
    BY DEF AnswerRecord
<1>2. b = [sections |-> S, critical |-> a.critical, strict |-> a.strict]
  <2>1. b = [a EXCEPT !.sections = S]
    BY Zenon
  <2>2. [a EXCEPT !.sections = S] = [sections |-> S, critical |-> a.critical, strict |-> a.strict]
    <3> HIDE DEF S
    <3> QED
      BY <1>1
  <2> QED
    BY <2>1, <2>2
<1>3. b.sections = S /\ b.critical = a.critical
    BY <1>2
<1>4. b.strict = a.strict
    BY <1>2, Zenon
<1>5. DOMAIN S = DOMAIN a.sections
    OBVIOUS
<1>6. ASSUME NEW c \in DOMAIN a.sections
      PROVE  S[c] = IF c = k THEN [a.sections[k] EXCEPT ![i] = x] ELSE a.sections[c]
    OBVIOUS
<1>7. S = [c \in DOMAIN S |-> S[c]]
    OBVIOUS
<1> HIDE DEF S
<1>8. ASSUME NEW c \in DOMAIN a.sections
      PROVE  /\ DOMAIN S[c] = DOMAIN a.sections[c] /\ SectionRecord(S[c])
             /\ \A j \in DOMAIN a.sections[c] :
                   S[c][j] = IF c = k /\ j = i THEN x ELSE a.sections[c][j]
  <2>1. SectionRecord(a.sections[c])
    BY DEF AnswerRecord
  <2> QED
    BY <1>6, <2>1 DEF SectionRecord
<1>9. AnswerRecord(b)
  <2>1. b = [sections |-> b.sections, critical |-> b.critical, strict |-> b.strict]
    BY <1>2, <1>3, <1>4
  <2>2. b.sections = [c \in DOMAIN b.sections |-> b.sections[c]]
    BY <1>3, <1>7
  <2> QED
    BY <1>3, <1>5, <1>8, <2>1, <2>2 DEF AnswerRecord
<1> QED
    BY <1>3, <1>4, <1>5, <1>8, <1>9

\* A claim is not worse than itself.
LEMMA WorseIsReflexive ==
    ASSUME NEW c \in ClaimRecord
    PROVE  Worse(c, c)
<1>1. \A d \in Policies!Dimension : c.dim[d] <= c.dim[d]
    BY DEF ClaimRecord
<1>2. Policies!Rank(c.ceiling) <= Policies!Rank(c.ceiling)
    BY Ranks DEF ClaimRecord
<1> QED
    BY <1>1, <1>2 DEF Worse

\* An answer is no surer with a worse claim in place of one.
LEMMA ReplacedIsNotSurer ==
    ASSUME NEW a, NEW b, NEW k \in DOMAIN a.sections, NEW i \in DOMAIN a.sections[k],
           NEW x \in ClaimRecord, AnswerRecord(a), NEW q,
           q.scope \in {"resolved", "assumed", "unresolved"},
           b = [a EXCEPT !.sections[k][i] = x], Worse(x, a.sections[k][i])
    PROVE  Policies!Rank(Policies!OverallLabel(q, b)) <= Policies!Rank(Policies!OverallLabel(q, a))
<1>1. /\ AnswerRecord(b) /\ DOMAIN b.sections = DOMAIN a.sections
      /\ b.critical = a.critical /\ b.strict = a.strict
      /\ \A c \in DOMAIN a.sections :
            /\ DOMAIN b.sections[c] = DOMAIN a.sections[c]
            /\ \A j \in DOMAIN a.sections[c] :
                  b.sections[c][j] = IF c = k /\ j = i THEN x ELSE a.sections[c][j]
    BY Replaced
<1>2. ASSUME NEW c \in DOMAIN a.sections, NEW j \in DOMAIN a.sections[c]
      PROVE  Worse(b.sections[c][j], a.sections[c][j])
  <2>1. a.sections[c][j] \in ClaimRecord
    BY DEF AnswerRecord, SectionRecord
  <2>2. CASE c = k /\ j = i
    BY <1>1, <2>2
  <2>3. CASE ~(c = k /\ j = i)
    BY <1>1, <2>1, <2>3, WorseIsReflexive
  <2> QED
    BY <2>2, <2>3
<1>3. WorseAnswer(b, a)
    BY <1>1, <1>2 DEF WorseAnswer, WorseSection
<1> QED
    BY <1>1, <1>3, AnswersAreOK, AnswersCompare

\* The dimensions that the claims of the composition begin with.
Profiles == {Full, [Full EXCEPT !["authority"] = 0, !["agreement"] = 8]}

LEMMA ProfilesTyped == Profiles \subseteq [Policies!Dimension -> Nat]
<1>1. Full \in [Policies!Dimension -> Nat]
    BY DEF Full, Policies!Dimension
<1>2. "authority" \in Policies!Dimension /\ "agreement" \in Policies!Dimension
    BY DEF Policies!Dimension
<1> QED
    BY <1>1, <1>2 DEF Profiles

\* What Weaken puts in the place of a claim is a claim, that is covered less or
\* is worse.
LEMMA WeakenedIsWorse ==
    ASSUME AnswerRecord(claims), Policies!Weaken
    PROVE  \E k \in DOMAIN claims.sections : \E i \in DOMAIN claims.sections[k] :
              \E x \in ClaimRecord :
                 /\ claims' = [claims EXCEPT !.sections[k][i] = x]
                 /\ \/ x.dim["coverage"] < claims.sections[k][i].dim["coverage"]
                    \/ Worse(x, claims.sections[k][i])
<1>0. PICK k \in DOMAIN claims.sections : \E i \in DOMAIN claims.sections[k] :
        LET c == claims.sections[k][i]
            become(x) == claims' = [claims EXCEPT !.sections[k][i] = x]
        IN \/ \E d \in Policies!Dimension : \E v \in {0, 16} :
                v < c.dim[d] /\ become([c EXCEPT !.dim[d] = v])
           \/ \E x \in Policies!Penalty \ c.penalties :
                become([c EXCEPT !.penalties = @ \cup {x}])
           \/ ~c.hard /\ become([c EXCEPT !.hard = TRUE])
           \/ c.authoritative /\ become([c EXCEPT !.authoritative = FALSE])
           \/ c.fresh /\ become([c EXCEPT !.fresh = FALSE])
           \/ \E l \in Policies!Label :
                Policies!Rank(l) < Policies!Rank(c.ceiling) /\ become([c EXCEPT !.ceiling = l])
    BY DEF Policies!Weaken
<1>1. PICK i \in DOMAIN claims.sections[k] :
        LET c == claims.sections[k][i]
            become(x) == claims' = [claims EXCEPT !.sections[k][i] = x]
        IN \/ \E d \in Policies!Dimension : \E v \in {0, 16} :
                v < c.dim[d] /\ become([c EXCEPT !.dim[d] = v])
           \/ \E x \in Policies!Penalty \ c.penalties :
                become([c EXCEPT !.penalties = @ \cup {x}])
           \/ ~c.hard /\ become([c EXCEPT !.hard = TRUE])
           \/ c.authoritative /\ become([c EXCEPT !.authoritative = FALSE])
           \/ c.fresh /\ become([c EXCEPT !.fresh = FALSE])
           \/ \E l \in Policies!Label :
                Policies!Rank(l) < Policies!Rank(c.ceiling) /\ become([c EXCEPT !.ceiling = l])
    BY <1>0
<1> DEFINE c == claims.sections[k][i]
           Found(x) == /\ x \in ClaimRecord
                       /\ x.dim["coverage"] < c.dim["coverage"] \/ Worse(x, c)
<1>2. c \in ClaimRecord
    BY DEF AnswerRecord, SectionRecord
<1> SUFFICES \E x \in ClaimRecord :
                 /\ claims' = [claims EXCEPT !.sections[k][i] = x] /\ Found(x)
    OBVIOUS
<1>3. ASSUME NEW d \in Policies!Dimension, NEW v \in {0, 16}, v < c.dim[d]
      PROVE  Found([c EXCEPT !.dim[d] = v])
  <2> DEFINE x == [c EXCEPT !.dim[d] = v]
             D == [c.dim EXCEPT ![d] = v]
  <2>1. D \in [Policies!Dimension -> Nat] /\ \A e \in Policies!Dimension : D[e] <= c.dim[e]
    BY <1>2, <1>3 DEF ClaimRecord
  <2>2. D["coverage"] = c.dim["coverage"] \/ D["coverage"] < c.dim["coverage"]
    BY <1>2, <1>3 DEF ClaimRecord, Policies!Dimension
  <2>3. x = [c EXCEPT !.dim = D]
    BY Zenon
  <2> HIDE DEF D, x, c
  <2>4. x \in ClaimRecord /\ x.dim = D /\ x.penalties = c.penalties /\ x.ceiling = c.ceiling
    BY <1>2, <2>1, <2>3 DEF ClaimRecord
  <2>5. x.hard = c.hard /\ x.authoritative = c.authoritative /\ x.fresh = c.fresh
    BY <1>2, <2>3, Zenon DEF ClaimRecord
  <2>6. Policies!Rank(x.ceiling) <= Policies!Rank(c.ceiling)
    BY <2>4, Ranks DEF ClaimRecord
  <2>7. D["coverage"] = c.dim["coverage"] => Worse(x, c)
    BY <2>1, <2>4, <2>5, <2>6 DEF Worse
  <2> QED
    BY <2>2, <2>4, <2>7 DEF x
<1>4. ASSUME NEW p \in Policies!Penalty
      PROVE  Found([c EXCEPT !.penalties = @ \cup {p}])
  <2> DEFINE P == c.penalties \cup {p}
             x == [c EXCEPT !.penalties = P]
  <2> HIDE DEF P, c
  <2>1. P \in SUBSET Policies!Penalty /\ c.penalties \subseteq P
    BY <1>2 DEF ClaimRecord, P
  <2>2. x \in ClaimRecord /\ x.dim = c.dim /\ x.penalties = P /\ x.ceiling = c.ceiling
    BY <1>2, <2>1 DEF ClaimRecord
  <2>3. x.hard = c.hard /\ x.authoritative = c.authoritative /\ x.fresh = c.fresh
    BY <1>2, Zenon DEF ClaimRecord
  <2> HIDE DEF x
  <2>4. Worse(x, c)
    BY <1>2, <2>1, <2>2, <2>3, WorseIsReflexive DEF Worse
  <2> QED
    BY <2>2, <2>4 DEF x, P
<1>5. ASSUME NEW x, x \in {[c EXCEPT !.hard = TRUE], [c EXCEPT !.authoritative = FALSE],
                           [c EXCEPT !.fresh = FALSE]}
      PROVE  Found(x)
  <2> HIDE DEF c
  <2>1. x \in ClaimRecord /\ x.dim = c.dim /\ x.penalties = c.penalties /\ x.ceiling = c.ceiling
    BY <1>2, <1>5 DEF ClaimRecord
  <2>2. /\ c.hard => x.hard
        /\ x.authoritative => c.authoritative
        /\ x.fresh => c.fresh
    BY <1>2, <1>5, Zenon DEF ClaimRecord
  <2>3. Worse(x, c)
    BY <1>2, <2>1, <2>2, WorseIsReflexive DEF Worse
  <2> QED
    BY <2>1, <2>3
<1>6. ASSUME NEW l \in Policies!Label, Policies!Rank(l) < Policies!Rank(c.ceiling)
      PROVE  Found([c EXCEPT !.ceiling = l])
  <2> DEFINE x == [c EXCEPT !.ceiling = l]
  <2> HIDE DEF c
  <2>1. x \in ClaimRecord /\ x.dim = c.dim /\ x.penalties = c.penalties /\ x.ceiling = l
    BY <1>2 DEF ClaimRecord
  <2>2. x.hard = c.hard /\ x.authoritative = c.authoritative /\ x.fresh = c.fresh
    BY <1>2, Zenon DEF ClaimRecord
  <2>3. Policies!Rank(x.ceiling) <= Policies!Rank(c.ceiling)
    BY <1>2, <1>6, <2>1, Ranks DEF ClaimRecord
  <2> HIDE DEF x
  <2>4. Worse(x, c)
    BY <1>2, <2>1, <2>2, <2>3, WorseIsReflexive DEF Worse
  <2> QED
    BY <2>1, <2>4 DEF x
<1> DEFINE Becomes(x) == claims' = [claims EXCEPT !.sections[k][i] = x]
<1>7. \/ \E d \in Policies!Dimension : \E v \in {0, 16} :
            v < c.dim[d] /\ Becomes([c EXCEPT !.dim[d] = v])
      \/ \E p \in Policies!Penalty : Becomes([c EXCEPT !.penalties = @ \cup {p}])
      \/ \E x \in {[c EXCEPT !.hard = TRUE], [c EXCEPT !.authoritative = FALSE],
                   [c EXCEPT !.fresh = FALSE]} : Becomes(x)
      \/ \E l \in Policies!Label :
            Policies!Rank(l) < Policies!Rank(c.ceiling) /\ Becomes([c EXCEPT !.ceiling = l])
    BY <1>1, Zenon
<1>8. \E x : Becomes(x) /\ Found(x)
  <2> HIDE DEF Found, Becomes, c
  <2>1. CASE \E d \in Policies!Dimension : \E v \in {0, 16} :
               v < c.dim[d] /\ Becomes([c EXCEPT !.dim[d] = v])
    BY <1>3, <2>1
  <2>2. CASE \E p \in Policies!Penalty : Becomes([c EXCEPT !.penalties = @ \cup {p}])
    BY <1>4, <2>2
  <2>3. CASE \E x \in {[c EXCEPT !.hard = TRUE], [c EXCEPT !.authoritative = FALSE],
                      [c EXCEPT !.fresh = FALSE]} : Becomes(x)
    BY <1>5, <2>3
  <2>4. CASE \E l \in Policies!Label :
               Policies!Rank(l) < Policies!Rank(c.ceiling) /\ Becomes([c EXCEPT !.ceiling = l])
    BY <1>6, <2>4
  <2> QED
    BY <1>7, <2>1, <2>2, <2>3, <2>4
<1> QED
    BY <1>8

\* The request stays well formed, and no step makes the answer surer.
LEMMA ConfidenceStart ==
    ASSUME Policies!PoliciesInit
    PROVE  ConfidenceOK
BY DEF Policies!PoliciesInit, ConfidenceOK

LEMMA AssessIsOK ==
    ASSUME ConfidenceOK, Policies!Assess
    PROVE  ConfidenceOK'
<1> DEFINE K == Policies!ModeSections(lanes)
           blank(d) == [dim |-> d, penalties |-> {}, hard |-> FALSE,
                        authoritative |-> TRUE, fresh |-> TRUE, ceiling |-> "high"]
<1>1. PICK p \in [K \X (1..2) -> Profiles], C \in (SUBSET K) \ {{}}, strict \in BOOLEAN :
        claims' = [sections |-> [k \in K |-> [i \in 1..(IF k \in C THEN 1 ELSE 2) |->
                                               blank(p[<<k, i>>])]],
                   critical |-> C, strict |-> strict]
    BY Zenon DEF Policies!Assess, Profiles
<1>2. lanes' = lanes
    BY DEF Policies!Assess
<1>3. K \subseteq {"official", "live", "general"}
    BY DEF Policies!ModeSections
<1> HIDE DEF K
<1>4. ASSUME NEW d \in Profiles PROVE blank(d) \in ClaimRecord
  <2>1. d \in [Policies!Dimension -> Nat] /\ "high" \in Policies!Label
    BY ProfilesTyped DEF Policies!Label
  <2> QED
    BY <2>1 DEF ClaimRecord
<1> HIDE DEF blank
<1> DEFINE n(k) == IF k \in C THEN 1 ELSE 2
           section(k) == [i \in 1..n(k) |-> blank(p[<<k, i>>])]
<1>5. ASSUME NEW k \in K PROVE SectionRecord(section(k))
  <2>1. n(k) \in Nat /\ n(k) # 0 /\ 1 \in 1..n(k) /\ 1..n(k) \subseteq 1..2
    OBVIOUS
  <2>2. IsFiniteSet(1..n(k))
    BY <2>1, FS_Interval
  <2> HIDE DEF n
  <2>3. \A i \in 1..n(k) : blank(p[<<k, i>>]) \in ClaimRecord
    BY <1>4, <2>1
  <2> QED
    BY <2>1, <2>2, <2>3 DEF SectionRecord
<1>6. claims' = [sections |-> [k \in K |-> section(k)], critical |-> C, strict |-> strict]
    BY <1>1
<1> HIDE DEF section
<1>7. AnswerRecord(claims')
    BY <1>3, <1>5, <1>6 DEF AnswerRecord
<1> QED
    BY <1>2, <1>7 DEF ConfidenceOK

LEMMA ConfidenceStep ==
    ASSUME ConfidenceOK, [Policies!PoliciesNext]_policies,
           "scope" \in DOMAIN lanes
    PROVE  ConfidenceOK' /\ Policies!WeakerIsNotSurer
<1>1. CASE UNCHANGED claims /\ lanes'.scope = lanes.scope
    BY <1>1 DEF ConfidenceOK, Policies!WeakerIsNotSurer, AnswerRecord
<1>2. CASE Policies!Assess
  <2>1. claims = Policies!NoClaims
    BY <1>2 DEF Policies!Assess
  <2> QED
    BY <1>2, <2>1, AssessIsOK DEF Policies!WeakerIsNotSurer
<1>3. CASE Policies!Weaken
  <2>1. lanes' = lanes /\ lanes.scope \in {"resolved", "assumed", "unresolved"}
    BY <1>3 DEF Policies!Weaken, ConfidenceOK
  <2>2. DOMAIN claims.sections # {}
    BY <1>3 DEF Policies!Weaken
  <2>3. claims # Policies!NoClaims
    BY <2>2 DEF Policies!NoClaims
  <2>4. AnswerRecord(claims)
    BY <2>3 DEF ConfidenceOK
  <2> DEFINE IsReplaced(k, i, x) ==
          /\ claims' = [claims EXCEPT !.sections[k][i] = x]
          /\ \/ x.dim["coverage"] < claims.sections[k][i].dim["coverage"]
             \/ Worse(x, claims.sections[k][i])
  <2>10. PICK k \in DOMAIN claims.sections :
            \E i \in DOMAIN claims.sections[k] : \E x \in ClaimRecord : IsReplaced(k, i, x)
    BY <1>3, <2>4, WeakenedIsWorse
  <2>11. PICK i \in DOMAIN claims.sections[k] : \E x \in ClaimRecord : IsReplaced(k, i, x)
    BY <2>10
  <2>5. PICK x \in ClaimRecord : IsReplaced(k, i, x)
    BY <2>11
  <2>6. AnswerRecord(claims') /\ claims'.sections[k][i] = x
    BY <2>4, <2>5, Replaced
  <2>7. ConfidenceOK'
    BY <2>1, <2>6 DEF ConfidenceOK
  <2>8. CASE x.dim["coverage"] < claims.sections[k][i].dim["coverage"]
    BY <2>6, <2>7, <2>8 DEF Policies!WeakerIsNotSurer
  <2>9. CASE Worse(x, claims.sections[k][i])
    <3>1. Policies!Rank(Policies!OverallLabel(lanes, claims'))
            <= Policies!Rank(Policies!OverallLabel(lanes, claims))
      BY <2>1, <2>4, <2>5, <2>9, ReplacedIsNotSurer
    <3> QED
      BY <2>1, <2>7, <3>1 DEF Policies!WeakerIsNotSurer
  <2> QED
    BY <2>5, <2>8, <2>9
<1>4. CASE Policies!SettleLane
  <2>1. UNCHANGED claims
    BY <1>4 DEF Policies!SettleLane
  <2>2. lanes'.scope = lanes.scope
    BY <1>4 DEF Policies!SettleLane
  <2> QED
    BY <1>1, <2>1, <2>2
<1> QED
    BY <1>1, <1>2, <1>3, <1>4 DEF Policies!PoliciesNext, Policies!Observe, policies

-----------------------------------------------------------------------------
(* The policies.                                                           *)

\* A request of select_knowledge_modes is valid whenever a lane settles.
LanesOK ==
    /\ lanes = [official |-> lanes.official, live |-> lanes.live, explicit |-> lanes.explicit,
                background |-> lanes.background, fallback |-> lanes.fallback,
                scope |-> lanes.scope]
    /\ Policies!ValidRequest(lanes)

PoliciesInv == LanesOK /\ ConfidenceOK /\ IsFiniteSet(DOMAIN origins)

\* The invariant of the policies, and its steps.
LEMMA PoliciesStart ==
    ASSUME Policies!PoliciesInit
    PROVE  PoliciesInv
<1>1. LanesOK
    BY DEF Policies!PoliciesInit, LanesOK
<1>2. DOMAIN origins = {}
    BY DEF Policies!PoliciesInit
<1> QED
    BY <1>1, <1>2, FS_EmptySet, ConfidenceStart DEF PoliciesInv

LEMMA LanesStep ==
    ASSUME LanesOK, [Policies!PoliciesNext]_policies
    PROVE  LanesOK'
<1>1. CASE UNCHANGED lanes
    BY <1>1 DEF LanesOK
<1>2. CASE Policies!SettleLane
  <2>1. Policies!ValidRequest(lanes')
    BY <1>2 DEF Policies!SettleLane
  <2>2. CASE \E x, f : lanes' = [lanes EXCEPT !.official = x, !.fallback = f]
    BY <2>1, <2>2 DEF LanesOK
  <2>3. CASE \E x : lanes' = [lanes EXCEPT !.live = x]
    BY <2>1, <2>3 DEF LanesOK
  <2> QED
    BY <1>2, <2>2, <2>3 DEF Policies!SettleLane
<1> QED
    BY <1>1, <1>2
       DEF Policies!PoliciesNext, policies, Policies!Assess, Policies!Weaken, Policies!Observe

LEMMA OriginsStep ==
    ASSUME IsFiniteSet(DOMAIN origins), [Policies!PoliciesNext]_policies
    PROVE  IsFiniteSet(DOMAIN origins')
<1>1. CASE UNCHANGED origins
    BY <1>1
<1>2. ASSUME NEW o \in Origin, Policies!Observe(o) PROVE IsFiniteSet(DOMAIN origins')
  <2>1. DOMAIN origins' = DOMAIN origins \cup {o}
    BY <1>2 DEF Policies!Observe
  <2> QED
    BY <2>1, FS_AddElement
<1> QED
    BY <1>1, <1>2
       DEF Policies!PoliciesNext, policies, Policies!SettleLane, Policies!Assess, Policies!Weaken

LEMMA PoliciesStep ==
    ASSUME PoliciesInv, [Policies!PoliciesNext]_policies
    PROVE  PoliciesInv' /\ Policies!WeakerIsNotSurer
<1>1. "scope" \in DOMAIN lanes
    BY DEF PoliciesInv, LanesOK
<1>2. ConfidenceOK' /\ Policies!WeakerIsNotSurer
    BY <1>1, ConfidenceStep DEF PoliciesInv
<1> QED
    BY <1>2, LanesStep, OriginsStep DEF PoliciesInv

-----------------------------------------------------------------------------
(* Sections.                                                               *)

\* Before a lane has settled the other one speaks for itself.
LEMMA OfficialSettles ==
    ASSUME NEW q, NEW p, NEW k \in Policies!ModeSections(q), Policies!ValidRequest(q),
           q.official = "pending",
           p.live = q.live, p.scope = q.scope
    PROVE  k \in Policies!ModeSections(p) /\ Policies!Ceiling(p, k) = Policies!Ceiling(q, k)
<1>1. ~q.explicit
    BY DEF Policies!ValidRequest
<1>2. Policies!GeneralTrigger(q) = "none"
    BY <1>1 DEF Policies!GeneralTrigger
<1>3. k = "live" /\ Policies!LiveFound(q)
    BY <1>2 DEF Policies!ModeSections
<1>4. Policies!LiveFound(p)
    BY <1>3 DEF Policies!LiveFound
<1>5. k \in Policies!ModeSections(p)
    BY <1>3, <1>4 DEF Policies!ModeSections
<1>6. Policies!ScopeCeiling(p) = Policies!ScopeCeiling(q)
    BY Zenon DEF Policies!ScopeCeiling
<1>7. Policies!Base(p, k) = Policies!Base(q, k)
    BY <1>3 DEF Policies!Base
<1> QED
    BY <1>5, <1>6, <1>7 DEF Policies!Ceiling

LEMMA LiveSettles ==
    ASSUME NEW q, NEW p, NEW k \in Policies!ModeSections(q), q.live = "pending", p.live # "pending",
           p.official = q.official, p.scope = q.scope, p.explicit = q.explicit,
           p.background = q.background, p.fallback = q.fallback
    PROVE  \/ k \in Policies!ModeSections(p) /\ Policies!Ceiling(p, k) = Policies!Ceiling(q, k)
           \/ k = "general" /\ q.official = "unavailable" /\ Policies!LiveFound(p)
<1>1. ~Policies!LiveFound(q)
    BY DEF Policies!LiveFound
<1>2. k \in {"official", "general"}
    BY <1>1 DEF Policies!ModeSections
<1>3. Policies!ScopeCeiling(p) = Policies!ScopeCeiling(q)
    BY Zenon DEF Policies!ScopeCeiling
<1>4. CASE k = "official"
    BY <1>3, <1>4 DEF Policies!ModeSections, Policies!Ceiling, Policies!Base
<1>5. CASE k = "general"
  <2>1. Policies!GeneralTrigger(q) # "none"
      BY <1>5 DEF Policies!ModeSections
  <2>2. \/ Policies!GeneralTrigger(p) = Policies!GeneralTrigger(q)
        \/ q.official = "unavailable" /\ Policies!LiveFound(p)
      BY <1>1, <2>1 DEF Policies!GeneralTrigger
  <2>3. CASE Policies!GeneralTrigger(p) = Policies!GeneralTrigger(q)
    <3>1. k \in Policies!ModeSections(p) /\ Policies!Base(p, k) = Policies!Base(q, k)
        BY <1>5, <2>1, <2>3 DEF Policies!ModeSections, Policies!Base
    <3> QED
        BY <1>3, <3>1 DEF Policies!Ceiling
  <2> QED
      BY <1>5, <2>2, <2>3
<1> QED
    BY <1>2, <1>4, <1>5

\* No step withdraws a section.
LEMMA SectionsKept ==
    ASSUME PoliciesInv, [Policies!PoliciesNext]_policies
    PROVE  Policies!SectionsStay
<1>1. CASE UNCHANGED lanes
    BY <1>1 DEF Policies!SectionsStay
<1>2. ASSUME lanes.official = "pending", NEW x, NEW f,
             lanes' = [lanes EXCEPT !.official = x, !.fallback = f]
      PROVE  Policies!SectionsStay
  <2>1. {"official", "live", "scope"} \subseteq DOMAIN lanes
      BY DEF PoliciesInv, LanesOK
  <2>2. lanes'.live = lanes.live /\ lanes'.scope = lanes.scope
      BY <1>2, <2>1
  <2> QED
      BY <1>2, <2>2, OfficialSettles DEF Policies!SectionsStay, PoliciesInv, LanesOK
<1>3. ASSUME lanes.live = "pending", NEW x, x # "pending",
             lanes' = [lanes EXCEPT !.live = x]
      PROVE  Policies!SectionsStay
  <2>1. {"official", "live", "scope", "explicit", "background", "fallback"} \subseteq DOMAIN lanes
      BY DEF PoliciesInv, LanesOK
  <2>2. /\ lanes'.live # "pending" /\ lanes'.official = lanes.official
        /\ lanes'.scope = lanes.scope
      BY <1>3, <2>1
  <2>3. /\ lanes'.explicit = lanes.explicit
        /\ lanes'.background = lanes.background /\ lanes'.fallback = lanes.fallback
      BY <1>3, <2>1, Zenon
  <2> QED
      BY <1>3, <2>2, <2>3, LiveSettles DEF Policies!SectionsStay
<1> QED
    BY <1>1, <1>2, <1>3
       DEF Policies!PoliciesNext, policies, Policies!SettleLane, Policies!Assess, Policies!Weaken,
           Policies!Observe

-----------------------------------------------------------------------------
(* Events.                                                                 *)

\* Finitely many observations say finitely many things.
LEMMA SayingsAreFinite ==
    ASSUME NEW D, NEW F, IsFiniteSet(D)
    PROVE  IsFiniteSet({F[o] : o \in D})
<1> DEFINE T == {F[o] : o \in D}
           G == [o \in D |-> F[o]]
<1>1. G \in Surjection(D, T)
    BY DEF Surjection
<1> HIDE DEF T, G
<1>2. IsFiniteSet(T)
    BY <1>1, FS_Surjection
<1> QED
    BY <1>2 DEF T

\* P says what O says, and more.
Extends(O, P) ==
    /\ DOMAIN O \subseteq DOMAIN P /\ IsFiniteSet(DOMAIN P)
    /\ \A o \in DOMAIN O : P[o] = O[o]

\* The group of a fingerprint keeps its members.
LEMMA GroupsExtend ==
    ASSUME NEW O, NEW P, NEW f, Extends(O, P)
    PROVE  /\ Policies!Group(O, f) \subseteq Policies!Group(P, f)
           /\ IsFiniteSet(Policies!Group(P, f))
           /\ \A o \in Policies!Group(O, f) : P[o] = O[o]
<1>1. Policies!Group(P, f) \subseteq DOMAIN P
    BY DEF Policies!Group
<1>2. IsFiniteSet(Policies!Group(P, f))
    BY <1>1, FS_Subset DEF Extends
<1> QED
    BY <1>2 DEF Policies!Group, Extends

\* What is said of a field, in a larger group.
LEMMA ConflictsExtend ==
    ASSUME NEW O, NEW P, NEW f, Extends(O, P)
    PROVE  Policies!Conflicts(O, f) \subseteq Policies!Conflicts(P, f)
<1> SUFFICES ASSUME NEW x \in Policies!Field,
                    Cardinality({O[o][x] : o \in Policies!Group(O, f)} \ {"none"}) > 1
             PROVE  Cardinality({P[o][x] : o \in Policies!Group(P, f)} \ {"none"}) > 1
    BY CountedPolicies DEF Policies!Conflicts
<1> DEFINE S == {O[o][x] : o \in Policies!Group(O, f)} \ {"none"}
           all == {P[o][x] : o \in Policies!Group(P, f)}
           T == all \ {"none"}
<1>1. S \subseteq T
    BY GroupsExtend
<1>2. IsFiniteSet(all)
  <2> DEFINE D == Policies!Group(P, f)
             F == [o \in D |-> P[o][x]]
  <2>0. IsFiniteSet(D)
      BY GroupsExtend
  <2>1. IsFiniteSet({F[o] : o \in D})
    <3> HIDE DEF D, F
    <3> QED
        BY <2>0, SayingsAreFinite
  <2>2. all = {F[o] : o \in D}
      OBVIOUS
  <2> QED
      BY <2>1, <2>2
<1>3. IsFiniteSet(T)
    BY <1>2, FS_Subset
<1>4. IsFiniteSet(S) /\ Cardinality(S) <= Cardinality(T)
    BY <1>1, <1>3, FS_Subset
<1>5. Cardinality(S) \in Nat /\ Cardinality(T) \in Nat
    BY <1>3, <1>4, FS_CardinalityType
<1> HIDE DEF S, T
<1>6. Cardinality(S) > 1
    BY DEF S
<1>7. Cardinality(T) > 1
    BY <1>4, <1>5, <1>6
<1> QED
    BY <1>7 DEF T

LEMMA DuplicatesExtend ==
    ASSUME NEW O, NEW P, NEW f, NEW g \in DOMAIN O, Extends(O, P), f = O[g].print,
           Policies!MatchKind(O, f) = "exact_duplicate"
    PROVE  Policies!MatchKind(P, f) \in {"exact_duplicate", "conflict"}
<1>1. Policies!Conflicts(O, f) = {} /\ ~Policies!Alone(O, f)
    BY DEF Policies!MatchKind
<1>2. Cardinality(Policies!Group(O, f)) # 1
    BY <1>1, CountedPolicies DEF Policies!Alone
<1>3. Policies!Group(O, f) # {}
    BY DEF Policies!Group
<1>4. /\ IsFiniteSet(Policies!Group(O, f)) /\ IsFiniteSet(Policies!Group(P, f))
      /\ Cardinality(Policies!Group(O, f)) <= Cardinality(Policies!Group(P, f))
    BY GroupsExtend, FS_Subset
<1>5. /\ Cardinality(Policies!Group(O, f)) \in Nat /\ Cardinality(Policies!Group(P, f)) \in Nat
      /\ Cardinality(Policies!Group(O, f)) # 0
    BY <1>3, <1>4, FS_CardinalityType, FS_EmptySet
<1>6. Cardinality(Policies!Group(P, f)) # 1
    BY <1>2, <1>4, <1>5
<1> QED
    BY <1>6, CountedPolicies DEF Policies!MatchKind, Policies!Alone

LEMMA EstablishedExtends ==
    ASSUME NEW O, NEW P, NEW f, Extends(O, P)
    PROVE  /\ Policies!Established(P, f) # Policies!Established(O, f) =>
                 Policies!Official(O, f) # Policies!Official(P, f)
           /\ "none" # Policies!Established(O, f) =>
                 Policies!Established(P, f) \in {"none", Policies!Established(O, f)}
<1> DEFINE S == {O[o].status : o \in Policies!Official(O, f)} \ {"none"}
           T == {P[o].status : o \in Policies!Official(P, f)} \ {"none"}
<1>1. /\ Policies!Official(O, f) \subseteq Policies!Official(P, f)
      /\ \A o \in Policies!Official(O, f) : P[o] = O[o]
  <2>1. /\ Policies!Group(O, f) \subseteq Policies!Group(P, f)
        /\ \A o \in Policies!Group(O, f) : P[o] = O[o]
      BY GroupsExtend
  <2> QED
      BY <2>1 DEF Policies!Official
<1>2. S \subseteq T
    BY <1>1
<1>3. Policies!Official(O, f) = Policies!Official(P, f) => S = T
    BY <1>1
<1>4. /\ Policies!Established(O, f) = IF Cardinality(S) = 1 THEN CHOOSE v \in S : TRUE ELSE "none"
      /\ Policies!Established(P, f) = IF Cardinality(T) = 1 THEN CHOOSE v \in T : TRUE ELSE "none"
    BY CountedPolicies DEF Policies!Established
<1>5. IsFiniteSet(T)
  <2>1. Policies!Official(P, f) \subseteq Policies!Group(P, f)
      BY DEF Policies!Official
  <2>2. IsFiniteSet(Policies!Official(P, f))
      BY <2>1, GroupsExtend, FS_Subset
  <2> DEFINE F == [o \in Policies!Official(P, f) |-> P[o].status]
  <2>3. IsFiniteSet({P[o].status : o \in Policies!Official(P, f)})
    <3>1. IsFiniteSet({F[o] : o \in Policies!Official(P, f)})
        BY <2>2, SayingsAreFinite
    <3>2. {P[o].status : o \in Policies!Official(P, f)} = {F[o] : o \in Policies!Official(P, f)}
        OBVIOUS
    <3> QED
        BY <3>1, <3>2
  <2> QED
      BY <2>3, FS_Subset
<1> HIDE DEF S, T
<1>6. IsFiniteSet(S)
    BY <1>2, <1>5, FS_Subset
<1>7. ASSUME Cardinality(S) = 1, Cardinality(T) = 1 PROVE S = T
  <2>1. PICK a : S = {a}
      BY <1>6, <1>7, FS_Singleton
  <2>2. PICK b : T = {b}
      BY <1>5, <1>7, FS_Singleton
  <2> QED
      BY <1>2, <2>1, <2>2
<1> QED
    BY <1>3, <1>4, <1>7

\* No step settles a conflict.
LEMMA ConflictsKept ==
    ASSUME PoliciesInv, [Policies!PoliciesNext]_policies
    PROVE  Policies!ConflictsStay
<1>1. Extends(origins, origins')
  <2>1. IsFiniteSet(DOMAIN origins')
      BY PoliciesStep DEF PoliciesInv
  <2>2. CASE UNCHANGED origins
      BY <2>1, <2>2 DEF Extends
  <2>3. ASSUME NEW o \in Origin, Policies!Observe(o) PROVE Extends(origins, origins')
    <3>1. PICK r : origins' = [x \in DOMAIN origins \cup {o} |->
                                 IF x = o THEN r ELSE origins[x]]
        BY <2>3 DEF Policies!Observe
    <3> QED
        BY <2>1, <2>3, <3>1 DEF Extends, Policies!Observe
  <2> QED
      BY <2>2, <2>3 DEF Policies!PoliciesNext, policies, Policies!SettleLane, Policies!Assess,
          Policies!Weaken
<1> QED
    BY <1>1, ConflictsExtend, DuplicatesExtend, EstablishedExtends DEF Policies!ConflictsStay

-----------------------------------------------------------------------------
(* The composition.                                                         *)

\* The orchestration of the composition is that of CapabilityScheduler.
LEMMA AnswersAreScheduled == FairAnswersSpec => Spec
<1>1. AnswersInit => Init
    BY DEF AnswersInit
<1>2. [Orchestrate \/ DecidePolicies \/ DecideStatus \/ Publish]_<<which, vars, policies,
                                                                     publication>>
        => [Next]_vars
    BY DEF Orchestrate, DecidePolicies, DecideStatus, Publish
<1> QED
    BY <1>1, <1>2, PTL DEF FairAnswersSpec, AnswersSpec, Spec

\* The same of the orchestration beside the policies and the publication of
\* answers, for any plans, answers, limits and faults.
THEOREM OrchestrationHolds ==
    FairAnswersSpec =>
        /\ []OrderlyRunsDrain /\ []MachineIsSound /\ []RetryIsPlannable
        /\ SiblingsKeepTheirResults /\ StepsPersist
BY AnswersAreScheduled, OrderlyRunsAlwaysDrain, MachineStaysSound, RetryStaysPlannable,
   SiblingsKeep, StepsAlwaysPersist, PTL

-----------------------------------------------------------------------------
\* The publication and the policies of the composition are those of
\* AnswerPublication and AnswerPolicies.
LEMMA AnswersArePublished ==
    FairAnswersSpec =>
        Publishing!PublicationInit /\ [][Publishing!PublicationNext]_publication
<1>1. AnswersInit => Publishing!PublicationInit
    BY DEF AnswersInit
<1>2. [Orchestrate \/ DecidePolicies \/ DecideStatus \/ Publish]_<<which, vars, policies,
                                                                     publication>>
        => [Publishing!PublicationNext]_publication
    BY DEF Orchestrate, DecidePolicies, DecideStatus, Publish, Publishing!PublicationNext
<1> QED
    BY <1>1, <1>2, PTL DEF FairAnswersSpec, AnswersSpec

LEMMA AnswersHavePolicies ==
    FairAnswersSpec =>
        Policies!PoliciesInit /\ [][Policies!PoliciesNext]_policies
<1>1. AnswersInit => Policies!PoliciesInit
    BY DEF AnswersInit
<1>2. [Orchestrate \/ DecidePolicies \/ DecideStatus \/ Publish]_<<which, vars, policies,
                                                                     publication>>
        => [Policies!PoliciesNext]_policies
    BY DEF Orchestrate, DecidePolicies, DecideStatus, Publish
<1> QED
    BY <1>1, <1>2, PTL DEF FairAnswersSpec, AnswersSpec

\* Prose that is published (execute_claim_verification) rests on evidence that
\* admit_official_evidence admitted for what was asked, that is as it was
\* admitted, and that a released verifier judged sufficient in time and in two
\* passes at most; and where a legal status was asked for, resolve_version_status
\* gives the version behind every unit that status on the day in question: for any units,
\* tokens, families, days and versions.
THEOREM ProseStaysGrounded ==
    ASSUME PublishingSetting
    PROVE  FairAnswersSpec => []PublishedIsGrounded
<1>1. Publishing!PublicationInit => PublicationInv
    BY PublicationStarts
<1>2. PublicationInv /\ [Publishing!PublicationNext]_publication => PublicationInv'
    BY PublicationSteps
<1>3. PublicationInv => PublishedIsGrounded
    BY InvGrounds DEF PublishedIsGrounded
<1> QED
    BY <1>1, <1>2, <1>3, AnswersArePublished, PTL

\* What is observed later about later days changes no decision of
\* resolve_version_status about an earlier one.
THEOREM EarlierDaysStay ==
    ASSUME PublishingSetting
    PROVE  FairAnswersSpec => [][Publishing!AsOfIsStable]_publication
<1>1. Publishing!PublicationInit => PublicationInv
    BY PublicationStarts
<1>2. PublicationInv /\ [Publishing!PublicationNext]_publication => PublicationInv'
    BY PublicationSteps
<1>3. PublicationInv /\ [Publishing!PublicationNext]_publication
        => [Publishing!AsOfIsStable]_publication
    BY AsOfStays
<1> QED
    BY <1>1, <1>2, <1>3, AnswersArePublished, PTL

\* A section that was announced stays with its ceiling when a lane settles
\* (select_knowledge_modes), with the exception SectionsStay names; what makes a
\* claim worse never makes the answer surer (calculate_confidence), unless the
\* claim is covered less; and further observations settle no conflict, take no
\* duplicate back and exchange no legal status (reconcile_internal_live_events):
\* for any number of claims that get worse and of observations.
THEOREM AnnouncedStays ==
    FairAnswersSpec => [][Policies!PoliciesAreStable]_policies
<1>1. Policies!PoliciesInit => PoliciesInv
    BY PoliciesStart
<1>2. PoliciesInv /\ [Policies!PoliciesNext]_policies => PoliciesInv'
    BY PoliciesStep
<1>3. PoliciesInv /\ [Policies!PoliciesNext]_policies
        => [Policies!PoliciesAreStable]_policies
    BY PoliciesStep, SectionsKept, ConflictsKept DEF Policies!PoliciesAreStable
<1> QED
    BY <1>1, <1>2, <1>3, AnswersHavePolicies, PTL

\* The policies and the decisions about earlier days are stable together, for
\* any units, tokens, families, days and versions.
THEOREM AnswersStayStable ==
    ASSUME PublishingSetting
    PROVE  FairAnswersSpec => AnswersAreStable
<1> DEFINE Stable == policies' # policies \/ publication' # publication =>
                       Policies!PoliciesAreStable /\ Publishing!AsOfIsStable
<1>1. Policies!PoliciesInit /\ Publishing!PublicationInit => PoliciesInv /\ PublicationInv
    BY PoliciesStart, PublicationStarts
<1>2. ASSUME PoliciesInv, PublicationInv,
             [Policies!PoliciesNext]_policies, [Publishing!PublicationNext]_publication
      PROVE  PoliciesInv' /\ PublicationInv' /\ [Stable]_<<policies, publication>>
  <2>1. PoliciesInv' /\ PublicationInv'
    BY <1>2, PoliciesStep, PublicationSteps
  <2>2. Policies!PoliciesAreStable
    BY <1>2, PoliciesStep, SectionsKept, ConflictsKept DEF Policies!PoliciesAreStable
  <2>3. Publishing!AsOfIsStable
    BY <1>2, AsOfStays
  <2> QED
    BY <2>1, <2>2, <2>3
<1>3. PublicationInv /\ PoliciesInv
        /\ [Policies!PoliciesNext]_policies /\ [Publishing!PublicationNext]_publication
        => PoliciesInv' /\ PublicationInv' /\ [Stable]_<<policies, publication>>
    BY <1>2
<1> QED
    BY <1>1, <1>3, AnswersHavePolicies, AnswersArePublished, PTL DEF AnswersAreStable
==============================================================================
