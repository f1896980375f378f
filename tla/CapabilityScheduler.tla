------------------------- MODULE CapabilityScheduler -------------------------
(***************************************************************************)
(* execute_ready_phase (ask/orchestration/scheduler.py) under a latency    *)
(* budget (latency.py), and the caller that drives a run through its       *)
(* phases with it.  A phase is executed in waves of ready nodes.  Each     *)
(* invocation of a wave is a coroutine whose stage is                      *)
(*   begin     not scheduled yet                                           *)
(*   permit    a blocking executor waits for the blocking semaphore        *)
(*   slot      waits for the overall semaphore                             *)
(*   running   its executor runs                                           *)
(*   done      its attempt is there                                        *)
(* When time runs out the coroutine is cancelled at whatever await it      *)
(* stands; the thread of a blocking executor goes on.                      *)
(*                                                                         *)
(* clock is what the budget tells apart: 0 before the soft cutoff, which   *)
(* is also the end of optional admission in every frozen profile, 1 until  *)
(* the hard cutoff, 2 after it.  A clock that never ticks is the call      *)
(* without a budget.                                                       *)
(***************************************************************************)
EXTENDS FailurePolicy

CONSTANTS
    Blocking,      \* capabilities bound to a blocking executor
    Bound,         \* capabilities that have a binding
    Answers,       \* Answers[c]: the states an executor of c may report
    MaxConcurrency, MaxBlocking,     \* SchedulerConfig
    MaxFaults      \* bound: executors that raise or answer out of contract,
                   \* request factories that raise, and phases that the caller
                   \* leaves before a call has returned for them

ASSUME SchedulerAssumption ==
    /\ MaxBlocking \in Nat \ {0}
    /\ MaxConcurrency \in Nat /\ MaxBlocking <= MaxConcurrency
    /\ Answers \in [Capability -> SUBSET Reported]
    /\ MaxFaults \in Nat

VARIABLES
    st,        \* the state the caller holds
    call,      \* "idle", or "executing" a phase
    cur,       \* current, inside execute_ready_phase
    wave,      \* wave[n]: stage and attempt of each invocation of the wave
    raised,    \* why the last call raised SchedulerError; "none" if it returned
    executed,  \* a call has returned for the phase the run is in
    orderly,   \* history: no phase was left before a call had returned for it
    clock,
    threads,   \* threads of executors whose coroutine is gone
    faults

vars == <<st, call, cur, wave, raised, executed, orderly, clock, threads, faults>>

Failure(state) ==
    [state |-> state, claims |-> {}, verdicts |-> {}, rejected |-> {},
     evidence |-> FALSE, legal |-> TRUE]

NoAttempt == Failure("cancelled")

Init ==
    /\ st \in {InitialOrchestration(role) : role \in EntityRole}
    /\ call = "idle"
    /\ cur = st
    /\ wave = <<>>
    /\ raised = "none"
    /\ executed = FALSE
    /\ orderly = TRUE
    /\ clock = 0
    /\ threads = 0
    /\ faults = 0

-----------------------------------------------------------------------------
\* Variant: the Citation Verifier has no deadline at all.
DeadlineUnlessVerifier(cap, role) ==
    IF cap \in Verifier THEN 3
    ELSE IF role \in {"optional", "supporting"} THEN 1 ELSE 2

\* LatencyBudget.deadline_stop_reason with remaining_execution_seconds: the
\* clock at which an invocation is out of time
DeadlineOf(cap, role) ==
    IF cap \in Verifier THEN 2
    ELSE IF role \in {"optional", "supporting"} THEN 1 ELSE 2

OutOfTime(n) == clock >= DeadlineOf(CapabilityOf(cur, n), Role(cur, n))

\* _budget_stopped_attempt: at the hard cutoff, and for supporting work, a node
\* times out; optional work stopped earlier counts as cancelled
Stopped(n) ==
    IF Role(cur, n) = "optional" /\ CapabilityOf(cur, n) \notin Verifier
       /\ clock < 2
    THEN Failure("cancelled") ELSE Failure("timed_out")

\* The same where the deadline, not the clock, says why: asyncio.timeout fired.
StoppedByTimeout(n) ==
    IF Role(cur, n) = "optional" /\ CapabilityOf(cur, n) \notin Verifier
    THEN Failure("cancelled") ELSE Failure("timed_out")

\* Results an executor may come back with.  Claims come from the composer,
\* verdicts from the verifier's second pass; who finds something that counts as
\* useful progress of a section delivers it.
Results(n) ==
    LET cap == CapabilityOf(cur, n)
        finds == {"regulatory_retriever", "knowledge_graph", "timeline_builder",
                  "news_retriever", "general_ai"}
        claims == IF cap = "response_composer" THEN {{}, Claim} ELSE {{}}
        verdicts == IF cap = "claim_support" THEN SUBSET Claim ELSE {{}}
    IN UNION {{[state |-> a, claims |-> k, verdicts |-> v, rejected |-> x,
                evidence |-> cap \in finds /\ a \in {"satisfied", "partial"},
                legal |-> TRUE] : x \in SUBSET v} :
              a \in Answers[cap], k \in claims, v \in verdicts}

\* A result that _finish_capability or the contract refuses.
OutOfContract == [Failure("satisfied") EXCEPT !.legal = FALSE]

Stage(n) == wave[n].stage
InStage(stages) == {n \in DOMAIN wave : Stage(n) \in stages}
IsBlocking(n) == CapabilityOf(cur, n) \in Blocking

\* Permits in use.
OverallHeld == Cardinality(InStage({"running"}))
BlockingHeld == Cardinality({n \in InStage({"slot", "running"}) : IsBlocking(n)})

Goto(n, stage) == wave' = [wave EXCEPT ![n].stage = stage]
Attempt(n, r) == wave' = [wave EXCEPT ![n] = [stage |-> "done", result |-> r]]

-----------------------------------------------------------------------------
\* Variant: only a dependency that was satisfied lets a node run.
ReadyAfterSuccess(s) ==
    {n \in Nodes(s) : CanActivate(s, n) /\ \A d \in Needs(s, n) : s.node[d] = "satisfied"}

\* _ready_nodes
ReadyNodes(s) == {n \in Nodes(s) : CanActivate(s, n)}

\* Queued nodes that this phase should have executed.
Unresolved(s) ==
    {n \in Nodes(s) : s.node[n] = "queued" /\ s.phase \in PhasesOf(s, n)}

\* execute_ready_phase is called
Execute ==
    /\ call = "idle"
    /\ Open(st)
    /\ Unresolved(st) # {} /\ ~executed
    /\ call' = "executing"
    /\ cur' = st
    /\ UNCHANGED <<st, wave, raised, executed, orderly, clock, threads, faults>>

\* A SchedulerError leaves the caller with the state it had.
Raise(reason) ==
    /\ call' = "idle"
    /\ cur' = st
    /\ wave' = <<>>
    /\ raised' = reason
    /\ UNCHANGED <<st, executed, orderly, clock, threads>>

\* Requests are built and their nodes activated; then gather starts.
BeginWave ==
    /\ call = "executing" /\ DOMAIN wave = {}
    /\ ReadyNodes(cur) # {}
    /\ \/ /\ cur' = Activated(cur, ReadyNodes(cur))
          /\ wave' = [n \in ReadyNodes(cur) |->
                         [stage |-> "begin", result |-> NoAttempt]]
          /\ UNCHANGED <<st, call, raised, executed, orderly, clock, threads, faults>>
       \/ /\ faults < MaxFaults
          /\ faults' = faults + 1
          /\ Raise("factory")

\* The first step of _execute_invocation.
BeginNode(n) ==
    /\ n \in InStage({"begin"})
    /\ IF OutOfTime(n) THEN Attempt(n, Stopped(n))
       ELSE IF CapabilityOf(cur, n) \notin Bound THEN Attempt(n, Failure("unavailable"))
       ELSE Goto(n, IF IsBlocking(n) THEN "permit" ELSE "slot")
    /\ UNCHANGED <<st, call, cur, raised, executed, orderly, clock, threads, faults>>

AcquirePermit(n) ==
    /\ n \in InStage({"permit"})
    /\ BlockingHeld < MaxBlocking
    /\ Goto(n, "slot")
    /\ UNCHANGED <<st, call, cur, raised, executed, orderly, clock, threads, faults>>

AcquireSlot(n) ==
    /\ n \in InStage({"slot"})
    /\ OverallHeld < MaxConcurrency
    /\ Goto(n, "running")
    /\ UNCHANGED <<st, call, cur, raised, executed, orderly, clock, threads, faults>>

\* The executor answers.  An answer that comes when time is out is discarded.
Return(n) ==
    /\ n \in InStage({"running"})
    /\ IF OutOfTime(n) THEN Attempt(n, Stopped(n))
       ELSE \E r \in Results(n) : Attempt(n, r)
    /\ UNCHANGED <<st, call, cur, raised, executed, orderly, clock, threads, faults>>

\* The executor raises, or answers something that is no legal result.
Fault(n) ==
    /\ n \in InStage({"running"})
    /\ faults < MaxFaults
    /\ faults' = faults + 1
    /\ \E r \in {Failure("unavailable"), OutOfContract} : Attempt(n, r)
    /\ UNCHANGED <<st, call, cur, raised, executed, orderly, clock, threads>>

\* asyncio.timeout fires, also while the coroutine waits for a semaphore.
Timeout(n) ==
    /\ n \in InStage({"permit", "slot", "running"})
    /\ OutOfTime(n)
    /\ Attempt(n, StoppedByTimeout(n))
    /\ threads' = IF Stage(n) = "running" /\ IsBlocking(n) THEN threads + 1 ELSE threads
    /\ UNCHANGED <<st, call, cur, raised, executed, orderly, clock, faults>>

\* A thread that nobody waits for any more comes to its end.
ThreadEnds ==
    /\ threads > 0
    /\ threads' = threads - 1
    /\ UNCHANGED <<st, call, cur, wave, raised, executed, orderly, clock, faults>>

\* Variant: one invalid output of the wave makes the others invalid as well.
ApplyAllOrNothing(s, n) ==
    IF \A m \in DOMAIN wave : wave[m].result.legal
    THEN Finished(s, n, wave[n].result)
    ELSE Finished(s, n, Failure("invalid_output"))

\* finish_capability, or in its place the fixed result for an invalid output
Apply(s, n) ==
    IF CanFinish(s, n, wave[n].result) THEN Finished(s, n, wave[n].result)
    ELSE Finished(s, n, Failure("invalid_output"))

\* The nodes of a state in the order of its capabilities.
Order(s) == IF s.plan = NoPlan THEN <<"intent", "entity">> ELSE PlanOf(s).order

\* The state after the results of a wave, applied in plan order.
AfterWave ==
    LET order == Order(cur)
        after[k \in 0..Len(order)] ==
            IF k = 0 THEN cur
            ELSE IF order[k] \in DOMAIN wave THEN Apply(after[k - 1], order[k])
            ELSE after[k - 1]
    IN after[Len(order)]

\* Results are applied once all of the wave are there.
EndWave ==
    /\ call = "executing" /\ DOMAIN wave # {}
    /\ \A n \in DOMAIN wave : Stage(n) = "done"
    /\ cur' = AfterWave
    /\ wave' = <<>>
    /\ UNCHANGED <<st, call, raised, executed, orderly, clock, threads, faults>>

\* No node is ready: the report, or an error for what could not be executed.
EndPhase ==
    /\ call = "executing" /\ DOMAIN wave = {}
    /\ ReadyNodes(cur) = {}
    /\ IF Unresolved(cur) # {}
       THEN Raise("unresolved") /\ UNCHANGED faults
       ELSE /\ st' = cur
            /\ call' = "idle"
            /\ raised' = "none"
            /\ executed' = TRUE
            /\ UNCHANGED <<cur, wave, orderly, clock, threads, faults>>

Tick ==
    /\ clock < 2
    /\ clock' = clock + 1
    /\ UNCHANGED <<st, call, cur, wave, raised, executed, orderly, threads, faults>>

-----------------------------------------------------------------------------
\* The caller applies an operation of the state machine between two calls.
Become(s) ==
    /\ call = "idle"
    /\ st' = s
    /\ cur' = s
    /\ raised' = "none"
    /\ UNCHANGED <<call, wave, clock, threads>>

EnterPhase(s) ==
    /\ Become(s)
    /\ executed' = FALSE
    /\ IF executed \/ Unresolved(st) = {}
       THEN UNCHANGED <<orderly, faults>>
       ELSE /\ faults < MaxFaults
            /\ faults' = faults + 1
            /\ orderly' = FALSE

AdvancePhase == CanAdvancePhase(st) /\ EnterPhase(AdvancedPhase(st))

ApprovePlan == \E p \in DOMAIN WorkPlan : CanApprove(st, p) /\ EnterPhase(Approved(st, p))

InPlace(s) == Become(s) /\ UNCHANGED <<executed, orderly, faults>>

TransitionSection ==
    \E c \in Sections(st) : \E target \in SectionWork \cup SectionTerminal :
        /\ CanTransitionSection(st, c, target)
        /\ InPlace(SectionMoved(st, c, target))

CutOff == clock = 2 /\ HardCutoff(st) # st /\ InPlace(HardCutoff(st))

FinalizeClarification ==
    CanFinalizeClarification(st) /\ InPlace(Finalized(st, "clarification_result"))

FinalizeOrchestration ==
    CanFinalize(st) /\ InPlace(Finalized(st, DerivedTerminal(st)))

Caller ==
    \/ Execute \/ AdvancePhase \/ ApprovePlan \/ TransitionSection \/ CutOff
    \/ FinalizeClarification \/ FinalizeOrchestration

\* What the event loop does by itself.
Coroutine(n) == BeginNode(n) \/ AcquirePermit(n) \/ AcquireSlot(n) \/ Timeout(n)

Next ==
    \/ Caller
    \/ BeginWave \/ EndWave \/ EndPhase
    \/ \E n \in DOMAIN wave : Coroutine(n) \/ Return(n) \/ Fault(n)
    \/ ThreadEnds
    \/ Tick

Spec == Init /\ [][Next]_vars

\* The event loop runs what can proceed, and time passes; nothing makes an
\* executor answer or the caller call.
Waves == BeginWave \/ EndWave \/ EndPhase \/ \E n \in DOMAIN wave : Coroutine(n)

FairSpec == Spec /\ WF_vars(Waves) /\ WF_vars(Tick)
-----------------------------------------------------------------------------
Stages == {"begin", "permit", "slot", "running", "done"}

\* A state of the machine under plan PlanOf(s).
Shape(s) ==
    /\ s.phase \in Phase
    /\ s.plan \in AcceptedPlans \cup {NoPlan} /\ s.entity \in EntityRole
    /\ s.node \in [Nodes(s) -> NodeState]
    /\ s.section \in [Sections(s) -> SectionWork \cup SectionTerminal]
    /\ \A c \in Sections(s) :
          s.verified[c] \subseteq s.material[c] /\ s.material[c] \subseteq s.claims

\* The caller's state never holds active work, and a verdict is always about a
\* claim that was admitted to the section it is recorded in.
TypeOK ==
    /\ Shape(st) /\ Shape(cur)
    /\ \A n \in Nodes(st) : st.node[n] # "active"
    /\ {n \in Nodes(cur) : cur.node[n] = "active"} = DOMAIN wave
    /\ \A n \in DOMAIN wave : Stage(n) \in Stages
    /\ OverallHeld <= MaxConcurrency /\ BlockingHeld <= MaxBlocking
    /\ threads \in Nat

First(c) == CHOOSE i \in ActivationPhases(c) : \A j \in ActivationPhases(c) : i <= j

\* Every node of the plan runs after the approval, and waits only for nodes whose
\* first phase is not later than its own; _validate_capability_node_plan asks for
\* less.
InOrder(p) ==
    \A n \in PlanNodes(p) :
        /\ First(p.capability[n]) > PlanApproval
        /\ \A d \in p.needs[n] : First(p.capability[d]) <= First(p.capability[n])

\* As long as the caller leaves no phase before a call has returned for it, no
\* selected node is left behind: a call never ends with queued nodes that this
\* phase should have executed, and a queued node has a phase still to come.
\* However the nodes before it ended, and whatever was cut off.
OrderlyRunsDrain ==
    orderly /\ (st.plan = NoPlan \/ InOrder(PlanOf(st))) =>
        /\ raised # "unresolved"
        /\ \A n \in Nodes(st) : st.node[n] = "queued" =>
              \E i \in PhasesOf(st, n) : i > st.phase \/ (i = st.phase /\ ~executed)

\* A grounded section that is shown, degraded by the hard cutoff or not, holds
\* only material claims with a final verdict: none that a composer or a retry
\* of a call added behind the verifier's back.
NoUnverifiedClaimShown ==
    \A s \in {st, cur} : \A c \in Sections(s) :
        c \in PlanOf(s).grounded /\ s.section[c] \in Shown
            => s.material[c] \subseteq s.verified[c]

\* What the caller holds is a state of the machine, and none of it is shown
\* before it is verified.
MachineIsSound == TypeOK /\ NoUnverifiedClaimShown

\* Whatever a capability reported before it failed, a node that
\* _validate_retry_node admits has a failure decision for its retry plan.
RetryIsPlannable ==
    \A n \in Nodes(st) : Retryable(st, n) => Decides(st, n)

\* In a wave each node gets exactly one terminal state, and a failure of one
\* leaves the result of a sibling alone: a legal result without claims or
\* verdicts, about which two nodes could disagree, is admitted as it is.
SiblingsKeepTheirResults ==
    [][DOMAIN wave # {} /\ wave' = <<>> /\ call' = "executing" =>
          \A n \in Nodes(cur) :
             IF n \notin DOMAIN wave THEN cur'.node[n] = cur.node[n]
             ELSE LET r == wave[n].result IN
                  /\ cur'.node[n] \in {r.state, "invalid_output"}
                  /\ r.legal /\ r.claims = {} /\ r.verdicts = {}
                        => cur'.node[n] = r.state]_vars

\* The state as durability.py compares it.
AllNodes == Bootstrap \cup UNION {PlanNodes(p) : p \in Range(WorkPlan)}
AllSections == UNION {p.sections : p \in Range(WorkPlan)}
Persisted == INSTANCE OrchestrationProgress WITH
                 Node <- AllNodes, Section <- AllSections, LastPhase <- Completion

\* What is not there yet is open while the run is.
Abstract(s) ==
    [phase    |-> s.phase,
     node     |-> [n \in AllNodes |->
         IF n \notin Nodes(s) THEN IF Open(s) THEN "queued" ELSE "success"
         ELSE IF s.node[n] \in {"queued", "active", "unavailable"} THEN s.node[n]
         ELSE "success"],
     section  |-> [c \in AllSections |->
         IF c \in Sections(s) /\ s.section[c] \in SectionWork THEN "planned"
         ELSE IF c \notin Sections(s) /\ Open(s) THEN "planned" ELSE "terminal"],
     terminal |-> s.terminal]

\* Whatever the caller does with the machine and the scheduler, every state is
\* valid, and persistence accepts it as successor of the one before it
\* (validate_orchestration_progress) with one exception: a plan that does not
\* keep both bootstrap nodes, which approve_work_plan accepts.  So a driver of
\* the execution coordinator that is built from them is refused for nothing else.
StepsPersist ==
    [][/\ Persisted!ValidState(Abstract(st'))
       /\ Persisted!Progress(Abstract(st), Abstract(st')) <=> Nodes(st) \subseteq Nodes(st')]_st

\* A call ends although executors never answer: the deadline covers the waits
\* for both semaphores, and a permit is never kept by an invocation that is out
\* of time.
EveryPhaseEnds == call = "executing" ~> call = "idle"
==============================================================================
