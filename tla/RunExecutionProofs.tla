------------------------- MODULE RunExecutionProofs -------------------------
(***************************************************************************)
(* Proofs about RunExecution, for any number of workers, any clocks and    *)
(* any set of capabilities and sections, in three parts.                   *)
(*                                                                         *)
(* Types.                                                                  *)
(*                                                                         *)
(* Safety: the journal can always be replayed, a cancellation is never     *)
(* overtaken by a driver's result, and the run is the sequential process   *)
(* of RunLifecycle.  Fenced says what a worker may believe about the row   *)
(* while nobody else has written: the version check turns "nobody else has *)
(* written" into "my call is accepted".  JournalStep says that every step  *)
(* is then one of four shapes, and each property follows from the shapes   *)
(* alone.                                                                  *)
(*                                                                         *)
(* Custody: what holding the lease is worth.  While the row names a        *)
(* worker's lease, nobody else changes the state: whoever drives the run   *)
(* has recovered what its predecessor left active, and whoever meets a     *)
(* cancellation can apply it.  Leases are fresh identifiers, so one        *)
(* worker's lease is never another's (LeasesApart); a step that leaves the *)
(* row in a worker's hands is then either its own, or a request of the     *)
(* user, or changes nothing the worker relies on (HolderUndisturbed).      *)
(***************************************************************************)
EXTENDS RunExecution, DurableRunProofs

-----------------------------------------------------------------------------
(* Part 1: types.                                                          *)
-----------------------------------------------------------------------------
(* recover_interrupted_capabilities.                                       *)

\* recover_interrupted_capabilities keeps a state valid, and changes one that
\* has an active capability.
LEMMA RecoveredValid ==
    ASSUME NEW s \in State
    PROVE  /\ Recovered(s) \in State
           /\ HasActive(s) => Recovered(s) # s
<1>1. s \in OrchestrationRecord /\ ValidState(s)
    BY DEF State
<1>2. Recovered(s) \in OrchestrationRecord
    BY <1>1 DEF Recovered, OrchestrationRecord, NodeState, NodeTerminal
<1>3. ValidState(Recovered(s))
    BY <1>1 DEF Recovered, OrchestrationRecord, ValidState, NodeTerminal
<1>4. ASSUME HasActive(s) PROVE Recovered(s) # s
  <2>1. PICK n \in Node : s.node[n] = "active"
      BY <1>4 DEF HasActive
  <2>2. Recovered(s).node[n] = "unavailable"
      BY <1>1, <2>1 DEF Recovered, OrchestrationRecord
  <2> QED
      BY <2>1, <2>2
<1> QED
    BY <1>2, <1>3, <1>4 DEF State

-----------------------------------------------------------------------------
(* The workers' steps preserve the types.                                  *)

LEMMA FreshIdType == RepoTypeOK => FreshId \in Id
BY DEF RepoTypeOK, RunRow, FreshId, Id

LEMMA IdleType == \A outcome \in Outcome : Idle(outcome) \in Local
BY InitialStateValid, RunExecutionAssumption DEF Idle, Local, Pc, NoId

\* A worker's coroutine holds typed values after it goes to another await.
LEMMA GotoType ==
    ASSUME wk \in [Worker -> Local], NEW w \in Worker, NEW local \in Local,
           NEW pc \in Pc, Goto(w, local, pc)
    PROVE  wk' \in [Worker -> Local]
BY InitialStateValid DEF Goto, Become, Local

\* ... and what it holds is what it was given.
LEMMA GotoEffect ==
    ASSUME wk \in [Worker -> Local], NEW w \in Worker, NEW local \in Local,
           NEW pc \in Pc, Goto(w, local, pc)
    PROVE  /\ wk'[w].pc = pc
           /\ wk'[w].lease = local.lease
           /\ wk'[w].version = local.version
           /\ wk'[w].state = local.state
           /\ wk'[w].request = local.request
           /\ wk'[w].steps = local.steps
           /\ wk'[w].fresh = local.fresh
           /\ wk'[w].outcome = local.outcome
BY DEF Goto, Become, Local

LEMMA BecomeEffect ==
    ASSUME wk \in [Worker -> Local], NEW w \in Worker, NEW local, Become(w, local)
    PROVE  wk'[w] = local
BY DEF Become

LEMMA ExitEffect ==
    ASSUME wk \in [Worker -> Local], NEW w \in Worker, NEW outcome, Exit(w, outcome)
    PROVE  wk'[w] = Idle(outcome) /\ wk'[w].pc = "idle"
BY DEF Exit, Become, Idle

LEMMA SnapshotEffect ==
    ASSUME NEW local \in Local
    PROVE  LET loaded == WithSnapshot(local) IN
           /\ loaded.version = run.version
           /\ loaded.state = run.state
           /\ loaded.request = run.cancel
           /\ loaded.pc = local.pc
           /\ loaded.lease = local.lease
           /\ loaded.steps = local.steps
           /\ loaded.fresh = local.fresh
           /\ loaded.cand = local.cand
BY DEF WithSnapshot, Local

LEMMA ExitType ==
    ASSUME wk \in [Worker -> Local], NEW w \in Worker,
           NEW outcome \in Outcome, Exit(w, outcome)
    PROVE  wk' \in [Worker -> Local]
BY IdleType DEF Exit, Become

LEMMA SnapshotType ==
    ASSUME RepoTypeOK, NEW local \in Local
    PROVE  WithSnapshot(local) \in Local
BY DEF RepoTypeOK, RunRow, WithSnapshot, Local

LEMMA LoopHeadType ==
    ASSUME wk \in [Worker -> Local], NEW w \in Worker, NEW local \in Local,
           LoopHead(w, local)
    PROVE  wk' \in [Worker -> Local]
<1>1. CASE IsTerminal(run.status)
    BY <1>1, ExitType DEF LoopHead, Outcome
<1>2. CASE \E pc \in Pc : Goto(w, local, pc)
    BY <1>2, GotoType
<1>3. CASE Exit(w, "stalled")
    BY <1>3, ExitType DEF Outcome
<1> QED
    BY <1>1, <1>2, <1>3 DEF LoopHead, Pc

LEMMA InitTypeOK == Init => TypeOK
<1> SUFFICES ASSUME Init PROVE TypeOK
    OBVIOUS
<1>1. run \in RunRow /\ events \in Seq(Event)
    BY InitialStateValid DEF Init, RepoInit, RunRow, RunStatus, NoId
<1>2. wk \in [Worker -> Local]
    BY IdleType DEF Init, Outcome
<1>3. starts \in 0..MaxStarts /\ crashes \in 0..MaxCrashes
    BY RunExecutionAssumption DEF Init
<1> QED
    BY <1>1, <1>2, <1>3 DEF TypeOK, RepoTypeOK

\* A coroutine about to count an accepted step has one left: the strengthening
\* that bounds accepted_steps by max_steps.
StepLeft(local) ==
    \/ local.pc \in {"renew", "renewed", "drive", "driven"}
    \/ local.pc \in {"append", "reload"} /\ ~local.fresh
    => local.steps < MaxSteps

StepsLeft == \A w \in Worker : StepLeft(wk[w])

\* Every step keeps every variable in its type; in particular a coroutine never
\* counts more than max_steps accepted steps.
LEMMA NextTypeOK == TypeOK /\ StepsLeft /\ [Next]_vars => TypeOK'
<1> SUFFICES ASSUME TypeOK, StepsLeft, [Next]_vars PROVE TypeOK'
    OBVIOUS
<1> USE DEF repoVars
<1>1. RepoTypeOK /\ wk \in [Worker -> Local]
    BY DEF TypeOK
<1>2. starts \in 0..MaxStarts /\ crashes \in 0..MaxCrashes
    BY DEF TypeOK
<1>3. FreshId \in Id /\ FreshId \in Nat
    BY <1>1, FreshIdType DEF Id
<1>4. CASE UNCHANGED vars
    BY <1>1, <1>2, <1>4 DEF vars, TypeOK, RepoTypeOK
<1>5. CASE UserCancel
    BY <1>1, <1>2, <1>3, <1>5, RequestType DEF UserCancel, TypeOK
<1>6. CASE Expire
    BY <1>1, <1>2, <1>6, TickType DEF Expire, TypeOK
<1>7. ASSUME NEW w \in Worker, Start(w) \/ WorkerStep(w) \/ Crash(w)
      PROVE  TypeOK'
  <2>1. /\ wk[w] \in Local
        /\ wk[w].lease \in Nat /\ wk[w].version \in Nat /\ wk[w].request \in Nat
        /\ wk[w].state \in State /\ wk[w].cand \in State
        /\ wk[w].steps \in 0..MaxSteps
        /\ Skew[w] \in Nat
      BY <1>1, RunExecutionAssumption DEF Local
  <2>2. WithSnapshot(wk[w]) \in Local
      BY <1>1, <2>1, SnapshotType
  <2>3. run.state \in State
      BY <1>1 DEF RepoTypeOK, RunRow
  <2>4. CASE Start(w)
    <3>1. starts' \in 0..MaxStarts /\ crashes' \in 0..MaxCrashes
        BY <1>2, <2>4, RunExecutionAssumption DEF Start
    <3>2. [Idle("none") EXCEPT !.pc = "acquire"] \in Local
      <4>1. Idle("none") \in Local /\ "acquire" \in Pc
          BY IdleType DEF Outcome, Pc
      <4> QED
          BY <4>1 DEF Local
    <3>3. wk' \in [Worker -> Local]
        BY <1>1, <2>4, <3>2, ExitType DEF Start, Become, Outcome
    <3> QED
        BY <1>1, <2>4, <3>1, <3>3 DEF Start, TypeOK, RepoTypeOK
  <2>5. CASE Acquire(w)
    <3>1. [wk[w] EXCEPT !.pc = "own", !.lease = FreshId] \in Local
        BY <1>3, <2>1 DEF Local, Pc
    <3>2. wk' \in [Worker -> Local]
        BY <1>1, <2>5, <3>1, ExitType DEF Acquire, Become, Outcome
    <3>3. RepoTypeOK'
        BY <1>1, <1>3, <2>1, <2>5, AcquireType DEF Acquire, RepoTypeOK
    <3> QED
        BY <1>2, <2>5, <3>2, <3>3 DEF Acquire, TypeOK
  <2>6. CASE Own(w)
    <3> DEFINE local == WithSnapshot(wk[w])
    <3>1. [local EXCEPT !.pc = "append", !.fresh = TRUE,
                        !.cand = Recovered(local.state)] \in Local
        BY <2>2, RecoveredValid DEF Local, Pc
    <3>2. wk' \in [Worker -> Local]
      <4> HIDE DEF local
      <4> QED
          BY <1>1, <2>2, <2>6, <3>1, ExitType, LoopHeadType
             DEF Own, Become, Outcome, local
    <3> QED
        BY <1>1, <1>2, <2>6, <3>2 DEF Own, TypeOK, RepoTypeOK
  <2>7. CASE Renew(w)
    <3>1. wk' \in [Worker -> Local]
        BY <1>1, <2>1, <2>7, GotoType DEF Renew, Pc
    <3>2. RepoTypeOK'
        BY <1>1, <1>3, <2>1, <2>7, RenewType DEF Renew, RepoTypeOK
    <3> QED
        BY <1>2, <2>7, <3>1, <3>2 DEF Renew, TypeOK
  <2>8. CASE Renewed(w)
    <3>1. wk' \in [Worker -> Local]
        BY <1>1, <2>1, <2>2, <2>8, GotoType DEF Renewed, Pc
    <3> QED
        BY <1>1, <1>2, <2>8, <3>1 DEF Renewed, TypeOK, RepoTypeOK
  <2>9. CASE Drive(w)
    <3>1. \A s \in State : [wk[w] EXCEPT !.pc = "driven", !.cand = s] \in Local
        BY <2>1 DEF Local, Pc
    <3>2. wk' \in [Worker -> Local]
        BY <1>1, <2>9, <3>1, ExitType DEF Drive, Become, Outcome
    <3> QED
        BY <1>1, <1>2, <2>9, <3>2 DEF Drive, TypeOK, RepoTypeOK
  <2>10. CASE Driven(w)
    <3> DEFINE local == WithSnapshot(wk[w])
    <3>1. [local EXCEPT !.pc = "append", !.fresh = FALSE] \in Local
        BY <2>2 DEF Local, Pc
    <3>2. wk' \in [Worker -> Local]
      <4>1. \/ \E pc \in Pc : Goto(w, wk[w], pc) \/ Goto(w, local, pc)
            \/ \E outcome \in Outcome : Exit(w, outcome)
            \/ Become(w, [local EXCEPT !.pc = "append", !.fresh = FALSE])
          BY <2>10 DEF Driven, Pc, Outcome
      <4> QED
          BY <1>1, <2>1, <2>2, <3>1, <4>1, ExitType, GotoType DEF Become
    <3> QED
        BY <1>1, <1>2, <2>10, <3>2 DEF Driven, TypeOK, RepoTypeOK
  <2>11. CASE AppendState(w)
    <3>1. wk' \in [Worker -> Local]
        BY <1>1, <2>1, <2>11, GotoType DEF AppendState, Pc
    <3>2. RepoTypeOK'
        BY <1>1, <1>3, <2>1, <2>11, AppendType DEF AppendState, RepoTypeOK
    <3> QED
        BY <1>2, <2>11, <3>1, <3>2 DEF AppendState, TypeOK
  <2>12. CASE Reload(w)
    <3> DEFINE steps == IF wk[w].fresh THEN wk[w].steps ELSE wk[w].steps + 1
               local == [WithSnapshot(wk[w]) EXCEPT !.steps = steps, !.fresh = FALSE]
    <3>1. steps \in 0..MaxSteps
        BY <2>1, <2>12, RunExecutionAssumption DEF Reload, StepsLeft, StepLeft
    <3>2. local \in Local
        BY <2>2, <3>1 DEF Local
    <3>3. LoopHead(w, local)
        BY <2>12 DEF Reload
    <3>4. wk' \in [Worker -> Local]
        BY <1>1, <3>2, <3>3, LoopHeadType
    <3> QED
        BY <1>1, <1>2, <2>12, <3>4 DEF Reload, TypeOK, RepoTypeOK
  <2>13. CASE Resolve(w)
    <3>1. wk' \in [Worker -> Local]
        BY <1>1, <2>2, <2>13, ExitType, GotoType DEF Resolve, Pc, Outcome
    <3> QED
        BY <1>1, <1>2, <2>13, <3>1 DEF Resolve, TypeOK, RepoTypeOK
  <2>14. CASE ApplyCancel(w)
    <3>1. wk' \in [Worker -> Local]
        BY <1>1, <2>1, <2>14, ExitType, GotoType DEF ApplyCancel, Pc, Outcome
    <3>2. RepoTypeOK'
        BY <1>1, <1>3, <2>1, <2>14, ApplyType DEF ApplyCancel, RepoTypeOK
    <3> QED
        BY <1>2, <2>14, <3>1, <3>2 DEF ApplyCancel, TypeOK
  <2>15. CASE Cancelled(w)
    <3>1. wk' \in [Worker -> Local]
        BY <1>1, <2>15, ExitType DEF Cancelled, Outcome
    <3> QED
        BY <1>1, <1>2, <2>15, <3>1 DEF Cancelled, TypeOK, RepoTypeOK
  <2>16. CASE Crash(w)
    <3>1. wk' \in [Worker -> Local]
        BY <1>1, <2>16, ExitType DEF Crash, Outcome
    <3>2. crashes' \in 0..MaxCrashes
        BY <1>2, <2>16, RunExecutionAssumption DEF Crash
    <3> QED
        BY <1>1, <1>2, <2>16, <3>1, <3>2 DEF Crash, TypeOK, RepoTypeOK
  <2> QED
      BY <1>7, <2>4, <2>5, <2>6, <2>7, <2>8, <2>9, <2>10, <2>11, <2>12, <2>13,
         <2>14, <2>15, <2>16 DEF WorkerStep
<1> QED
    BY <1>4, <1>5, <1>6, <1>7 DEF Next

-----------------------------------------------------------------------------
(* The step budget is kept.                                                *)

LEMMA InitStepsLeft == Init => StepsLeft
BY DEF Init, Idle, StepsLeft, StepLeft

\* The head of the loop goes on only with steps left.
LEMMA LoopHeadStepLeft ==
    ASSUME wk \in [Worker -> Local], NEW w \in Worker, NEW local \in Local,
           LoopHead(w, local)
    PROVE  StepLeft(wk'[w])
<1>1. local.steps >= MaxSteps \/ local.steps < MaxSteps
    BY RunExecutionAssumption DEF Local
<1>2. CASE \E outcome : Exit(w, outcome)
    BY <1>2, ExitEffect DEF StepLeft
<1>3. CASE \/ Goto(w, local, "cancel")
           \/ local.steps < MaxSteps /\ \E pc \in Pc : Goto(w, local, pc)
    BY <1>3, GotoEffect DEF StepLeft, Pc
<1> QED
    BY <1>1, <1>2, <1>3 DEF LoopHead, Pc

\* A worker's step changes what that worker holds, and nobody else.
LEMMA OneMoves ==
    ASSUME TypeOK, NEW w \in Worker, NEW u \in Worker, w # u,
           Start(w) \/ WorkerStep(w) \/ Crash(w)
    PROVE  wk'[u] = wk[u]
<1>1. \E local : Become(w, local)
    BY DEF Start, WorkerStep, Crash, Acquire, Own, Renew, Renewed, Drive,
           Driven, AppendState, Reload, Resolve, ApplyCancel, Cancelled,
           LoopHead, Goto, Exit
<1> QED
    BY <1>1 DEF Become, TypeOK

LEMMA OthersKept ==
    ASSUME TypeOK, [Next]_vars, NEW u \in Worker
    PROVE  wk'[u] = wk[u] \/ Start(u) \/ WorkerStep(u) \/ Crash(u)
<1>1. CASE UNCHANGED vars \/ UserCancel \/ Expire
    BY <1>1 DEF vars, UserCancel, Expire
<1> QED
    BY <1>1, OneMoves DEF Next

LEMMA NextStepsLeft == TypeOK /\ StepsLeft /\ [Next]_vars => StepsLeft'
<1> SUFFICES ASSUME TypeOK, StepsLeft, [Next]_vars, NEW u \in Worker
             PROVE  StepLeft(wk'[u])
    BY DEF StepsLeft, StepLeft
<1>1. /\ RepoTypeOK /\ wk \in [Worker -> Local] /\ wk[u] \in Local
      /\ StepLeft(wk[u])
    BY DEF TypeOK, StepsLeft
<1>2. CASE wk'[u] = wk[u]
    BY <1>1, <1>2 DEF StepLeft
<1>3. ASSUME NEW outcome, Exit(u, outcome) PROVE StepLeft(wk'[u])
    BY <1>1, <1>3 DEF Exit, Become, Idle, StepLeft
<1>4. CASE Start(u) \/ WorkerStep(u) \/ Crash(u)
  <2>1. WithSnapshot(wk[u]) \in Local
      BY <1>1, SnapshotType
  <2>3. CASE Own(u)
    <3>1. CASE Exit(u, "stale") \/ LoopHead(u, WithSnapshot(wk[u]))
        BY <1>1, <1>3, <2>1, <3>1, LoopHeadStepLeft
    <3>2. CASE Become(u, [WithSnapshot(wk[u]) EXCEPT !.pc = "append", !.fresh = TRUE,
                              !.cand = Recovered(WithSnapshot(wk[u]).state)])
        BY <1>1, <2>1, <3>2 DEF Become, StepLeft, Local
    <3> QED
        BY <2>3, <3>1, <3>2 DEF Own
  <2>4. CASE Reload(u)
    <3> DEFINE steps == IF wk[u].fresh THEN wk[u].steps ELSE wk[u].steps + 1
               local == [WithSnapshot(wk[u]) EXCEPT !.steps = steps, !.fresh = FALSE]
    <3>1. steps \in 0..MaxSteps
        BY <1>1, <2>4, RunExecutionAssumption DEF Reload, StepLeft, Local
    <3>2. local \in Local
        BY <2>1, <3>1 DEF Local
    <3> QED
        BY <1>1, <2>4, <3>2, LoopHeadStepLeft DEF Reload
  <2>5. CASE Renew(u)
      BY <1>1, <2>5, GotoEffect DEF Renew, StepLeft, Pc
  <2>6. CASE Renewed(u)
      BY <1>1, <2>1, <2>6, GotoEffect, SnapshotEffect DEF Renewed, StepLeft, Pc
  <2>7. CASE Drive(u)
    <3>1. ASSUME NEW s \in State,
                 Become(u, [wk[u] EXCEPT !.pc = "driven", !.cand = s])
          PROVE  StepLeft(wk'[u])
        BY <1>1, <2>7, <3>1, BecomeEffect DEF Drive, StepLeft, Local
    <3> QED
        BY <1>3, <2>7, <3>1 DEF Drive
  <2>8. CASE Driven(u)
    <3>1. CASE Become(u, [WithSnapshot(wk[u]) EXCEPT !.pc = "append", !.fresh = FALSE])
        BY <1>1, <2>8, <3>1, BecomeEffect DEF Driven, WithSnapshot, StepLeft, Local
    <3>2. CASE \/ Goto(u, wk[u], "resolve")
               \/ Goto(u, WithSnapshot(wk[u]), "cancel")
        BY <1>1, <2>1, <3>2, GotoEffect DEF StepLeft, Pc
    <3> QED
        BY <1>3, <2>8, <3>1, <3>2 DEF Driven
  <2>9. CASE AppendState(u)
      BY <1>1, <2>9, GotoEffect DEF AppendState, StepLeft, Pc
  <2>10. CASE Resolve(u) \/ ApplyCancel(u) \/ Cancelled(u) \/ Crash(u)
    <3>1. \/ Goto(u, WithSnapshot(wk[u]), "cancel")
          \/ Goto(u, wk[u], "cancelled")
          \/ \E outcome : Exit(u, outcome)
        BY <2>10 DEF Resolve, ApplyCancel, Cancelled, Crash
    <3> QED
        BY <1>1, <1>3, <2>1, <3>1, GotoEffect DEF StepLeft, Pc
  <2>11. CASE Start(u) \/ Acquire(u)
    <3>1. CASE Become(u, [Idle("none") EXCEPT !.pc = "acquire"])
        BY <1>1, <3>1, BecomeEffect DEF Idle, StepLeft
    <3>2. CASE Become(u, [wk[u] EXCEPT !.pc = "own", !.lease = FreshId])
      <4>1. wk'[u] = [wk[u] EXCEPT !.pc = "own", !.lease = FreshId]
          BY <1>1, <3>2, BecomeEffect
      <4>2. wk'[u].pc = "own"
          BY <1>1, <4>1 DEF Local
      <4> QED
          BY <4>2 DEF StepLeft
    <3> QED
        BY <1>3, <2>11, <3>1, <3>2 DEF Start, Acquire
  <2> QED
      BY <1>4, <2>3, <2>4, <2>5, <2>6, <2>7, <2>8, <2>9, <2>10, <2>11
         DEF WorkerStep
<1>5. wk'[u] = wk[u] \/ Start(u) \/ WorkerStep(u) \/ Crash(u)
    BY OthersKept
<1> QED
    BY <1>2, <1>4, <1>5

\* No variable ever leaves its type, and no execute accepts more than max_steps
\* steps, however the runs, crashes and takeovers interleave.
THEOREM TypeCorrect == Spec => []TypeOK
<1>1. Init => TypeOK /\ StepsLeft
    BY InitTypeOK, InitStepsLeft
<1>2. TypeOK /\ StepsLeft /\ [Next]_vars => (TypeOK /\ StepsLeft)'
    BY NextTypeOK, NextStepsLeft
<1> QED
    BY <1>1, <1>2, PTL DEF Spec

-----------------------------------------------------------------------------
(* Part 2: safety.                                                         *)
-----------------------------------------------------------------------------
(* The inductive invariant.                                                *)

\* What worker-local state guarantees about the row.
Fenced(local, row) ==
    /\ local.version <= row.version
    /\ local.pc \notin {"idle", "acquire"} => local.lease # NoId
    /\ local.pc = "append" =>
          /\ local.cand # local.state
          /\ local.version = row.version => row.cancel = NoId /\ row.state = local.state
    /\ local.pc = "cancel" =>
          /\ local.request # NoId
          /\ local.request = row.cancel
          /\ local.version = row.version => row.state = local.state

AllFenced == \A w \in Worker : Fenced(wk[w], run)

RequestRecorded ==
    \A i \in 1..Len(events) :
        events[i].type = "cancellation_requested" => run.cancel # NoId

TerminalLast ==
    \A i \in 1..Len(events) :
        IsTerminalEvent(events[i]) => i = Len(events) /\ IsTerminal(run.status)

LastStateStored ==
    (\E i \in 1..Len(events) : IsStateEvent(events[i]))
        => IsReplayResult(events, run.state)

StatesProgress ==
    \A i, j \in 1..Len(events) :
        NextState(events, i, j) => Progress(events[i].state, events[j].state)

Inv ==
    /\ TypeOK
    /\ StepsLeft
    /\ AllFenced
    /\ Numbered
    /\ StateMatchesStatus
    /\ RequestRecorded
    /\ CancellationPrecedence
    /\ TerminalLast
    /\ LastStateStored
    /\ StatesProgress

-----------------------------------------------------------------------------
(* Every step has one of the shapes of DurableRunProofs; a worker appends  *)
(* only what changes the state, and nothing once the user has cancelled.   *)

Accepted(e) == Transition(e) /\ run'.state # run.state /\ run.cancel = NoId

JournalStep ==
    \/ Quiet
    \/ \E e : Inserted(e) /\ (Housekeeping(e) \/ Accepted(e) \/ Concluded(e))

\* A finished run is leased to nobody.
LEMMA StatusMeansOpen == StateMatchesStatus => LeaseMeansOpen
BY DEF StateMatchesStatus, LeaseMeansOpen

\* The identifier of a call is the next version of the row.
LEMMA FreshIdIsNext == run \in RunRow => FreshId = run.version + 1
BY DEF FreshId

LEMMA JournalStepIsRepoStep == JournalStep => RepoStep
BY DEF JournalStep, RepoStep, Accepted

\* Every step of the system has one of the shapes, once workers are fenced.
LEMMA StepShape ==
    ASSUME TypeOK, AllFenced, StateMatchesStatus, [Next]_vars
    PROVE  JournalStep
<1> USE DEF repoVars
<1>1. /\ run \in RunRow /\ wk \in [Worker -> Local]
      /\ \A w \in Worker : Skew[w] \in Nat
      /\ LeaseMeansOpen /\ FreshId = run.version + 1
    BY RunExecutionAssumption, StatusMeansOpen, FreshIdIsNext DEF TypeOK, RepoTypeOK
<1>2. CASE UNCHANGED repoVars
    BY <1>2 DEF JournalStep, Quiet
<1>3. CASE UserCancel
    BY <1>1, <1>3, RequestShape DEF UserCancel, JournalStep
<1>4. CASE Expire
  <2>1. Quiet
      BY <1>1, <1>4 DEF Expire, Tick, RunRow, Quiet
  <2> QED
      BY <2>1 DEF JournalStep
<1>5. ASSUME NEW w \in Worker, Acquire(w) PROVE JournalStep
    BY <1>1, <1>2, <1>5, AcquireShape DEF Acquire, JournalStep
<1>6. ASSUME NEW w \in Worker, Renew(w) PROVE JournalStep
  <2>1. wk[w].lease # NoId
      BY <1>6 DEF Renew, AllFenced, Fenced
  <2>2. CASE RenewLease(wk[w].lease, FreshId, wk[w].version, Skew[w])
      BY <1>1, <2>1, <2>2, RenewShape DEF JournalStep
  <2> QED
      BY <1>2, <1>6, <2>2 DEF Renew
<1>7. ASSUME NEW w \in Worker, AppendState(w) PROVE JournalStep
  <2>1. CASE AppendStateTransition(wk[w].lease, FreshId, wk[w].version, Skew[w],
                                   wk[w].cand)
    <3>1. run.version = wk[w].version
        BY <2>1 DEF AppendStateTransition, RequireVersion
    <3>2. /\ wk[w].lease # NoId /\ run.cancel = NoId
          /\ wk[w].cand # run.state
        BY <1>7, <3>1 DEF AppendState, AllFenced, Fenced
    <3>3. wk[w].cand \in State
        BY <1>1 DEF Local
    <3> QED
      <4>1. run'.state = wk[w].cand
          BY <1>1, <2>1 DEF AppendStateTransition, Bumped, RunRow
      <4>2. \E e : Inserted(e) /\ Transition(e)
          BY <1>1, <2>1, <3>2, <3>3, AppendShape
      <4> QED
          BY <3>2, <4>1, <4>2 DEF JournalStep, Accepted
  <2> QED
      BY <1>2, <1>7, <2>1 DEF AppendState
<1>8. ASSUME NEW w \in Worker, ApplyCancel(w) PROVE JournalStep
  <2>1. CASE ApplyCancellation(wk[w].lease, wk[w].request, FreshId,
                               wk[w].version, Skew[w], wk[w].state)
    <3>1. run.version = wk[w].version
        BY <2>1 DEF ApplyCancellation, RequireVersion
    <3>2. /\ wk[w].lease # NoId /\ wk[w].request # NoId
          /\ wk[w].state = run.state
        BY <1>8, <3>1 DEF ApplyCancel, AllFenced, Fenced
    <3>3. wk[w].state \in State
        BY <1>1 DEF Local
    <3> QED
        BY <1>1, <2>1, <3>2, <3>3, ApplyShape DEF JournalStep
  <2> QED
      BY <1>2, <1>8, <2>1 DEF ApplyCancel
<1>9. ASSUME NEW w \in Worker,
             \/ Start(w) \/ Own(w) \/ Renewed(w) \/ Drive(w) \/ Driven(w)
             \/ Reload(w) \/ Resolve(w) \/ Cancelled(w) \/ Crash(w)
      PROVE  UNCHANGED repoVars
    BY <1>9 DEF Start, Own, Renewed, Drive, Driven, Reload, Resolve, Cancelled,
                Crash
<1>10. CASE UNCHANGED vars
    BY <1>2, <1>10 DEF vars
<1> QED
    BY <1>2, <1>3, <1>4, <1>5, <1>6, <1>7, <1>8, <1>9, <1>10
       DEF Next, WorkerStep

-----------------------------------------------------------------------------
(* The shapes preserve what is said of the row and the journal.            *)

LEMMA StatusKept ==
    ASSUME TypeOK, StateMatchesStatus, JournalStep
    PROVE  StateMatchesStatus'
<1>1. CASE Quiet
    BY <1>1 DEF Quiet, StateMatchesStatus
<1>2. ASSUME NEW e, Inserted(e), Housekeeping(e) \/ Concluded(e)
      PROVE  StateMatchesStatus'
  <2>1. run'.state.terminal = NoTerminal
      BY <1>2 DEF Inserted, Housekeeping, Concluded, StateMatchesStatus
  <2> QED
      BY <1>2, <2>1 DEF Inserted, StateMatchesStatus
<1>3. ASSUME NEW e, Inserted(e), Accepted(e) PROVE StateMatchesStatus'
    BY <1>3, StatusOfState DEF Inserted, Accepted, Transition, StateMatchesStatus
<1> QED
    BY <1>1, <1>2, <1>3 DEF JournalStep

LEMMA RequestRecordedKept ==
    ASSUME TypeOK, RequestRecorded, JournalStep
    PROVE  RequestRecorded'
<1>1. CASE Quiet
    BY <1>1 DEF Quiet, RequestRecorded
<1>2. ASSUME NEW e, Inserted(e), Housekeeping(e) \/ Accepted(e) \/ Concluded(e)
      PROVE  RequestRecorded'
  <2>1. events \in Seq(Event) /\ events' = Append(events, e)
      BY <1>2 DEF TypeOK, RepoTypeOK, Inserted
  <2>2. run.cancel # NoId => run'.cancel # NoId
      BY <1>2 DEF Housekeeping, Accepted, Transition, Concluded
  <2>3. e.type = "cancellation_requested" => run'.cancel # NoId
      BY <1>2 DEF Housekeeping, Accepted, Transition, Concluded
  <2> QED
      BY <2>1, <2>2, <2>3, Appended DEF RequestRecorded
<1> QED
    BY <1>1, <1>2 DEF JournalStep

LEMMA PrecedenceKept ==
    ASSUME TypeOK, RequestRecorded, CancellationPrecedence, JournalStep
    PROVE  CancellationPrecedence'
<1>1. CASE Quiet
    BY <1>1 DEF Quiet, CancellationPrecedence
<1>2. ASSUME NEW e, Inserted(e), Housekeeping(e) \/ Accepted(e) \/ Concluded(e)
      PROVE  CancellationPrecedence'
  <2>1. events \in Seq(Event) /\ events' = Append(events, e)
      BY <1>2 DEF TypeOK, RepoTypeOK, Inserted
  <2>2. (\E i \in 1..Len(events) : events[i].type = "cancellation_requested")
            => e.type # "state_transition"
      BY <1>2 DEF RequestRecorded, Housekeeping, Accepted, Transition, Concluded
  <2> SUFFICES ASSUME NEW i \in 1..Len(events'), NEW j \in 1..Len(events'), i < j,
                      events'[i].type = "cancellation_requested"
               PROVE  events'[j].type # "state_transition"
      BY DEF CancellationPrecedence
  <2>3. i \in 1..Len(events)
      BY <2>1, Appended
  <2> QED
      BY <2>1, <2>2, <2>3, Appended DEF CancellationPrecedence
<1> QED
    BY <1>1, <1>2 DEF JournalStep

LEMMA TerminalLastKept ==
    ASSUME TypeOK, TerminalLast, JournalStep
    PROVE  TerminalLast'
<1> USE DEF IsTerminalEvent, IsStateEvent
<1>1. CASE Quiet
    BY <1>1 DEF Quiet, TerminalLast
<1>2. ASSUME NEW e, Inserted(e), Housekeeping(e) \/ Accepted(e) \/ Concluded(e)
      PROVE  TerminalLast'
  <2>1. events \in Seq(Event) /\ events' = Append(events, e)
      BY <1>2 DEF TypeOK, RepoTypeOK, Inserted
  <2>2. \A i \in 1..Len(events) : ~IsTerminalEvent(events[i])
      BY <1>2 DEF TerminalLast, Inserted
  <2>3. IsTerminalEvent(e) => IsTerminal(run'.status)
    <3>1. CASE Housekeeping(e)
        BY <3>1 DEF Housekeeping
    <3>2. CASE Accepted(e)
      <4>1. "running" \notin TerminalEventStatus
          BY DEF TerminalEventStatus, TerminalStatus, RunTerminalState
      <4> QED
          BY <3>2, <4>1, StatusOfState DEF Accepted, Transition
    <3>3. CASE Concluded(e)
        BY <3>3 DEF Concluded, CancelledStatus, IsTerminal, TerminalStatus
    <3> QED
        BY <1>2, <3>1, <3>2, <3>3
  <2> QED
      BY <2>1, <2>2, <2>3, Appended DEF TerminalLast
<1> QED
    BY <1>1, <1>2 DEF JournalStep

\* The last state in the journal stays the state of the row.
LEMMA LastStateKept ==
    ASSUME TypeOK, LastStateStored, JournalStep
    PROVE  LastStateStored'
<1> USE DEF IsStateEvent
<1>1. CASE Quiet
    BY <1>1 DEF Quiet, LastStateStored, IsReplayResult
<1>2. ASSUME NEW e, Inserted(e) PROVE events \in Seq(Event) /\ events' = Append(events, e)
    BY <1>2 DEF TypeOK, RepoTypeOK, Inserted
<1>3. ASSUME NEW e, Inserted(e), Housekeeping(e) PROVE LastStateStored'
  <2> SUFFICES ASSUME NEW i \in 1..Len(events'), IsStateEvent(events'[i])
               PROVE  IsReplayResult(events', run'.state)
      BY DEF LastStateStored
  <2>1. e.state = NoState /\ run'.state = run.state
      BY <1>3 DEF Housekeeping
  <2>2. i \in 1..Len(events) /\ IsStateEvent(events[i])
      BY <1>2, <1>3, <2>1, Appended
  <2>3. PICK k \in 1..Len(events) :
            /\ IsStateEvent(events[k])
            /\ \A m \in (k + 1)..Len(events) : ~IsStateEvent(events[m])
            /\ run.state = events[k].state
      BY <2>2 DEF LastStateStored, IsReplayResult
  <2>4. k \in 1..Len(events') /\ events'[k] = events[k]
      BY <1>2, <1>3, Appended
  <2>5. ASSUME NEW m \in (k + 1)..Len(events') PROVE ~IsStateEvent(events'[m])
      BY <1>2, <1>3, <2>1, <2>3, <2>5, Appended
  <2> QED
      BY <2>1, <2>3, <2>4, <2>5 DEF IsReplayResult
<1>4. ASSUME NEW e, Inserted(e), Accepted(e) \/ Concluded(e) PROVE LastStateStored'
  <2>1. e.state = run'.state /\ run'.state \in State
      BY <1>4 DEF Accepted, Transition, Concluded, TypeOK, RepoTypeOK, RunRow
  <2>2. IsStateEvent(e)
      BY <2>1, StateIsNotNoState
  <2>3. /\ Len(events') \in 1..Len(events') /\ events'[Len(events')] = e
        /\ \A m \in (Len(events') + 1)..Len(events') : ~IsStateEvent(events'[m])
      BY <1>2, <1>4, Appended
  <2> QED
      BY <2>1, <2>2, <2>3 DEF LastStateStored, IsReplayResult
<1> QED
    BY <1>1, <1>3, <1>4 DEF JournalStep

\* The state that follows the last one in the journal is a progress from it.
LEMMA StatesProgressKept ==
    ASSUME TypeOK, LastStateStored, StatesProgress, JournalStep
    PROVE  StatesProgress'
<1>1. CASE Quiet
    BY <1>1 DEF Quiet, StatesProgress, NextState
<1>2. ASSUME NEW e, Inserted(e), Housekeeping(e) \/ Accepted(e) \/ Concluded(e)
      PROVE  StatesProgress'
  <2>1. events \in Seq(Event) /\ events' = Append(events, e)
      BY <1>2 DEF TypeOK, RepoTypeOK, Inserted
  <2> SUFFICES ASSUME NEW i \in 1..Len(events'), NEW j \in 1..Len(events'),
                      NextState(events', i, j)
               PROVE  Progress(events'[i].state, events'[j].state)
      BY DEF StatesProgress
  <2>2. /\ i < j /\ IsStateEvent(events'[i]) /\ IsStateEvent(events'[j])
        /\ \A k \in (i + 1)..(j - 1) : ~IsStateEvent(events'[k])
      BY DEF NextState
  <2>3. i \in 1..Len(events) /\ events'[i] = events[i]
      BY <2>1, <2>2, Appended
  <2>4. CASE j \in 1..Len(events)
    <3>1. events'[j] = events[j]
        BY <2>1, <2>4, Appended
    <3>2. \A k \in (i + 1)..(j - 1) : events'[k] = events[k]
        BY <2>1, <2>3, <2>4, Appended
    <3>3. NextState(events, i, j)
        BY <2>2, <2>3, <3>1, <3>2 DEF NextState
    <3> QED
        BY <2>3, <2>4, <3>1, <3>3 DEF StatesProgress
  <2>5. CASE j = Len(events) + 1
    <3>1. events'[j] = e
        BY <2>1, <2>5, Appended
    <3>2. PICK k \in 1..Len(events) :
              /\ IsStateEvent(events[k])
              /\ \A m \in (k + 1)..Len(events) : ~IsStateEvent(events[m])
              /\ run.state = events[k].state
        BY <2>2, <2>3 DEF LastStateStored, IsReplayResult
    <3>3. i = k
      <4>1. ~(i < k)
        <5> SUFFICES ASSUME i < k PROVE FALSE
            OBVIOUS
        <5>1. k \in (i + 1)..(j - 1) /\ events'[k] = events[k]
            BY <2>1, <2>5, Appended
        <5> QED
            BY <2>2, <3>2, <5>1
      <4>2. ~(k < i)
          BY <2>2, <2>3, <3>2, <2>1, Appended
      <4> QED
          BY <4>1, <4>2, <2>3
    <3>4. run.state \in State
        BY DEF TypeOK, RepoTypeOK, RunRow
    <3>5. Progress(run.state, e.state)
      <4>1. CASE Housekeeping(e)
          BY <2>2, <3>1, <4>1 DEF Housekeeping, IsStateEvent
      <4>2. CASE Accepted(e)
          BY <4>2 DEF Accepted, Transition
      <4>3. CASE Concluded(e)
          BY <3>4, <4>3, ProgressReflexive DEF Concluded
      <4> QED
          BY <1>2, <4>1, <4>2, <4>3
    <3> QED
        BY <2>3, <3>1, <3>2, <3>3, <3>5
  <2> QED
      BY <2>1, <2>4, <2>5, Appended
<1> QED
    BY <1>1, <1>2 DEF JournalStep

-----------------------------------------------------------------------------
(* Workers stay fenced.                                                    *)

\* A worker that does not act stays fenced, whatever happens to the row.
LEMMA OtherFenced ==
    ASSUME TypeOK, JournalStep, NEW local \in Local, Fenced(local, run)
    PROVE  Fenced(local, run')
<1>1. local.version \in Nat /\ run.version \in Nat
    BY DEF TypeOK, RepoTypeOK, RunRow, Local
<1>2. CASE Quiet
    BY <1>2 DEF Quiet, Fenced
<1>3. ASSUME NEW e, Inserted(e), Housekeeping(e) \/ Accepted(e) \/ Concluded(e)
      PROVE  Fenced(local, run')
  <2>1. run'.version = run.version + 1 /\ local.version < run'.version
      BY <1>1, <1>3 DEF Inserted, Fenced
  <2>2. run.cancel # NoId => run'.cancel = run.cancel
      BY <1>3 DEF Housekeeping, Accepted, Transition, Concluded
  <2> QED
      BY <1>1, <2>1, <2>2 DEF Fenced
<1> QED
    BY <1>2, <1>3 DEF JournalStep

\* One that only loses its way, or that ends, is fenced trivially.
LEMMA ExitFenced ==
    ASSUME wk \in [Worker -> Local], NEW w \in Worker, NEW outcome,
           run'.version \in Nat, Exit(w, outcome)
    PROVE  Fenced(wk'[w], run')
<1>1. wk'[w] = Idle(outcome)
    BY ExitEffect
<1> QED
    BY <1>1 DEF Idle, Fenced

\* At the head of the loop, a snapshot just loaded is the row.
LEMMA LoopHeadFenced ==
    ASSUME TypeOK, UNCHANGED run, NEW w \in Worker, NEW local \in Local,
           local.version = run.version, local.state = run.state,
           local.request = run.cancel, local.lease # NoId,
           LoopHead(w, local)
    PROVE  Fenced(wk'[w], run')
<1>1. run.version \in Nat /\ wk \in [Worker -> Local]
    BY DEF TypeOK, RepoTypeOK, RunRow
<1>2. CASE \E outcome : Exit(w, outcome)
    BY <1>1, <1>2, ExitFenced
<1>3. CASE \/ local.request # NoId /\ Goto(w, local, "cancel")
           \/ Goto(w, local, "renew")
           \/ Goto(w, local, "drive")
    BY <1>1, <1>3, GotoEffect DEF Fenced, Pc
<1> QED
    BY <1>2, <1>3 DEF LoopHead

\* The worker that acts.
LEMMA ActorFenced ==
    ASSUME TypeOK, TypeOK', StepsLeft, AllFenced, JournalStep,
           NEW w \in Worker,
           Start(w) \/ WorkerStep(w) \/ Crash(w)
    PROVE  Fenced(wk'[w], run')
<1> USE DEF repoVars
<1>1. /\ wk \in [Worker -> Local] /\ wk[w] \in Local /\ Fenced(wk[w], run)
      /\ wk'[w] \in Local
      /\ run.version \in Nat /\ run'.version \in Nat /\ wk[w].version \in Nat
      /\ run.version <= run'.version
  <2>1. run.version \in Nat /\ run'.version \in Nat
      BY DEF TypeOK, RepoTypeOK, RunRow
  <2>2. run.version <= run'.version
      BY <2>1 DEF JournalStep, Quiet, Inserted
  <2> QED
      BY <2>1, <2>2 DEF TypeOK, AllFenced, Local
<1>2. WithSnapshot(wk[w]) \in Local
    BY <1>1, SnapshotType DEF TypeOK
<1>3. ASSUME NEW outcome, Exit(w, outcome) PROVE Fenced(wk'[w], run')
    BY <1>1, <1>3, ExitFenced
<1>4. ASSUME NEW pc \in {"renewed", "reload", "resolve", "cancelled"},
             Goto(w, wk[w], pc), wk[w].pc \notin {"idle", "acquire"}
      PROVE  Fenced(wk'[w], run')
  <2>1. wk'[w].pc = pc /\ wk'[w].version = wk[w].version /\ wk'[w].lease = wk[w].lease
      BY <1>1, <1>4, GotoEffect DEF Pc
  <2>2. wk[w].version <= run'.version
      BY <1>1 DEF Fenced
  <2> QED
      BY <1>1, <1>4, <2>1, <2>2 DEF Fenced
<1>5. CASE Start(w)
  <2>1. CASE Become(w, [Idle("none") EXCEPT !.pc = "acquire"])
      BY <1>1, <2>1, BecomeEffect DEF Idle, Fenced
  <2> QED
      BY <1>3, <1>5, <2>1 DEF Start
<1>6. CASE Acquire(w)
  <2>1. CASE Become(w, [wk[w] EXCEPT !.pc = "own", !.lease = FreshId])
            /\ AcquireLease(FreshId, FreshId, Skew[w])
    <3>1. run'.version = run.version + 1
        BY <2>1 DEF AcquireLease, Bumped, TypeOK, RepoTypeOK, RunRow
    <3>2. wk'[w] = [wk[w] EXCEPT !.pc = "own", !.lease = FreshId]
        BY <1>1, <2>1, BecomeEffect
    <3>3. wk'[w].pc = "own" /\ wk'[w].lease = FreshId /\ wk'[w].version = wk[w].version
        BY <1>1, <3>2 DEF Local
    <3>4. FreshId # NoId
        BY <1>1 DEF FreshId, NoId
    <3> QED
        BY <1>1, <3>1, <3>3, <3>4 DEF Fenced, Local
  <2> QED
      BY <1>3, <1>6, <2>1 DEF Acquire
<1>7. CASE Own(w)
  <2> DEFINE local == WithSnapshot(wk[w])
  <2>1. CASE Exit(w, "stale")
      BY <1>3, <2>1
  <2>2. CASE /\ local.request = NoId /\ HasActive(local.state)
             /\ Become(w, [local EXCEPT !.pc = "append", !.fresh = TRUE,
                                        !.cand = Recovered(local.state)])
    <3>1. wk'[w] = [local EXCEPT !.pc = "append", !.fresh = TRUE,
                                 !.cand = Recovered(local.state)]
        BY <1>1, <2>2, BecomeEffect
    <3>2. /\ wk'[w].pc = "append" /\ wk'[w].cand = Recovered(local.state)
          /\ wk'[w].state = local.state /\ wk'[w].version = local.version
          /\ wk'[w].lease = local.lease
        BY <1>2, <3>1 DEF Local
    <3>3. local.state \in State
        BY <1>2 DEF Local
    <3>4. Recovered(local.state) # local.state
        BY <2>2, <3>3, RecoveredValid
    <3>5. local.version = run.version /\ local.state = run.state
          /\ local.request = run.cancel /\ local.lease = wk[w].lease
        BY <1>1, SnapshotEffect
    <3> QED
        BY <1>1, <1>7, <2>2, <3>2, <3>4, <3>5 DEF Own, Fenced
  <2>3. CASE LoopHead(w, local)
    <3>1. local.version = run.version /\ local.state = run.state
          /\ local.request = run.cancel /\ local.lease = wk[w].lease
        BY <1>1, SnapshotEffect
    <3>2. UNCHANGED run /\ wk[w].lease # NoId
        BY <1>1, <1>7 DEF Own, Fenced
    <3> HIDE DEF local
    <3> QED
        BY <1>2, <2>3, <3>1, <3>2, LoopHeadFenced DEF local
  <2> QED
      BY <1>7, <2>1, <2>2, <2>3 DEF Own
<1>8. CASE Renew(w)
    BY <1>4, <1>8 DEF Renew
<1>9. CASE Renewed(w)
  <2>1. CASE Goto(w, WithSnapshot(wk[w]), "drive")
      BY <1>1, <1>2, <1>9, <2>1, GotoEffect, SnapshotEffect DEF Renewed, Fenced, Pc
  <2> QED
      BY <1>1, <1>4, <1>9, <2>1 DEF Renewed
<1>10. CASE Drive(w)
  <2>1. ASSUME NEW s \in State,
               Become(w, [wk[w] EXCEPT !.pc = "driven", !.cand = s])
        PROVE  Fenced(wk'[w], run')
    <3>1. wk'[w] = [wk[w] EXCEPT !.pc = "driven", !.cand = s]
        BY <1>1, <2>1, BecomeEffect
    <3>2. wk'[w].pc = "driven" /\ wk'[w].lease = wk[w].lease
          /\ wk'[w].version = wk[w].version
        BY <1>1, <3>1 DEF Local
    <3> QED
        BY <1>1, <1>10, <3>2 DEF Drive, Fenced
  <2> QED
      BY <1>3, <1>10, <2>1 DEF Drive
<1>11. CASE Driven(w)
  <2> DEFINE local == WithSnapshot(wk[w])
  <2>1. local.version = run.version /\ local.state = run.state
        /\ local.request = run.cancel /\ local.lease = wk[w].lease
        /\ local.cand = wk[w].cand
      BY <1>1, SnapshotEffect
  <2>2. CASE local.request # NoId /\ Goto(w, local, "cancel")
      BY <1>1, <1>2, <1>11, <2>1, <2>2, GotoEffect DEF Driven, Fenced, Pc
  <2>3. CASE /\ local.request = NoId /\ local.state = wk[w].state
             /\ wk[w].cand # wk[w].state
             /\ Become(w, [local EXCEPT !.pc = "append", !.fresh = FALSE])
    <3>1. wk'[w] = [local EXCEPT !.pc = "append", !.fresh = FALSE]
        BY <1>1, <2>3, BecomeEffect
    <3>2. /\ wk'[w].pc = "append" /\ wk'[w].cand = local.cand
          /\ wk'[w].state = local.state /\ wk'[w].version = local.version
          /\ wk'[w].lease = local.lease
        BY <1>2, <3>1 DEF Local
    <3> QED
        BY <1>1, <1>11, <2>1, <2>3, <3>2 DEF Driven, Fenced
  <2> QED
      BY <1>1, <1>3, <1>4, <1>11, <2>2, <2>3 DEF Driven
<1>12. CASE AppendState(w)
    BY <1>4, <1>12 DEF AppendState
<1>13. CASE Reload(w)
  <2> DEFINE steps == IF wk[w].fresh THEN wk[w].steps ELSE wk[w].steps + 1
             local == [WithSnapshot(wk[w]) EXCEPT !.steps = steps, !.fresh = FALSE]
  <2>1. local.version = run.version /\ local.state = run.state
        /\ local.request = run.cancel /\ local.lease = wk[w].lease
      BY <1>1, <1>2, SnapshotEffect DEF Local
  <2>2. UNCHANGED run /\ wk[w].lease # NoId /\ LoopHead(w, local)
      BY <1>1, <1>13 DEF Reload, Fenced
  <2>3. steps \in 0..MaxSteps
      BY <1>1, <1>13, RunExecutionAssumption
         DEF Reload, StepsLeft, StepLeft, Local
  <2>4. local \in Local
      BY <1>2, <2>3 DEF Local
  <2> HIDE DEF local
  <2> QED
      BY <2>1, <2>2, <2>4, LoopHeadFenced
<1>14. CASE Resolve(w)
  <2>1. CASE run.cancel # NoId /\ Goto(w, WithSnapshot(wk[w]), "cancel")
      BY <1>1, <1>2, <1>14, <2>1, GotoEffect, SnapshotEffect DEF Resolve, Fenced, Pc
  <2> QED
      BY <1>3, <1>14, <2>1 DEF Resolve
<1>15. CASE ApplyCancel(w)
    BY <1>3, <1>4, <1>15 DEF ApplyCancel
<1>16. CASE Cancelled(w) \/ Crash(w)
    BY <1>3, <1>16 DEF Cancelled, Crash
<1> QED
    BY <1>5, <1>6, <1>7, <1>8, <1>9, <1>10, <1>11, <1>12, <1>13, <1>14, <1>15,
       <1>16 DEF WorkerStep

LEMMA FencedKept ==
    ASSUME TypeOK, TypeOK', StepsLeft, AllFenced, JournalStep, [Next]_vars
    PROVE  AllFenced'
<1> SUFFICES ASSUME NEW u \in Worker PROVE Fenced(wk'[u], run')
    BY DEF AllFenced
<1>1. wk \in [Worker -> Local] /\ wk[u] \in Local /\ Fenced(wk[u], run)
    BY DEF TypeOK, AllFenced
<1>2. CASE wk'[u] = wk[u]
    BY <1>1, <1>2, OtherFenced
<1>3. CASE Start(u) \/ WorkerStep(u) \/ Crash(u)
    BY <1>3, ActorFenced
<1>4. wk'[u] = wk[u] \/ Start(u) \/ WorkerStep(u) \/ Crash(u)
    BY OthersKept
<1> QED
    BY <1>2, <1>3, <1>4

-----------------------------------------------------------------------------
(* The theorems.                                                           *)

LEMMA InitInv == Init => Inv
<1> SUFFICES ASSUME Init PROVE Inv
    OBVIOUS
<1>1. TypeOK /\ StepsLeft
    BY InitTypeOK, InitStepsLeft
<1>2. events = <<>> /\ Len(events) = 0 /\ run.version = 0 /\ run.next = 0
    BY DEF Init, RepoInit
<1>3. AllFenced
    BY <1>2 DEF Init, RepoInit, AllFenced, Fenced, Idle
<1>4. StateMatchesStatus
    BY DEF Init, RepoInit, StateMatchesStatus, InitialState, IsTerminal,
           TerminalStatus
<1>5. /\ Numbered /\ RequestRecorded /\ CancellationPrecedence /\ TerminalLast
      /\ LastStateStored /\ StatesProgress
    BY <1>2 DEF Numbered, RequestRecorded, CancellationPrecedence, TerminalLast,
                LastStateStored, StatesProgress
<1> QED
    BY <1>1, <1>3, <1>4, <1>5 DEF Inv

LEMMA NextInv == Inv /\ [Next]_vars => Inv'
<1> SUFFICES ASSUME Inv, [Next]_vars PROVE Inv'
    OBVIOUS
<1>1. TypeOK' /\ StepsLeft'
    BY NextTypeOK, NextStepsLeft DEF Inv
<1>2. JournalStep
    BY StepShape DEF Inv
<1>3. AllFenced'
    BY <1>1, <1>2, FencedKept DEF Inv
<1>4. /\ Numbered' /\ StateMatchesStatus' /\ RequestRecorded'
      /\ CancellationPrecedence' /\ TerminalLast'
    BY <1>2, JournalStepIsRepoStep, NumberedKept, StatusKept, RequestRecordedKept,
       PrecedenceKept, TerminalLastKept DEF Inv, TypeOK, RepoTypeOK
<1>5. LastStateStored' /\ StatesProgress'
    BY <1>2, LastStateKept, StatesProgressKept DEF Inv
<1> QED
    BY <1>1, <1>3, <1>4, <1>5 DEF Inv

THEOREM InvariantHolds == Spec => []Inv
BY InitInv, NextInv, PTL DEF Spec

\* Once a cancellation request is in the journal, no state transition follows it:
\* no late driver result, of any worker, beats the cancellation.
THEOREM CancellationWins == Spec => []CancellationPrecedence
<1>1. Inv => CancellationPrecedence
    BY DEF Inv
<1> QED
    BY <1>1, InvariantHolds, PTL

\* The row never claims to be running over a finished orchestration, and a run
\* that is over holds no lease.
THEOREM StatusTruthful == Spec => []StateMatchesStatus
<1>1. Inv => StateMatchesStatus
    BY DEF Inv
<1> QED
    BY <1>1, InvariantHolds, PTL

\* replay_orchestration accepts every journal the workers can write, and gives
\* back exactly the state of the row.
THEOREM ReplayFaithful == Spec => []ReplayReconstructs
<1>1. Inv => ReplayReconstructs
  <2> SUFFICES ASSUME Inv PROVE ReplayReconstructs
      OBVIOUS
  <2>1. ContiguousBatch(events, 0)
      BY DEF Inv, Numbered, ContiguousBatch
  <2>2. \A i \in 1..Len(events) : IsTerminalEvent(events[i]) => i = Len(events)
      BY DEF Inv, TerminalLast
  <2> QED
      BY <2>1, <2>2
         DEF Inv, StatesProgress, LastStateStored, Replays, ReplayReconstructs
<1> QED
    BY <1>1, InvariantHolds, PTL

\* The abstract run has the operators of OrchestrationProgress, too.
LEMMA SameOperators ==
    /\ Lifecycle!NoTerminal = NoTerminal
    /\ Lifecycle!InitialState = InitialState
    /\ Lifecycle!State = State
    /\ \A s, t : Lifecycle!Progress(s, t) <=> Progress(s, t)
    /\ \A s : Lifecycle!DurableStatusForState(s) = DurableStatusForState(s)
    /\ \A s : Lifecycle!CancelledStatus(s) = CancelledStatus(s)
<1>1. Lifecycle!NoTerminal = NoTerminal
    BY DEF NoTerminal, Lifecycle!NoTerminal
<1>2. Lifecycle!InitialState = InitialState
    BY <1>1 DEF InitialState, Lifecycle!InitialState
<1>3. Lifecycle!NodeTerminal = NodeTerminal
    BY DEF NodeTerminal, Lifecycle!NodeTerminal
<1>4. Lifecycle!OrchestrationRecord = OrchestrationRecord
    BY <1>1, <1>3
       DEF OrchestrationRecord, NodeState, SectionState, RunTerminalState,
           Lifecycle!OrchestrationRecord, Lifecycle!NodeState,
           Lifecycle!SectionState, Lifecycle!RunTerminalState
<1>5. Lifecycle!State = State
    BY <1>1, <1>3, <1>4 DEF State, ValidState, Lifecycle!State, Lifecycle!ValidState
<1>6. \A s, t : Lifecycle!Progress(s, t) <=> Progress(s, t)
    BY <1>1, <1>3 DEF Progress, Lifecycle!Progress
<1>7. \A s : Lifecycle!DurableStatusForState(s) = DurableStatusForState(s)
    BY <1>1 DEF DurableStatusForState, Lifecycle!DurableStatusForState
<1>8. \A s : Lifecycle!CancelledStatus(s) = CancelledStatus(s)
    BY DEF CancelledStatus, PreservesSection, Lifecycle!CancelledStatus,
           Lifecycle!PreservesSection
<1> QED
    BY <1>1, <1>2, <1>5, <1>6, <1>7, <1>8

\* The shapes of the steps, read as steps of the abstract run.
LEMMA StepsRefine ==
    ASSUME TypeOK, StateMatchesStatus, JournalStep
    PROVE  [Lifecycle!Next]_<<run.state, run.cancel # NoId,
                              IF IsTerminal(run.status) THEN run.status ELSE "open">>
<1> DEFINE final == IF IsTerminal(run.status) THEN run.status ELSE "open"
           requested == run.cancel # NoId
<1>1. CASE Quiet
    BY <1>1 DEF Quiet
<1>2. ASSUME NEW e, Inserted(e), Housekeeping(e)
      PROVE  Lifecycle!Request \/ UNCHANGED <<run.state, requested, final>>
  <2>1. final = "open" /\ final' = "open" /\ run'.state = run.state
      BY <1>2 DEF Inserted, Housekeeping
  <2>2. CASE e.type = "cancellation_requested"
      BY <1>2, <2>1, <2>2 DEF Housekeeping, Lifecycle!Request
  <2>3. CASE e.type # "cancellation_requested"
      BY <1>2, <2>1, <2>3 DEF Housekeeping
  <2> QED
      BY <2>2, <2>3
<1>3. ASSUME NEW e, Inserted(e), Accepted(e) PROVE Lifecycle!Advance
  <2>1. final = "open" /\ ~requested /\ requested' = requested
      BY <1>3 DEF Inserted, Accepted, Transition
  <2>2. /\ run'.state \in State /\ run'.state # run.state
        /\ Progress(run.state, run'.state)
      BY <1>3 DEF Accepted, Transition
  <2>3. final' = IF run'.state.terminal = NoTerminal THEN "open"
                 ELSE DurableStatusForState(run'.state)
    <3>1. ~IsTerminal("running")
        BY DEF IsTerminal, TerminalStatus
    <3> QED
        BY <1>3, <2>2, <3>1, StatusOfState DEF Accepted, Transition
  <2> QED
      BY <2>1, <2>2, <2>3, SameOperators DEF Lifecycle!Advance
<1>4. ASSUME NEW e, Inserted(e), Concluded(e) PROVE Lifecycle!Settle
  <2>1. IsTerminal(CancelledStatus(run.state))
      BY DEF CancelledStatus, IsTerminal, TerminalStatus
  <2> QED
      BY <1>4, <2>1, SameOperators DEF Inserted, Concluded, Lifecycle!Settle
<1> QED
    BY <1>1, <1>2, <1>3, <1>4 DEF JournalStep, Lifecycle!Next

\* Whatever workers, crashes, clocks and users do, the run is the sequential
\* process of RunLifecycle.
THEOREM RunIsSequential == Spec => ImplementsLifecycle
<1>1. Init => Lifecycle!Init
    BY SameOperators DEF Init, RepoInit, Lifecycle!Init, IsTerminal, TerminalStatus
<1>2. Inv /\ [Next]_vars
        => [Lifecycle!Next]_<<run.state, run.cancel # NoId,
                              IF IsTerminal(run.status) THEN run.status ELSE "open">>
    BY StepShape, StepsRefine DEF Inv
<1> QED
    BY <1>1, <1>2, InvariantHolds, PTL DEF Spec, ImplementsLifecycle, Lifecycle!Spec

-----------------------------------------------------------------------------
(* Part 3: custody.                                                        *)
-----------------------------------------------------------------------------
(* The strengthening of Inv.                                               *)

\* What worker-local state guarantees while the row names the worker's lease.
Custody(local, row) ==
    /\ local.lease <= row.version
    /\ local.pc \in {"idle", "acquire"} => local.lease = NoId
    /\ local.pc # "idle" => local.outcome = "none"
    /\ local.pc \in {"renew", "renewed"} => local.steps > 0
    /\ local.pc = "append" /\ local.fresh => ~HasActive(local.cand)
    /\ row.lease = local.lease =>
          /\ local.pc = "cancel" => local.version = row.version
          /\ local.pc = "reload" /\ local.fresh => ~HasActive(row.state)
          /\ local.pc = "drive" /\ local.steps = 0
                => ~HasActive(local.state) /\ local.state = row.state

AllCustody == \A w \in Worker : Custody(wk[w], run)

\* Two workers never hold the same lease.
LeasesApart ==
    \A v, w \in Worker :
        wk[v].lease = wk[w].lease /\ wk[v].lease # NoId => v = w

NoLeaseNoTime == run.lease = NoId => run.left = 0

\* A run that is over although its cancellation was requested ended with it.
CancelMeansApplied ==
    run.cancel # NoId /\ IsTerminal(run.status)
        => events[Len(events)].type = "cancellation_applied"

CustodyInv ==
    /\ AllCustody
    /\ LeasesApart
    /\ NoLeaseNoTime
    /\ CancelMeansApplied
    /\ CancelledIsApplied

-----------------------------------------------------------------------------
(* The row.                                                                *)

LEMMA NoActiveRecovered ==
    ASSUME NEW s \in State
    PROVE  ~HasActive(Recovered(s))
<1>1. s.node \in [Node -> NodeState] /\ s \in OrchestrationRecord
    BY DEF State, OrchestrationRecord
<1>2. Recovered(s).node = [n \in Node |-> IF s.node[n] = "active"
                                          THEN "unavailable" ELSE s.node[n]]
    BY <1>1 DEF Recovered, OrchestrationRecord
<1> QED
    BY <1>2 DEF HasActive

\* How each operation of the repository changes the lease and its time.
LEMMA LeaseEffect ==
    ASSUME run \in RunRow
    PROVE  /\ \A skew : AcquireLease(FreshId, FreshId, skew)
                 => run'.lease = FreshId /\ run'.version = run.version + 1
           /\ \A lease, expected, skew :
                 RenewLease(lease, FreshId, expected, skew)
                 => run.lease = lease /\ run'.lease = lease
           /\ \A lease, expected, skew : \A s :
                 AppendStateTransition(lease, FreshId, expected, skew, s)
                 => /\ run.lease = lease
                    /\ \/ run'.lease = run.lease /\ run'.left = run.left
                       \/ run'.lease = NoId /\ run'.left = 0
                    /\ run'.state = s
           /\ \A lease, request, expected, skew : \A s :
                 ApplyCancellation(lease, request, FreshId, expected, skew, s)
                 => run.lease = lease /\ run'.lease = NoId /\ run'.left = 0
           /\ RequestCancellation(FreshId)
                 => /\ run.cancel = NoId
                    /\ run'.lease = run.lease /\ run'.left = run.left
                    /\ run'.state = run.state
           /\ Tick => /\ run.left > 0 /\ run'.lease = run.lease
                      /\ run'.state = run.state /\ run'.version = run.version
BY DEF AcquireLease, RenewLease, AppendStateTransition, ApplyCancellation,
       RequestCancellation, Tick, RequireLease, Bumped, RunRow

LEMMA NoLeaseNoTimeKept ==
    ASSUME TypeOK, AllFenced, NoLeaseNoTime, [Next]_vars
    PROVE  NoLeaseNoTime'
<1>1. run \in RunRow /\ run.version \in Nat
    BY DEF TypeOK, RepoTypeOK, RunRow
<1>2. CASE UNCHANGED run
    BY <1>2 DEF NoLeaseNoTime
<1>3. CASE UserCancel
    BY <1>1, <1>3, LeaseEffect DEF UserCancel, NoLeaseNoTime
<1>4. CASE Expire
  <2>1. run.left > 0 /\ run'.lease = run.lease
      BY <1>1, <1>4, LeaseEffect DEF Expire
  <2> QED
      BY <2>1 DEF NoLeaseNoTime
<1>5. ASSUME NEW w \in Worker, Acquire(w) PROVE NoLeaseNoTime'
  <2>1. FreshId # NoId
      BY <1>1 DEF FreshId, NoId
  <2> QED
      BY <1>1, <1>2, <1>5, <2>1, LeaseEffect DEF Acquire, repoVars, NoLeaseNoTime
<1>6. ASSUME NEW w \in Worker, Renew(w) PROVE NoLeaseNoTime'
  <2>1. wk[w].lease # NoId
      BY <1>6 DEF Renew, AllFenced, Fenced
  <2> QED
      BY <1>1, <1>2, <1>6, <2>1, LeaseEffect DEF Renew, repoVars, NoLeaseNoTime
<1>7. ASSUME NEW w \in Worker, AppendState(w) \/ ApplyCancel(w)
      PROVE  NoLeaseNoTime'
    BY <1>1, <1>2, <1>7, LeaseEffect
       DEF AppendState, ApplyCancel, repoVars, NoLeaseNoTime
<1> QED
    BY <1>2, <1>3, <1>4, <1>5, <1>6, <1>7
       DEF Next, WorkerStep, Start, Own, Renewed, Drive, Driven, Reload, Resolve,
           Cancelled, Crash, repoVars, vars

LEMMA CancelMeansAppliedKept ==
    ASSUME TypeOK, CancelMeansApplied, JournalStep
    PROVE  CancelMeansApplied'
<1>1. CASE Quiet
    BY <1>1 DEF Quiet, CancelMeansApplied
<1>2. ASSUME NEW e, Inserted(e), Housekeeping(e) \/ Accepted(e)
      PROVE  CancelMeansApplied'
    BY <1>2 DEF Housekeeping, Accepted, Transition, CancelMeansApplied
<1>3. ASSUME NEW e, Inserted(e), Concluded(e) PROVE CancelMeansApplied'
  <2>1. events \in Seq(Event) /\ events' = Append(events, e)
      BY <1>3 DEF TypeOK, RepoTypeOK, Inserted
  <2>2. Len(events') = Len(events) + 1 /\ events'[Len(events) + 1] = e
      BY <2>1, Appended
  <2> QED
      BY <1>3, <2>2 DEF Concluded, CancelMeansApplied
<1> QED
    BY <1>1, <1>2, <1>3 DEF JournalStep

\* What is left of a worker that leaves.
LEMMA ExitFields ==
    ASSUME wk \in [Worker -> Local], NEW w \in Worker, NEW outcome, Exit(w, outcome)
    PROVE  /\ wk'[w].pc = "idle" /\ wk'[w].lease = NoId
           /\ wk'[w].outcome = outcome
<1>1. wk'[w] = Idle(outcome)
    BY ExitEffect
<1>2. /\ Idle(outcome).pc = "idle" /\ Idle(outcome).lease = NoId
      /\ Idle(outcome).outcome = outcome
    BY DEF Idle
<1> QED
    BY <1>1, <1>2

-----------------------------------------------------------------------------
(* Leases are apart.                                                       *)

\* A worker's lease is the one it had, none, or one nobody has had.
LEMMA LeaseOfActor ==
    ASSUME TypeOK, NEW w \in Worker, Start(w) \/ WorkerStep(w) \/ Crash(w)
    PROVE  \/ wk'[w].lease = wk[w].lease
           \/ wk'[w].lease = NoId
           \/ wk'[w].lease = FreshId /\ Acquire(w) /\ run'.version = run.version + 1
<1>1. /\ wk \in [Worker -> Local] /\ wk[w] \in Local /\ run \in RunRow
      /\ WithSnapshot(wk[w]) \in Local
      /\ WithSnapshot(wk[w]).lease = wk[w].lease
    BY SnapshotType, SnapshotEffect DEF TypeOK, RepoTypeOK
<1>2. ASSUME NEW local \in Local, local.lease = wk[w].lease, NEW pc, Goto(w, local, pc)
      PROVE  wk'[w].lease = wk[w].lease
    BY <1>1, <1>2 DEF Goto, Become, Local
<1>3. ASSUME NEW outcome, Exit(w, outcome) PROVE wk'[w].lease = NoId
    BY <1>1, <1>3, ExitFields
<1>4. ASSUME NEW local \in Local, local.lease = wk[w].lease, LoopHead(w, local)
      PROVE  wk'[w].lease = wk[w].lease \/ wk'[w].lease = NoId
    BY <1>2, <1>3, <1>4 DEF LoopHead
<1>5. CASE Start(w)
    BY <1>1, <1>3, <1>5, BecomeEffect DEF Start, Idle
<1>6. CASE Acquire(w)
  <2>1. CASE /\ AcquireLease(FreshId, FreshId, Skew[w])
             /\ Become(w, [wk[w] EXCEPT !.pc = "own", !.lease = FreshId])
    <3>1. wk'[w].lease = FreshId
        BY <1>1, <2>1, BecomeEffect DEF Local
    <3> QED
        BY <1>1, <1>6, <2>1, <3>1, LeaseEffect
  <2> QED
      BY <1>3, <1>6, <2>1 DEF Acquire
<1>7. CASE Own(w)
  <2>1. CASE Become(w, [WithSnapshot(wk[w]) EXCEPT !.pc = "append", !.fresh = TRUE,
                            !.cand = Recovered(WithSnapshot(wk[w]).state)])
      BY <1>1, <2>1, BecomeEffect DEF Local
  <2> QED
      BY <1>1, <1>3, <1>4, <1>7, <2>1 DEF Own
<1>8. CASE Drive(w)
    BY <1>1, <1>3, <1>8, BecomeEffect DEF Drive, Local
<1>9. CASE Driven(w)
  <2>1. CASE Become(w, [WithSnapshot(wk[w]) EXCEPT !.pc = "append", !.fresh = FALSE])
      BY <1>1, <2>1, BecomeEffect DEF Local
  <2> QED
      BY <1>1, <1>2, <1>3, <1>9, <2>1 DEF Driven
<1>10. CASE Reload(w)
  <2> DEFINE steps == IF wk[w].fresh THEN wk[w].steps ELSE wk[w].steps + 1
             local == [WithSnapshot(wk[w]) EXCEPT !.steps = steps, !.fresh = FALSE]
  <2>1. CASE Exit(w, "completed") \/ Exit(w, "stalled")
      BY <1>3, <2>1
  <2>2. ASSUME NEW pc, Goto(w, local, pc) PROVE wk'[w].lease = wk[w].lease
      BY <1>1, <2>2 DEF Goto, Become, Local
  <2> QED
      BY <1>10, <2>1, <2>2 DEF Reload, LoopHead
<1> QED
    BY <1>1, <1>2, <1>3, <1>5, <1>6, <1>7, <1>8, <1>9, <1>10
       DEF WorkerStep, Renew, Renewed, AppendState, Resolve, ApplyCancel, Cancelled,
           Crash

LEMMA LeasesApartKept ==
    ASSUME TypeOK, AllCustody, LeasesApart, [Next]_vars
    PROVE  LeasesApart'
<1>1. run.version \in Nat /\ \A w \in Worker : wk[w].lease \in Nat
    BY DEF TypeOK, RepoTypeOK, RunRow, Local
<1>2. \A w \in Worker : wk[w].lease # FreshId
    BY <1>1 DEF AllCustody, Custody, FreshId
<1>3. CASE UNCHANGED wk
    BY <1>3 DEF LeasesApart
<1>4. ASSUME NEW w \in Worker, Start(w) \/ WorkerStep(w) \/ Crash(w)
      PROVE  LeasesApart'
  <2>1. \A u \in Worker : u # w => wk'[u] = wk[u]
      BY <1>4, OneMoves
  <2>2. wk'[w].lease \in {wk[w].lease, NoId, FreshId}
      BY <1>4, LeaseOfActor
  <2> QED
      BY <1>2, <2>1, <2>2 DEF LeasesApart
<1> QED
    BY <1>3, <1>4 DEF Next, UserCancel, Expire, vars

-----------------------------------------------------------------------------
(* Nobody disturbs the holder.                                             *)

\* A step of anybody else that leaves the row in u's hands found it there, left
\* the state alone, and wrote nothing unless the user requested a cancellation.
LEMMA HolderUndisturbed ==
    ASSUME TypeOK, AllFenced, AllCustody, LeasesApart,
           NEW u \in Worker, wk[u].lease # NoId, run'.lease = wk[u].lease,
           \/ UNCHANGED vars \/ UserCancel \/ Expire
           \/ \E w \in Worker : w # u /\ (Start(w) \/ WorkerStep(w) \/ Crash(w))
    PROVE  /\ run.lease = wk[u].lease
           /\ run'.state = run.state
           /\ run.cancel # NoId => run'.version = run.version
<1>1. run \in RunRow /\ run.version \in Nat /\ wk[u].lease \in Nat
    BY DEF TypeOK, RepoTypeOK, RunRow, Local
<1>2. CASE UNCHANGED run
    BY <1>2
<1>3. CASE UserCancel \/ Expire
    BY <1>1, <1>3, LeaseEffect DEF UserCancel, Expire
<1>4. ASSUME NEW w \in Worker, w # u, Start(w) \/ WorkerStep(w) \/ Crash(w)
      PROVE  UNCHANGED run
  <2>1. wk[w].lease # wk[u].lease
      BY <1>4 DEF LeasesApart
  <2>2. wk[u].lease # FreshId
      BY <1>1 DEF AllCustody, Custody, FreshId
  <2>3. ~AcquireLease(FreshId, FreshId, Skew[w])
      BY <1>1, <2>2, LeaseEffect
  <2>4. ~RenewLease(wk[w].lease, FreshId, wk[w].version, Skew[w])
      BY <1>1, <2>1, LeaseEffect
  <2>5. ~AppendStateTransition(wk[w].lease, FreshId, wk[w].version, Skew[w],
                               wk[w].cand)
      BY <1>1, <2>1, LeaseEffect
  <2>6. ~ApplyCancellation(wk[w].lease, wk[w].request, FreshId, wk[w].version,
                           Skew[w], wk[w].state)
      BY <1>1, LeaseEffect
  <2> QED
      BY <1>4, <2>3, <2>4, <2>5, <2>6
         DEF WorkerStep, Start, Acquire, Own, Renew, Renewed, Drive, Driven,
             AppendState, Reload, Resolve, ApplyCancel, Cancelled, Crash, repoVars
<1>5. CASE UNCHANGED vars
    BY <1>2, <1>5 DEF vars
<1> QED
    BY <1>2, <1>3, <1>4, <1>5

LEMMA OtherCustody ==
    ASSUME TypeOK, TypeOK', AllFenced, JournalStep, AllCustody, LeasesApart,
           NEW u \in Worker, wk'[u] = wk[u],
           \/ UNCHANGED vars \/ UserCancel \/ Expire
           \/ \E w \in Worker : w # u /\ (Start(w) \/ WorkerStep(w) \/ Crash(w))
    PROVE  Custody(wk'[u], run')
<1>1. /\ run.version \in Nat /\ run'.version \in Nat /\ wk[u].lease \in Nat
      /\ run.version <= run'.version
  <2>1. run.version \in Nat /\ run'.version \in Nat /\ wk[u].lease \in Nat
      BY DEF TypeOK, RepoTypeOK, RunRow, Local
  <2> QED
      BY <2>1 DEF JournalStep, Quiet, Inserted
<1>2. Custody(wk[u], run) /\ Fenced(wk[u], run)
    BY DEF AllCustody, AllFenced
<1>3. wk[u].lease <= run'.version
    BY <1>1, <1>2 DEF Custody
<1>4. CASE run'.lease # wk[u].lease \/ wk[u].lease = NoId
    BY <1>2, <1>3, <1>4 DEF Custody, Fenced
<1>5. CASE run'.lease = wk[u].lease /\ wk[u].lease # NoId
  <2>1. /\ run.lease = wk[u].lease
        /\ run'.state = run.state
        /\ run.cancel # NoId => run'.version = run.version
      BY <1>5, HolderUndisturbed
  <2>2. wk[u].pc = "cancel" => run.cancel # NoId
      BY <1>2 DEF Fenced
  <2> QED
      BY <1>2, <1>3, <2>1, <2>2 DEF Custody
<1> QED
    BY <1>4, <1>5

-----------------------------------------------------------------------------
(* The worker that acts.                                                   *)

LEMMA ExitCustody ==
    ASSUME wk \in [Worker -> Local], run'.version \in Nat,
           NEW w \in Worker, NEW outcome, Exit(w, outcome)
    PROVE  Custody(wk'[w], run')
<1>1. wk'[w] = Idle(outcome)
    BY ExitEffect
<1> QED
    BY <1>1 DEF Idle, Custody, NoId

\* At the head of the loop, a worker that has not stepped yet and owns the run
\* has nothing left to recover.
LEMMA LoopHeadCustody ==
    ASSUME TypeOK, UNCHANGED run, NEW w \in Worker, NEW local \in Local,
           local.version = run.version, local.state = run.state,
           local.lease # NoId, local.lease <= run.version, local.outcome = "none",
           local.steps = 0 /\ local.request = NoId /\ run.lease = local.lease
               => ~HasActive(run.state),
           LoopHead(w, local)
    PROVE  Custody(wk'[w], run')
<1>1. run.version \in Nat /\ wk \in [Worker -> Local] /\ local.steps \in Nat
    BY DEF TypeOK, RepoTypeOK, RunRow, Local
<1>2. CASE \E outcome : Exit(w, outcome)
    BY <1>1, <1>2, ExitCustody
<1>3. CASE \/ Goto(w, local, "cancel")
           \/ local.steps > 0 /\ Goto(w, local, "renew")
           \/ local.steps = 0 /\ local.request = NoId /\ Goto(w, local, "drive")
    BY <1>1, <1>3, GotoEffect DEF Custody, Pc
<1> QED
    BY <1>1, <1>2, <1>3 DEF LoopHead

LEMMA ActorCustody ==
    ASSUME TypeOK, TypeOK', StepsLeft, AllFenced, JournalStep, AllCustody,
           NEW w \in Worker, Start(w) \/ WorkerStep(w) \/ Crash(w)
    PROVE  Custody(wk'[w], run')
<1> USE DEF repoVars
<1>1. /\ wk \in [Worker -> Local] /\ wk[w] \in Local /\ run \in RunRow
      /\ Fenced(wk[w], run) /\ Custody(wk[w], run)
      /\ run.version \in Nat /\ run'.version \in Nat /\ run.version <= run'.version
      /\ wk[w].lease \in Nat /\ wk[w].lease <= run'.version
  <2>1. run.version \in Nat /\ run'.version \in Nat /\ wk[w].lease \in Nat
      BY DEF TypeOK, RepoTypeOK, RunRow, Local
  <2>2. run.version <= run'.version
      BY <2>1 DEF JournalStep, Quiet, Inserted
  <2>3. wk[w].lease <= run.version
      BY DEF AllCustody, Custody
  <2> QED
      BY <2>1, <2>2, <2>3 DEF TypeOK, RepoTypeOK, AllFenced, AllCustody
<1>2. WithSnapshot(wk[w]) \in Local /\ WithSnapshot(wk[w]).outcome = wk[w].outcome
    BY <1>1, SnapshotType DEF TypeOK, WithSnapshot, Local
<1>3. ASSUME NEW outcome, Exit(w, outcome) PROVE Custody(wk'[w], run')
    BY <1>1, <1>3, ExitCustody
<1>4. ASSUME NEW pc \in {"renewed", "resolve", "cancelled"}, Goto(w, wk[w], pc),
             wk[w].pc \notin {"idle", "acquire"}, pc = "renewed" => wk[w].steps > 0
      PROVE  Custody(wk'[w], run')
    BY <1>1, <1>4, GotoEffect DEF Custody, Pc
<1>5. CASE Start(w)
  <2>1. CASE Become(w, [Idle("none") EXCEPT !.pc = "acquire"])
      BY <1>1, <2>1, BecomeEffect DEF Idle, Custody, NoId
  <2> QED
      BY <1>3, <1>5, <2>1 DEF Start
<1>6. CASE Acquire(w)
  <2>1. CASE Become(w, [wk[w] EXCEPT !.pc = "own", !.lease = FreshId])
            /\ AcquireLease(FreshId, FreshId, Skew[w])
    <3>1. run'.version = FreshId
        BY <1>1, <2>1, LeaseEffect DEF FreshId
    <3>2. wk'[w] = [wk[w] EXCEPT !.pc = "own", !.lease = FreshId]
        BY <1>1, <2>1, BecomeEffect
    <3>3. /\ wk'[w].pc = "own" /\ wk'[w].lease = FreshId
          /\ wk'[w].outcome = wk[w].outcome
        BY <1>1, <3>2 DEF Local
    <3> QED
        BY <1>1, <1>6, <3>1, <3>3 DEF Acquire, Custody
  <2> QED
      BY <1>3, <1>6, <2>1 DEF Acquire
<1>7. CASE Own(w)
  <2> DEFINE local == WithSnapshot(wk[w])
  <2>1. /\ local.version = run.version /\ local.state = run.state
        /\ local.request = run.cancel /\ local.lease = wk[w].lease
        /\ UNCHANGED run /\ wk[w].lease # NoId /\ wk[w].outcome = "none"
      BY <1>1, <1>7, SnapshotEffect DEF Own, Fenced, Custody
  <2>2. CASE Exit(w, "stale")
      BY <1>3, <2>2
  <2>3. CASE Become(w, [local EXCEPT !.pc = "append", !.fresh = TRUE,
                                     !.cand = Recovered(local.state)])
    <3>1. wk'[w] = [local EXCEPT !.pc = "append", !.fresh = TRUE,
                                 !.cand = Recovered(local.state)]
        BY <1>1, <2>3, BecomeEffect
    <3>2. /\ wk'[w].pc = "append" /\ wk'[w].cand = Recovered(local.state)
          /\ wk'[w].lease = local.lease /\ wk'[w].outcome = local.outcome
        BY <1>2, <3>1 DEF Local
    <3>3. ~HasActive(Recovered(local.state))
        BY <1>2, NoActiveRecovered DEF Local
    <3> QED
        BY <1>1, <1>2, <2>1, <3>2, <3>3 DEF Custody
  <2>4. CASE /\ ~(local.request = NoId /\ HasActive(local.state))
             /\ LoopHead(w, local)
    <3>1. wk[w].lease <= run.version /\ local.outcome = "none"
        BY <1>1, <1>2, <2>1 DEF Custody
    <3>2. local \in Local
        BY <1>2
    <3> HIDE DEF local
    <3> QED
        BY <2>1, <2>4, <3>1, <3>2, LoopHeadCustody
  <2> QED
      BY <1>7, <2>2, <2>3, <2>4 DEF Own
<1>8. CASE Renew(w)
    BY <1>1, <1>4, <1>8 DEF Renew, Custody
<1>9. CASE Renewed(w)
  <2>1. CASE Goto(w, WithSnapshot(wk[w]), "drive")
      BY <1>1, <1>2, <1>9, <2>1, GotoEffect, SnapshotEffect DEF Renewed, Custody, Pc
  <2> QED
      BY <1>4, <1>9, <2>1 DEF Renewed
<1>10. CASE Drive(w)
  <2>1. ASSUME NEW s \in State,
               Become(w, [wk[w] EXCEPT !.pc = "driven", !.cand = s])
        PROVE  Custody(wk'[w], run')
    <3>1. wk'[w] = [wk[w] EXCEPT !.pc = "driven", !.cand = s]
        BY <1>1, <2>1, BecomeEffect
    <3>2. /\ wk'[w].pc = "driven" /\ wk'[w].lease = wk[w].lease
          /\ wk'[w].outcome = wk[w].outcome
        BY <1>1, <3>1 DEF Local
    <3> QED
        BY <1>1, <1>10, <3>2 DEF Drive, Custody
  <2> QED
      BY <1>3, <1>10, <2>1 DEF Drive
<1>11. CASE Driven(w)
  <2> DEFINE local == WithSnapshot(wk[w])
  <2>1. /\ local.version = run.version /\ local.lease = wk[w].lease
        /\ UNCHANGED run /\ wk[w].outcome = "none" /\ wk[w].lease # NoId
      BY <1>1, <1>11, SnapshotEffect DEF Driven, Custody, Fenced
  <2>2. CASE Goto(w, local, "cancel")
      BY <1>1, <1>2, <2>1, <2>2, GotoEffect DEF Custody, Pc
  <2>3. CASE Become(w, [local EXCEPT !.pc = "append", !.fresh = FALSE])
    <3>1. wk'[w] = [local EXCEPT !.pc = "append", !.fresh = FALSE]
        BY <1>1, <2>3, BecomeEffect
    <3>2. /\ wk'[w].pc = "append" /\ wk'[w].fresh = FALSE
          /\ wk'[w].lease = local.lease /\ wk'[w].outcome = local.outcome
        BY <1>2, <3>1 DEF Local
    <3> QED
        BY <1>1, <1>2, <2>1, <3>2 DEF Custody
  <2> QED
      BY <1>3, <1>4, <1>11, <2>2, <2>3 DEF Driven
<1>12. CASE AppendState(w)
  <2>1. CASE /\ AppendStateTransition(wk[w].lease, FreshId, wk[w].version, Skew[w],
                                      wk[w].cand)
             /\ Goto(w, wk[w], "reload")
    <3>1. run'.state = wk[w].cand
        BY <1>1, <2>1, LeaseEffect
    <3>2. /\ wk'[w].pc = "reload" /\ wk'[w].fresh = wk[w].fresh
          /\ wk'[w].lease = wk[w].lease /\ wk'[w].outcome = wk[w].outcome
        BY <1>1, <2>1, GotoEffect DEF Pc
    <3> QED
        BY <1>1, <1>12, <3>1, <3>2 DEF AppendState, Custody
  <2> QED
      BY <1>4, <1>12, <2>1 DEF AppendState
<1>13. CASE Reload(w)
  <2> DEFINE steps == IF wk[w].fresh THEN wk[w].steps ELSE wk[w].steps + 1
             local == [WithSnapshot(wk[w]) EXCEPT !.steps = steps, !.fresh = FALSE]
  <2>1. /\ local.version = run.version /\ local.state = run.state
        /\ local.lease = wk[w].lease /\ local.steps = steps
        /\ local.outcome = wk[w].outcome
      BY <1>1, <1>2, SnapshotEffect DEF Local
  <2>2. /\ UNCHANGED run /\ wk[w].lease # NoId /\ LoopHead(w, local)
        /\ wk[w].outcome = "none" /\ wk[w].lease <= run.version
      BY <1>1, <1>13 DEF Reload, Fenced, Custody
  <2>3. steps \in 0..MaxSteps
      BY <1>1, <1>13, RunExecutionAssumption
         DEF Reload, StepsLeft, StepLeft, Local
  <2>4. local \in Local
      BY <1>2, <2>3 DEF Local
  <2>5. steps = 0 => wk[w].fresh
      BY <1>1 DEF Local
  <2>6. local.steps = 0 /\ run.lease = local.lease => ~HasActive(run.state)
      BY <1>1, <1>13, <2>1, <2>5 DEF Reload, Custody
  <2> HIDE DEF local, steps
  <2> QED
      BY <2>1, <2>2, <2>4, <2>6, LoopHeadCustody
<1>14. CASE Resolve(w)
  <2>1. CASE Goto(w, WithSnapshot(wk[w]), "cancel")
      BY <1>1, <1>2, <1>14, <2>1, GotoEffect, SnapshotEffect
         DEF Resolve, Custody, Pc
  <2> QED
      BY <1>3, <1>14, <2>1 DEF Resolve
<1>15. CASE ApplyCancel(w)
    BY <1>3, <1>4, <1>15 DEF ApplyCancel
<1>16. CASE Cancelled(w) \/ Crash(w)
    BY <1>3, <1>16 DEF Cancelled, Crash
<1> QED
    BY <1>5, <1>6, <1>7, <1>8, <1>9, <1>10, <1>11, <1>12, <1>13, <1>14, <1>15,
       <1>16 DEF WorkerStep

LEMMA CustodyKept ==
    ASSUME TypeOK, TypeOK', StepsLeft, AllFenced, JournalStep, AllCustody,
           LeasesApart, [Next]_vars
    PROVE  AllCustody'
<1> SUFFICES ASSUME NEW u \in Worker PROVE Custody(wk'[u], run')
    BY DEF AllCustody
<1>1. CASE UNCHANGED vars \/ UserCancel \/ Expire
  <2>1. wk'[u] = wk[u]
      BY <1>1 DEF vars, UserCancel, Expire
  <2> QED
      BY <1>1, <2>1, OtherCustody
<1>2. CASE Start(u) \/ WorkerStep(u) \/ Crash(u)
    BY <1>2, ActorCustody
<1>3. ASSUME NEW w \in Worker, w # u, Start(w) \/ WorkerStep(w) \/ Crash(w)
      PROVE  Custody(wk'[u], run')
  <2>1. wk'[u] = wk[u]
      BY <1>3, OneMoves
  <2> QED
      BY <1>3, <2>1, OtherCustody
<1> QED
    BY <1>1, <1>2, <1>3 DEF Next

-----------------------------------------------------------------------------
(* Whoever reports CANCELLED.                                              *)

\* A worker comes to report CANCELLED in three ways: it has already, it finds the
\* run over with a request, or it has just applied the request itself.
LEMMA WaysToCancelled ==
    ASSUME TypeOK, AllCustody, NEW w \in Worker, Start(w) \/ WorkerStep(w) \/ Crash(w),
           wk'[w].outcome = "cancelled" \/ wk'[w].pc = "cancelled"
    PROVE  \/ wk[w].pc = "cancelled" /\ UNCHANGED repoVars
           \/ run.cancel # NoId /\ IsTerminal(run.status) /\ UNCHANGED repoVars
           \/ /\ wk[w].pc = "cancel"
              /\ ApplyCancellation(wk[w].lease, wk[w].request, FreshId,
                                   wk[w].version, Skew[w], wk[w].state)
<1>1. /\ wk \in [Worker -> Local] /\ wk[w] \in Local
      /\ WithSnapshot(wk[w]) \in Local
      /\ WithSnapshot(wk[w]).outcome = wk[w].outcome
      /\ wk[w].pc # "idle" => wk[w].outcome = "none"
    BY SnapshotType DEF TypeOK, AllCustody, Custody, WithSnapshot, Local
<1>2. ASSUME NEW outcome, outcome # "cancelled", Exit(w, outcome) PROVE FALSE
    BY <1>1, <1>2, ExitFields
<1>3. ASSUME NEW local \in Local, local.outcome = "none",
             NEW pc \in Pc, pc # "cancelled", Goto(w, local, pc)
      PROVE  FALSE
    BY <1>1, <1>3, GotoEffect
<1>4. ASSUME NEW local, local.outcome = "none", local.pc # "cancelled", Become(w, local)
      PROVE  FALSE
    BY <1>1, <1>4, BecomeEffect
<1>5. ~Start(w)
    BY <1>2, <1>4 DEF Start, Idle
<1>6. ~Acquire(w)
  <2> SUFFICES ASSUME Acquire(w) PROVE FALSE
      OBVIOUS
  <2> DEFINE local == [wk[w] EXCEPT !.pc = "own", !.lease = FreshId]
  <2>1. local.outcome = "none" /\ local.pc = "own"
      BY <1>1 DEF Acquire, Local
  <2> QED
      BY <1>2, <1>4, <2>1 DEF Acquire
<1>7. ASSUME NEW local \in Local, local.outcome = "none", LoopHead(w, local)
      PROVE  FALSE
    BY <1>2, <1>3, <1>7 DEF LoopHead, Pc
<1>8. ~Own(w)
  <2> SUFFICES ASSUME Own(w) PROVE FALSE
      OBVIOUS
  <2> DEFINE local == [WithSnapshot(wk[w]) EXCEPT !.pc = "append", !.fresh = TRUE,
                                    !.cand = Recovered(WithSnapshot(wk[w]).state)]
  <2>1. local.outcome = "none" /\ local.pc = "append"
      BY <1>1 DEF Own, Local
  <2> QED
      BY <1>1, <1>2, <1>4, <1>7, <2>1 DEF Own
<1>9. ~Drive(w)
  <2> SUFFICES ASSUME Drive(w) PROVE FALSE
      OBVIOUS
  <2>1. ASSUME NEW s \in State PROVE
            /\ [wk[w] EXCEPT !.pc = "driven", !.cand = s].outcome = "none"
            /\ [wk[w] EXCEPT !.pc = "driven", !.cand = s].pc = "driven"
      BY <1>1 DEF Drive, Local
  <2> QED
      BY <1>2, <1>4, <2>1 DEF Drive
<1>10. ~Driven(w)
  <2> SUFFICES ASSUME Driven(w) PROVE FALSE
      OBVIOUS
  <2> DEFINE local == [WithSnapshot(wk[w]) EXCEPT !.pc = "append", !.fresh = FALSE]
  <2>1. local.outcome = "none" /\ local.pc = "append"
      BY <1>1 DEF Driven, Local
  <2> QED
      BY <1>1, <1>2, <1>3, <1>4, <2>1 DEF Driven, Pc
<1>11. ~Reload(w)
  <2> SUFFICES ASSUME Reload(w) PROVE FALSE
      OBVIOUS
  <2> DEFINE steps == IF wk[w].fresh THEN wk[w].steps ELSE wk[w].steps + 1
             local == [WithSnapshot(wk[w]) EXCEPT !.steps = steps, !.fresh = FALSE]
  <2>1. ASSUME NEW pc \in Pc, pc # "cancelled", Goto(w, local, pc) PROVE FALSE
    <3>1. /\ [local EXCEPT !.pc = pc, !.cand = InitialState].outcome = "none"
          /\ [local EXCEPT !.pc = pc, !.cand = InitialState].pc = pc
        BY <1>1 DEF Reload, Local
    <3> QED
        BY <1>4, <2>1, <3>1 DEF Goto
  <2>2. LoopHead(w, local)
      BY DEF Reload
  <2> HIDE DEF local
  <2> QED
      BY <1>2, <2>1, <2>2 DEF LoopHead, Pc
<1>12. ~Renew(w) /\ ~Renewed(w) /\ ~AppendState(w) /\ ~Crash(w)
    BY <1>1, <1>2, <1>3 DEF Renew, Renewed, AppendState, Crash, Pc
<1>13. CASE Resolve(w)
    BY <1>1, <1>2, <1>3, <1>13 DEF Resolve, Pc, repoVars
<1>14. CASE ApplyCancel(w)
    BY <1>1, <1>2, <1>14 DEF ApplyCancel
<1>15. CASE Cancelled(w)
    BY <1>15 DEF Cancelled
<1> QED
    BY <1>5, <1>6, <1>8, <1>9, <1>10, <1>11, <1>12, <1>13, <1>14, <1>15
       DEF WorkerStep

LEMMA CancelledKept ==
    ASSUME TypeOK, AllFenced, AllCustody, CancelMeansApplied, CancelMeansApplied',
           CancelledIsApplied, JournalStep, [Next]_vars
    PROVE  CancelledIsApplied'
<1> SUFFICES ASSUME NEW u \in Worker,
                    wk'[u].outcome = "cancelled" \/ wk'[u].pc = "cancelled"
             PROVE  /\ IsTerminal(run'.status)
                    /\ events'[Len(events')].type = "cancellation_applied"
    BY DEF CancelledIsApplied
<1>1. IsTerminal(run.status) => events' = events /\ run'.status = run.status
    BY JournalStepIsRepoStep, JournalGrows DEF TypeOK, RepoTypeOK
<1>2. CASE wk'[u] = wk[u]
    BY <1>1, <1>2 DEF CancelledIsApplied
<1>3. CASE wk[u].pc = "cancelled" /\ UNCHANGED repoVars
    BY <1>1, <1>3 DEF CancelledIsApplied
<1>4. CASE run.cancel # NoId /\ IsTerminal(run.status) /\ UNCHANGED repoVars
    BY <1>1, <1>4 DEF CancelMeansApplied
<1>5. CASE wk[u].pc = "cancel" /\ ApplyCancellation(wk[u].lease, wk[u].request,
               FreshId, wk[u].version, Skew[u], wk[u].state)
  <2>1. wk[u].request # NoId
      BY <1>5 DEF AllFenced, Fenced
  <2>2. run'.cancel # NoId /\ run'.status = CancelledStatus(wk[u].state)
      BY <1>5, <2>1 DEF ApplyCancellation, Bumped, TypeOK, RepoTypeOK, RunRow
  <2>3. IsTerminal(run'.status)
      BY <2>2 DEF CancelledStatus, IsTerminal, TerminalStatus
  <2> QED
      BY <2>2, <2>3 DEF CancelMeansApplied
<1>6. wk'[u] = wk[u] \/ Start(u) \/ WorkerStep(u) \/ Crash(u)
    BY OthersKept
<1> QED
    BY <1>2, <1>3, <1>4, <1>5, <1>6, WaysToCancelled

-----------------------------------------------------------------------------
(* The theorems.                                                           *)

LEMMA InitCustody == Init => CustodyInv
<1> SUFFICES ASSUME Init PROVE CustodyInv
    OBVIOUS
<1>1. AllCustody
    BY DEF Init, RepoInit, AllCustody, Custody, Idle, NoId
<1>2. LeasesApart /\ CancelledIsApplied
    BY DEF Init, Idle, LeasesApart, CancelledIsApplied
<1>3. NoLeaseNoTime /\ CancelMeansApplied
    BY DEF Init, RepoInit, NoLeaseNoTime, CancelMeansApplied
<1> QED
    BY <1>1, <1>2, <1>3 DEF CustodyInv

LEMMA NextCustody == Inv /\ CustodyInv /\ [Next]_vars => CustodyInv'
<1> SUFFICES ASSUME Inv, CustodyInv, [Next]_vars PROVE CustodyInv'
    OBVIOUS
<1>1. TypeOK /\ TypeOK' /\ StepsLeft /\ AllFenced
    BY NextTypeOK DEF Inv
<1>2. JournalStep
    BY StepShape DEF Inv
<1>3. CancelMeansApplied'
    BY <1>1, <1>2, CancelMeansAppliedKept DEF CustodyInv
<1>4. AllCustody' /\ LeasesApart' /\ NoLeaseNoTime'
    BY <1>1, <1>2, CustodyKept, LeasesApartKept, NoLeaseNoTimeKept DEF CustodyInv
<1>5. CancelledIsApplied'
    BY <1>1, <1>2, <1>3, CancelledKept DEF CustodyInv
<1> QED
    BY <1>3, <1>4, <1>5 DEF CustodyInv

\* The inductive invariant, with the worth of a lease.
THEOREM CustodyHolds == Spec => [](Inv /\ CustodyInv)
<1>1. Init => Inv /\ CustodyInv
    BY InitInv, InitCustody
<1>2. Inv /\ CustodyInv /\ [Next]_vars => (Inv /\ CustodyInv)'
    BY NextInv, NextCustody
<1> QED
    BY <1>1, <1>2, PTL DEF Spec

\* A worker that takes over and still holds the run has finished every capability
\* its predecessor left active before it drives, and drives the stored state.
THEOREM RecoveryComesFirst == Spec => []OwnerRecoversFirst
<1>1. CustodyInv => OwnerRecoversFirst
    BY DEF CustodyInv, AllCustody, Custody, OwnerRecoversFirst
<1> QED
    BY <1>1, CustodyHolds, PTL

\* A worker that reports CANCELLED speaks the truth.
THEOREM CancelledMeansApplied == Spec => []CancelledIsApplied
<1>1. CustodyInv => CancelledIsApplied
    BY DEF CustodyInv
<1> QED
    BY <1>1, CustodyHolds, PTL

\* A worker that leaves while it owns a run with a pending request was not able
\* to run on: every other way out loses the lease first, or finds no request.
LEMMA NobodyWalksAway ==
    ASSUME Inv, CustodyInv, NEW w \in Worker, Start(w) \/ WorkerStep(w) \/ Crash(w),
           wk[w].pc # "idle", wk'[w].pc = "idle", Owned(w), run.cancel # NoId
    PROVE  wk'[w].outcome \in {"interrupted", "none"}
<1>1. /\ wk \in [Worker -> Local] /\ wk[w] \in Local /\ run \in RunRow
      /\ WithSnapshot(wk[w]) \in Local
      /\ WithSnapshot(wk[w]).request = run.cancel
      /\ Fenced(wk[w], run) /\ Custody(wk[w], run) /\ Skew[w] \in Nat
    BY SnapshotType, SnapshotEffect, RunExecutionAssumption
       DEF Inv, TypeOK, RepoTypeOK, AllFenced, CustodyInv, AllCustody
<1>2. ASSUME NEW local \in Local, NEW pc \in Pc, pc # "idle", Goto(w, local, pc)
      PROVE  FALSE
    BY <1>1, <1>2, GotoEffect
<1>3. ASSUME NEW local, local.pc # "idle", Become(w, local) PROVE FALSE
    BY <1>1, <1>3, BecomeEffect
<1>4. run.lease # NoId
  <2>1. run.lease = NoId => run.left = 0
      BY DEF CustodyInv, NoLeaseNoTime
  <2> QED
      BY <1>1, <2>1 DEF Owned, Expired
<1>5. /\ ~IsTerminal(run.status) /\ wk[w].lease = run.lease /\ wk[w].lease # NoId
      /\ wk[w].pc # "acquire"
    BY <1>1, <1>4 DEF Inv, StateMatchesStatus, Owned, Custody
<1>6. ~Start(w) /\ ~Acquire(w) /\ ~Renew(w) /\ ~Renewed(w) /\ ~AppendState(w)
    BY <1>1, <1>2, <1>5 DEF Start, Acquire, Renew, Renewed, AppendState, Pc
<1>7. ~Own(w)
  <2> SUFFICES ASSUME Own(w) PROVE FALSE
      OBVIOUS
  <2>1. LoopHead(w, WithSnapshot(wk[w]))
      BY <1>1 DEF Own
  <2>2. Goto(w, WithSnapshot(wk[w]), "cancel")
      BY <1>1, <1>5, <2>1 DEF LoopHead
  <2> QED
      BY <1>1, <1>2, <2>2 DEF Pc
<1>8. ~Driven(w)
    BY <1>1, <1>2 DEF Driven, Pc
<1>9. ~Reload(w)
  <2> SUFFICES ASSUME Reload(w) PROVE FALSE
      OBVIOUS
  <2> DEFINE steps == IF wk[w].fresh THEN wk[w].steps ELSE wk[w].steps + 1
             local == [WithSnapshot(wk[w]) EXCEPT !.steps = steps, !.fresh = FALSE]
  <2>1. LoopHead(w, local)
      BY DEF Reload
  <2>2. local.request = run.cancel
      BY <1>1 DEF Local
  <2>3. Goto(w, local, "cancel")
    <3> HIDE DEF local
    <3> QED
        BY <1>5, <2>1, <2>2 DEF LoopHead
  <2>4. [local EXCEPT !.pc = "cancel", !.cand = InitialState].pc = "cancel"
      BY <1>1 DEF Local
  <2> HIDE DEF local
  <2> QED
      BY <1>3, <2>3, <2>4 DEF Goto
<1>10. ~Resolve(w)
    BY <1>1, <1>2, <1>5 DEF Resolve, Pc
<1>11. ~ApplyCancel(w)
  <2> SUFFICES ASSUME ApplyCancel(w) PROVE FALSE
      OBVIOUS
  <2>1. RequireVersion(wk[w].version) /\ RequireLease(wk[w].lease, Skew[w])
      BY <1>1, <1>5 DEF ApplyCancel, Custody, RequireVersion, RequireLease, Owned
  <2> QED
      BY <1>1, <1>2, <2>1 DEF ApplyCancel, Pc
<1>12. ~Cancelled(w)
    BY <1>5 DEF Cancelled, CustodyInv, CancelledIsApplied
<1>13. CASE Drive(w)
  <2>1. ASSUME NEW s \in State PROVE [wk[w] EXCEPT !.pc = "driven", !.cand = s].pc # "idle"
      BY <1>1 DEF Local
  <2>2. Exit(w, "interrupted")
      BY <1>3, <1>13, <2>1 DEF Drive
  <2> QED
      BY <1>1, <2>2, ExitFields
<1>14. CASE Crash(w)
    BY <1>1, <1>14, ExitFields DEF Crash
<1> QED
    BY <1>6, <1>7, <1>8, <1>9, <1>10, <1>11, <1>12, <1>13, <1>14 DEF WorkerStep

\* A worker that holds the lease never walks away from a pending cancellation.
THEOREM OwnerAppliesRequest == Spec => OwnerHonoursCancellation
<1> DEFINE A == \A w \in Worker :
                    /\ wk[w].pc # "idle" /\ wk'[w].pc = "idle"
                    /\ Owned(w) /\ run.cancel # NoId
                    => wk'[w].outcome \in {"interrupted", "none"}
<1>1. Inv /\ CustodyInv /\ [Next]_vars => A
  <2> SUFFICES ASSUME Inv, CustodyInv, [Next]_vars, NEW w \in Worker,
                      wk[w].pc # "idle", wk'[w].pc = "idle", Owned(w),
                      run.cancel # NoId
               PROVE  wk'[w].outcome \in {"interrupted", "none"}
      OBVIOUS
  <2>1. Start(w) \/ WorkerStep(w) \/ Crash(w)
      BY OthersKept DEF Inv
  <2> QED
      BY <2>1, NobodyWalksAway
<1>2. Inv /\ CustodyInv /\ [Next]_vars => [A]_vars
    BY <1>1
<1> QED
  <2> HIDE DEF A
  <2>1. Spec => [][A]_vars
      BY <1>2, CustodyHolds, PTL DEF Spec
  <2> QED
      BY <2>1 DEF A, OwnerHonoursCancellation
=============================================================================
