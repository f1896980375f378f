-------------------------- MODULE DurableRunProofs --------------------------
(***************************************************************************)
(* Facts about the operations of the durable run repository, for whoever   *)
(* calls them: they keep the types of the row and the journal, and each is *)
(* one of four shapes, from which it follows that the journal only grows,  *)
(* that its numbers are its positions, and that a run that is over stays   *)
(* as it is.                                                               *)
(***************************************************************************)
EXTENDS DurableRun, TLAPS

-----------------------------------------------------------------------------
(* Facts about the operators of OrchestrationProgress.                     *)

\* initialize_orchestration returns a valid state.
LEMMA InitialStateValid == InitialState \in State
BY LastPhaseAssumption
   DEF InitialState, State, OrchestrationRecord, ValidState, NodeState,
       SectionState, NodeTerminal, NoTerminal, RunTerminalState

\* The status of the row says whether its state is terminal.
LEMMA StatusOfState ==
    ASSUME NEW s \in State
    PROVE  /\ DurableStatusForState(s) \in RunStatus
           /\ s.terminal = NoTerminal => DurableStatusForState(s) = "running"
           /\ s.terminal # NoTerminal => IsTerminal(DurableStatusForState(s))
<1> s.terminal \in RunTerminalState \cup {NoTerminal}
    BY DEF State, OrchestrationRecord
<1> QED
    BY DEF DurableStatusForState, RunStatus, IsTerminal, TerminalStatus,
           NoTerminal, RunTerminalState

\* A state is not the absence of one.
LEMMA StateIsNotNoState == \A s \in State : s # NoState
<1> SUFFICES ASSUME NEW s \in State, s = NoState PROVE FALSE
    OBVIOUS
<1>1. s.phase \in 0..LastPhase
    BY DEF State, OrchestrationRecord
<1>2. s.phase = LastPhase + 1
    BY DEF NoState
<1> QED
    BY <1>1, <1>2, LastPhaseAssumption

LEMMA ProgressReflexive == \A s \in State : Progress(s, s)
<1> SUFFICES ASSUME NEW s \in State PROVE Progress(s, s)
    OBVIOUS
<1> s \in OrchestrationRecord
    BY DEF State
<1> QED
    BY LastPhaseAssumption
       DEF OrchestrationRecord, Progress, NodeTerminal, NodeState, SectionState

-----------------------------------------------------------------------------
(* The repository's operations preserve the types of the row and journal.  *)

\* _insert_event appends one event of the right type.
LEMMA InsertType ==
    ASSUME RepoTypeOK,
           NEW id \in Id, NEW type \in EventType,
           NEW status \in RunStatus \cup RunTerminalState,
           NEW lease \in Nat, NEW state \in State \cup {NoState},
           InsertEvent(id, type, status, lease, state)
    PROVE  events' \in Seq(Event)
BY DEF RepoTypeOK, InsertEvent, Event, RunRow

LEMMA BumpedType == RepoTypeOK => Bumped \in RunRow
<1> SUFFICES ASSUME run \in RunRow PROVE Bumped \in RunRow
    BY DEF RepoTypeOK
<1>1. run.version + 1 \in Nat /\ run.next + 1 \in Nat
    BY DEF RunRow
<1> QED
    BY <1>1 DEF Bumped, RunRow

LEMMA AcquireType ==
    ASSUME RepoTypeOK, NEW lease \in Id, NEW id \in Id, NEW skew \in Nat,
           AcquireLease(lease, id, skew)
    PROVE  RepoTypeOK'
<1>1. run' \in RunRow
  <2>1. TTL + skew \in Nat /\ lease \in Nat /\ "running" \in RunStatus
      BY TTLAssumption DEF Id, RunStatus
  <2> QED
      BY <2>1, BumpedType DEF AcquireLease, RunRow
<1>2. events' \in Seq(Event)
  <2>1. InsertEvent(id, "lease_acquired", "running", lease, NoState)
      BY DEF AcquireLease
  <2> QED
      BY <2>1, InsertType DEF Id, EventType, RunStatus
<1> QED
    BY <1>1, <1>2 DEF RepoTypeOK

LEMMA RenewType ==
    ASSUME RepoTypeOK, NEW lease \in Nat, NEW id \in Id, NEW expected \in Nat,
           NEW skew \in Nat, RenewLease(lease, id, expected, skew)
    PROVE  RepoTypeOK'
<1>1. run' \in RunRow
    BY BumpedType, TTLAssumption DEF RenewLease, RunRow
<1>2. events' \in Seq(Event)
  <2>1. InsertEvent(id, "lease_renewed", run.status, lease, NoState)
      BY DEF RenewLease
  <2>2. run.status \in RunStatus
      BY DEF RepoTypeOK, RunRow
  <2> QED
      BY <2>1, <2>2, InsertType DEF EventType
<1> QED
    BY <1>1, <1>2 DEF RepoTypeOK

LEMMA AppendType ==
    ASSUME RepoTypeOK, NEW lease \in Nat, NEW id \in Id, NEW expected \in Nat,
           NEW skew \in Nat, NEW s \in State,
           AppendStateTransition(lease, id, expected, skew, s)
    PROVE  RepoTypeOK'
<1> DEFINE status == IF s.terminal = NoTerminal THEN "running" ELSE s.terminal
<1>1. run' \in RunRow
    BY BumpedType, StatusOfState
       DEF RepoTypeOK, AppendStateTransition, RunRow, NoId
<1>2. events' \in Seq(Event)
  <2>1. InsertEvent(id, "state_transition", status, NoId, s)
      BY DEF AppendStateTransition
  <2>2. status \in RunStatus \cup RunTerminalState
      BY DEF State, OrchestrationRecord, RunStatus
  <2>3. NoId \in Nat /\ "state_transition" \in EventType
      BY DEF NoId, EventType
  <2> QED
      BY <2>1, <2>2, <2>3, InsertType
<1> QED
    BY <1>1, <1>2 DEF RepoTypeOK

LEMMA ApplyType ==
    ASSUME RepoTypeOK, NEW lease \in Nat, NEW request \in Nat, NEW id \in Id,
           NEW expected \in Nat, NEW skew \in Nat, NEW s \in State,
           ApplyCancellation(lease, request, id, expected, skew, s)
    PROVE  RepoTypeOK'
<1>1. CancelledStatus(s) \in RunStatus
    BY DEF CancelledStatus, RunStatus, TerminalStatus
<1>2. run' \in RunRow
    BY <1>1, BumpedType DEF ApplyCancellation, RunRow, NoId
<1>3. events' \in Seq(Event)
  <2>1. InsertEvent(id, "cancellation_applied", CancelledStatus(s), NoId, s)
      BY DEF ApplyCancellation
  <2>2. NoId \in Nat /\ "cancellation_applied" \in EventType
      BY DEF NoId, EventType
  <2> QED
      BY <1>1, <2>1, <2>2, InsertType
<1> QED
    BY <1>2, <1>3 DEF RepoTypeOK

LEMMA RequestType ==
    ASSUME RepoTypeOK, NEW request \in Id, RequestCancellation(request)
    PROVE  RepoTypeOK'
<1>1. run' \in RunRow
    BY BumpedType DEF RequestCancellation, RunRow, Id
<1>2. events' \in Seq(Event)
  <2>1. InsertEvent(request, "cancellation_requested", run.status, NoId, NoState)
      BY DEF RequestCancellation
  <2>2. run.status \in RunStatus
      BY DEF RepoTypeOK, RunRow
  <2>3. NoId \in Nat /\ "cancellation_requested" \in EventType
      BY DEF NoId, EventType
  <2> QED
      BY <2>1, <2>2, <2>3, InsertType
<1> QED
    BY <1>1, <1>2 DEF RepoTypeOK

LEMMA ReleaseType ==
    ASSUME RepoTypeOK, NEW lease \in Nat, NEW id \in Id, NEW expected \in Nat,
           ReleaseLease(lease, id, expected)
    PROVE  RepoTypeOK'
<1>1. run' \in RunRow
    BY BumpedType DEF ReleaseLease, RunRow, NoId
<1>2. events' \in Seq(Event)
  <2>1. InsertEvent(id, "lease_released", run.status, lease, NoState)
      BY DEF ReleaseLease
  <2>2. run.status \in RunStatus
      BY DEF RepoTypeOK, RunRow
  <2> QED
      BY <2>1, <2>2, InsertType DEF EventType
<1> QED
    BY <1>1, <1>2 DEF RepoTypeOK

LEMMA TickType == RepoTypeOK /\ Tick => RepoTypeOK'
BY DEF RepoTypeOK, Tick, RunRow

-----------------------------------------------------------------------------
(* What holds of the row and the journal between two operations.           *)

\* The counters of the row are the length of the journal, and number it.
Numbered ==
    /\ run.version = Len(events)
    /\ run.next = Len(events)
    /\ \A i \in 1..Len(events) :
          events[i].id = i /\ events[i].sequence = i - 1 /\ events[i].version = i

\* A run that is over is leased to nobody.
LeaseMeansOpen == IsTerminal(run.status) => run.lease = NoId

-----------------------------------------------------------------------------
(* The shapes of a step, as the row and the journal see it.                *)

Quiet ==
    /\ events' = events
    /\ run'.version = run.version /\ run'.next = run.next
    /\ run'.state = run.state /\ run'.status = run.status
    /\ run'.cancel = run.cancel /\ run'.lease = run.lease

Inserted(e) ==
    /\ events' = Append(events, e)
    /\ e.id = run.version + 1 /\ e.version = run.version + 1
    /\ e.sequence = run.next
    /\ run'.version = run.version + 1 /\ run'.next = run.next + 1
    /\ ~IsTerminal(run.status)
    /\ IsTerminal(run'.status) => run'.lease = NoId

\* A lease event or a cancellation request
Housekeeping(e) ==
    /\ e.state = NoState
    /\ e.type # "state_transition"
    /\ e.status \notin TerminalEventStatus
    /\ run'.state = run.state
    /\ ~IsTerminal(run'.status)
    /\ IF e.type = "cancellation_requested"
       THEN run.cancel = NoId /\ run'.cancel # NoId
       ELSE run'.cancel = run.cancel

Transition(e) ==
    /\ e.type = "state_transition"
    /\ e.state = run'.state
    /\ run'.state \in State
    /\ Progress(run.state, run'.state)
    /\ run'.cancel = run.cancel
    /\ run'.status = DurableStatusForState(run'.state)
    /\ e.status = IF run'.state.terminal = NoTerminal THEN "running"
                  ELSE run'.state.terminal

Concluded(e) ==
    /\ e.type = "cancellation_applied"
    /\ e.state = run.state
    /\ run'.state = run.state
    /\ run.cancel # NoId /\ run'.cancel = run.cancel
    /\ run'.status = CancelledStatus(run.state)

RepoStep ==
    \/ Quiet
    \/ \E e : Inserted(e) /\ (Housekeeping(e) \/ Transition(e) \/ Concluded(e))

-----------------------------------------------------------------------------
(* Every repository operation has one of the shapes.                       *)

\* A lease that is held is held of a run that is not over.
LEMMA HeldIsOpen ==
    ASSUME LeaseMeansOpen, NEW lease, lease # NoId, run.lease = lease
    PROVE  ~IsTerminal(run.status)
BY DEF LeaseMeansOpen

LEMMA OpenStatus == \A status : ~IsTerminal(status) <=> status \notin TerminalStatus
BY DEF IsTerminal

\* The status of a run that is not over does not end a journal.
LEMMA OpenRowEvent ==
    ASSUME run \in RunRow, ~IsTerminal(run.status)
    PROVE  run.status \notin TerminalEventStatus
<1>1. run.status \in {"pending", "running"}
    BY DEF RunRow, RunStatus, IsTerminal
<1> QED
    BY <1>1 DEF TerminalEventStatus, TerminalStatus, RunTerminalState

\* The event _insert_event writes, given the counters the row gets with it.
LEMMA InsertedShape ==
    ASSUME run \in RunRow, NEW id, NEW type, NEW status, NEW lease, NEW state,
           InsertEvent(id, type, status, lease, state),
           id = run.version + 1,
           run'.version = run.version + 1, run'.next = run.next + 1,
           ~IsTerminal(run.status), IsTerminal(run'.status) => run'.lease = NoId
    PROVE  \E e : /\ Inserted(e)
                  /\ e.type = type /\ e.status = status /\ e.state = state
<1> DEFINE e == [id |-> id, type |-> type, sequence |-> run.next,
                 version |-> run.version + 1, status |-> status,
                 lease |-> lease, state |-> state]
<1>1. Inserted(e)
    BY DEF InsertEvent, Inserted
<1> QED
    BY <1>1

LEMMA AcquireShape ==
    ASSUME run \in RunRow, NEW skew, NEW id, id = run.version + 1,
           AcquireLease(id, id, skew)
    PROVE  \E e : Inserted(e) /\ Housekeeping(e)
<1>1. /\ run'.version = run.version + 1 /\ run'.next = run.next + 1
      /\ run'.state = run.state /\ run'.cancel = run.cancel
      /\ run'.status = "running"
    BY DEF AcquireLease, Bumped, RunRow
<1>2. ~IsTerminal("running") /\ "running" \notin TerminalEventStatus
    BY DEF IsTerminal, TerminalStatus, TerminalEventStatus, RunTerminalState
<1>3. PICK e : /\ Inserted(e) /\ e.type = "lease_acquired"
               /\ e.status = "running" /\ e.state = NoState
  <2>1. InsertEvent(id, "lease_acquired", "running", id, NoState)
      BY DEF AcquireLease
  <2>2. ~IsTerminal(run.status)
      BY DEF AcquireLease
  <2> QED
      BY <1>1, <1>2, <2>1, <2>2, InsertedShape
<1>4. Housekeeping(e)
    BY <1>1, <1>2, <1>3 DEF Housekeeping
<1> QED
    BY <1>3, <1>4

LEMMA RenewShape ==
    ASSUME run \in RunRow, LeaseMeansOpen, NEW id, id = run.version + 1,
           NEW lease, lease # NoId, NEW expected, NEW skew,
           RenewLease(lease, id, expected, skew)
    PROVE  \E e : Inserted(e) /\ Housekeeping(e)
<1>1. /\ run'.version = run.version + 1 /\ run'.next = run.next + 1
      /\ run'.state = run.state /\ run'.cancel = run.cancel
      /\ run'.status = run.status
    BY DEF RenewLease, Bumped, RunRow
<1>2. ~IsTerminal(run.status) /\ run.status \notin TerminalEventStatus
  <2>1. ~IsTerminal(run.status)
      BY HeldIsOpen DEF RenewLease, RequireLease
  <2> QED
      BY <2>1, OpenRowEvent
<1>3. PICK e : /\ Inserted(e) /\ e.type = "lease_renewed"
               /\ e.status = run.status /\ e.state = NoState
  <2>1. InsertEvent(id, "lease_renewed", run.status, lease, NoState)
      BY DEF RenewLease
  <2> QED
      BY <1>1, <1>2, <2>1, InsertedShape
<1>4. Housekeeping(e)
    BY <1>1, <1>2, <1>3 DEF Housekeeping
<1> QED
    BY <1>3, <1>4

LEMMA ReleaseShape ==
    ASSUME run \in RunRow, LeaseMeansOpen, NEW id, id = run.version + 1,
           NEW lease, lease # NoId, NEW expected,
           ReleaseLease(lease, id, expected)
    PROVE  \E e : Inserted(e) /\ Housekeeping(e)
<1>1. /\ run'.version = run.version + 1 /\ run'.next = run.next + 1
      /\ run'.state = run.state /\ run'.cancel = run.cancel
      /\ run'.status = run.status
    BY DEF ReleaseLease, Bumped, RunRow
<1>2. ~IsTerminal(run.status) /\ run.status \notin TerminalEventStatus
  <2>1. ~IsTerminal(run.status)
      BY HeldIsOpen DEF ReleaseLease
  <2> QED
      BY <2>1, OpenRowEvent
<1>3. PICK e : /\ Inserted(e) /\ e.type = "lease_released"
               /\ e.status = run.status /\ e.state = NoState
  <2>1. InsertEvent(id, "lease_released", run.status, lease, NoState)
      BY DEF ReleaseLease
  <2> QED
      BY <1>1, <1>2, <2>1, InsertedShape
<1>4. Housekeeping(e)
    BY <1>1, <1>2, <1>3 DEF Housekeeping
<1> QED
    BY <1>3, <1>4

LEMMA RequestShape ==
    ASSUME run \in RunRow, NEW id, id = run.version + 1, RequestCancellation(id)
    PROVE  \E e : Inserted(e) /\ Housekeeping(e)
<1>1. /\ run'.version = run.version + 1 /\ run'.next = run.next + 1
      /\ run'.state = run.state /\ run'.status = run.status
      /\ run.cancel = NoId /\ run'.cancel = id
    BY DEF RequestCancellation, Bumped, RunRow
<1>2. id # NoId
    BY DEF NoId, RunRow
<1>3. ~IsTerminal(run.status) /\ run.status \notin TerminalEventStatus
  <2>1. ~IsTerminal(run.status)
      BY DEF RequestCancellation
  <2> QED
      BY <2>1, OpenRowEvent
<1>4. PICK e : /\ Inserted(e) /\ e.type = "cancellation_requested"
               /\ e.status = run.status /\ e.state = NoState
  <2>1. InsertEvent(id, "cancellation_requested", run.status, NoId, NoState)
      BY DEF RequestCancellation
  <2> QED
      BY <1>1, <1>3, <2>1, InsertedShape
<1>5. Housekeeping(e)
    BY <1>1, <1>2, <1>3, <1>4 DEF Housekeeping
<1> QED
    BY <1>4, <1>5

\* A state transition of a worker whose snapshot is current: the version check
\* is what makes the snapshot's view of cancellation and state the row's.
LEMMA AppendShape ==
    ASSUME run \in RunRow, LeaseMeansOpen, NEW id, id = run.version + 1,
           NEW lease, lease # NoId, NEW expected, NEW skew, NEW s \in State,
           AppendStateTransition(lease, id, expected, skew, s)
    PROVE  \E e : Inserted(e) /\ Transition(e)
<1> DEFINE status == IF s.terminal = NoTerminal THEN "running" ELSE s.terminal
<1>1. /\ run'.version = run.version + 1 /\ run'.next = run.next + 1
      /\ run'.state = s /\ run'.cancel = run.cancel
      /\ run'.status = DurableStatusForState(s)
      /\ run'.lease = IF s.terminal = NoTerminal THEN run.lease ELSE NoId
    BY DEF AppendStateTransition, Bumped, RunRow
<1>2. ~IsTerminal(run.status)
    BY HeldIsOpen DEF AppendStateTransition, RequireLease
<1>3. IsTerminal(run'.status) => run'.lease = NoId
  <2>1. ~IsTerminal("running")
      BY DEF IsTerminal, TerminalStatus
  <2> QED
      BY <1>1, <2>1, StatusOfState
<1>4. PICK e : /\ Inserted(e) /\ e.type = "state_transition"
               /\ e.status = status /\ e.state = s
  <2>1. InsertEvent(id, "state_transition", status, NoId, s)
      BY DEF AppendStateTransition
  <2> QED
      BY <1>1, <1>2, <1>3, <2>1, InsertedShape
<1>5. Progress(run.state, s)
    BY DEF AppendStateTransition
<1>6. Transition(e)
    BY <1>1, <1>4, <1>5 DEF Transition
<1> QED
    BY <1>4, <1>6

LEMMA ApplyShape ==
    ASSUME run \in RunRow, LeaseMeansOpen, NEW id, id = run.version + 1,
           NEW lease, lease # NoId, NEW request, request # NoId,
           NEW expected, NEW skew, NEW s, s = run.state,
           ApplyCancellation(lease, request, id, expected, skew, s)
    PROVE  \E e : Inserted(e) /\ Concluded(e)
<1>1. /\ run'.version = run.version + 1 /\ run'.next = run.next + 1
      /\ run'.state = run.state /\ run'.cancel = run.cancel /\ run.cancel # NoId
      /\ run'.status = CancelledStatus(s)
      /\ run'.lease = NoId
    BY DEF ApplyCancellation, Bumped, RunRow
<1>2. ~IsTerminal(run.status)
    BY HeldIsOpen DEF ApplyCancellation, RequireLease
<1>3. PICK e : /\ Inserted(e) /\ e.type = "cancellation_applied" /\ e.state = s
  <2>1. InsertEvent(id, "cancellation_applied", CancelledStatus(s), NoId, s)
      BY DEF ApplyCancellation
  <2> QED
      BY <1>1, <1>2, <2>1, InsertedShape
<1>4. Concluded(e)
    BY <1>1, <1>3 DEF Concluded
<1> QED
    BY <1>3, <1>4

-----------------------------------------------------------------------------
(* The shapes preserve what is said of the row and the journal.            *)

\* An append, at the positions of the old journal and at the new one.
LEMMA Appended ==
    ASSUME events \in Seq(Event), NEW e, events' = Append(events, e)
    PROVE  /\ Len(events') = Len(events) + 1 /\ Len(events) \in Nat
           /\ \A i \in 1..Len(events) : events'[i] = events[i]
           /\ events'[Len(events) + 1] = e
           /\ \A i \in 1..Len(events') : i \in 1..Len(events) \/ i = Len(events) + 1
<1> DEFINE n == Len(events)
<1>1. n \in Nat /\ Len(events') = n + 1
    OBVIOUS
<1>2. \A i \in 1..n : events'[i] = events[i]
    OBVIOUS
<1>3. events'[n + 1] = e
    OBVIOUS
<1>4. \A i \in 1..(n + 1) : i \in 1..n \/ i = n + 1
    BY <1>1
<1> QED
    BY <1>1, <1>2, <1>3, <1>4

LEMMA RepoInitInv == RepoInit => RepoTypeOK /\ Numbered /\ LeaseMeansOpen
<1> SUFFICES ASSUME RepoInit PROVE RepoTypeOK /\ Numbered /\ LeaseMeansOpen
    OBVIOUS
<1>1. run \in RunRow /\ events \in Seq(Event)
    BY InitialStateValid DEF RepoInit, RunRow, RunStatus, NoId
<1>2. events = <<>> /\ Len(events) = 0 /\ run.version = 0 /\ run.next = 0 /\ run.lease = NoId
    BY DEF RepoInit
<1> QED
    BY <1>1, <1>2 DEF RepoTypeOK, Numbered, LeaseMeansOpen

LEMMA NumberedKept ==
    ASSUME events \in Seq(Event), Numbered, RepoStep
    PROVE  Numbered'
<1>1. CASE Quiet
    BY <1>1 DEF Quiet, Numbered
<1>2. ASSUME NEW e, Inserted(e) PROVE Numbered'
  <2>1. events \in Seq(Event) /\ events' = Append(events, e)
      BY <1>2 DEF Inserted
  <2> QED
      BY <1>2, <2>1, Appended DEF Inserted, Numbered
<1> QED
    BY <1>1, <1>2 DEF RepoStep

LEMMA LeaseMeansOpenKept ==
    ASSUME LeaseMeansOpen, RepoStep
    PROVE  LeaseMeansOpen'
BY DEF LeaseMeansOpen, RepoStep, Quiet, Inserted

\* Nothing that was written is changed, and a run that is over stays as it is.
LEMMA JournalGrows ==
    ASSUME events \in Seq(Event), RepoStep
    PROVE  /\ Len(events) \in Nat /\ Len(events') \in Nat
           /\ Len(events) <= Len(events')
           /\ \A i \in 1..Len(events) : events'[i] = events[i]
           /\ IsTerminal(run.status) => events' = events /\ run'.status = run.status
           /\ run.cancel # NoId => run'.cancel # NoId
<1>1. CASE Quiet
    BY <1>1 DEF Quiet
<1>2. ASSUME NEW e, Inserted(e), Housekeeping(e) \/ Transition(e) \/ Concluded(e)
      PROVE  /\ Len(events) \in Nat /\ Len(events') \in Nat
             /\ Len(events) <= Len(events')
             /\ \A i \in 1..Len(events) : events'[i] = events[i]
             /\ ~IsTerminal(run.status)
             /\ run.cancel # NoId => run'.cancel # NoId
  <2>1. events' = Append(events, e) /\ ~IsTerminal(run.status)
      BY <1>2 DEF Inserted
  <2>2. run.cancel # NoId => run'.cancel # NoId
      BY <1>2 DEF Housekeeping, Transition, Concluded
  <2> QED
      BY <2>1, <2>2, Appended
<1> QED
    BY <1>1, <1>2 DEF RepoStep
=============================================================================
