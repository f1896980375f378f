------------------------- MODULE AnswerLineageProofs -------------------------
(***************************************************************************)
(* Theorems about AnswerLineage, for any sessions, requests, keys and      *)
(* identities: the answers to a question are one chain of versions, nobody *)
(* is refused without a reason, and a client that pages to the end has     *)
(* seen every question once.                                               *)
(*                                                                         *)
(* The chain: a request that is about to insert holds the lock on its      *)
(* question, so the version it read as the last one still is, and the plan *)
(* of its key is of another question.  The pages: rows are only added and  *)
(* keep their times, so the cursor splits the questions that were there    *)
(* into those that came and those that follow; a page is the beginning of  *)
(* what follows, by the number of rows before each.                        *)
(***************************************************************************)
EXTENDS AnswerLineage, FiniteSetTheorems, TLAPS

-----------------------------------------------------------------------------
(* The inductive invariant.                                                *)

\* The rows, what a request holds, and the sessions.
Message ==
    [chat : Chat \cup {"none"}, role : {"user", "assistant"}, at : Nat, reply : Nat,
     version : Nat, parent : Nat, public : Target \cup {NoTarget},
     run : {"none", "pending", "completed", "failed"}]

Record ==
    [op : Mutation \cup {"none"}, source : Nat, parent : Nat, version : Nat]

Holding ==
    [pc : {"idle", "turn", "load", "lock", "insert", "done"},
     outcome : {"none", "refused", "created", "replayed", "conflict"},
     chat : Chat \cup {"none"}, at : Nat, key : Key \cup {"none"},
     target : Target \cup {NoTarget}, source : Nat, op : Mutation \cup {"none"},
     parent : Nat]

ChatRow == [exists : BOOLEAN, pinned : BOOLEAN, archived : BOOLEAN, deleted : BOOLEAN]

AnswersTyped ==
    /\ chat \in [Chat -> ChatRow]
    /\ msgs \in Seq(Message)
    /\ regen \in [Key -> Record \cup {NoPlan}]
    /\ request \in [Request -> Holding]
    /\ clock \in Nat

\* A message is a question, or answers one; only a first answer has no run.
MessageSound(i) ==
    /\ msgs[i].role = "user" => msgs[i].reply = 0
    /\ msgs[i].role = "assistant" =>
          /\ msgs[i].reply \in Id /\ msgs[msgs[i].reply].role = "user"
          /\ msgs[i].version >= 1
          /\ msgs[i].run = "none" => Versions(msgs[i].reply) = {i}

\* The versions of the answer to a question.
Linear(u) ==
    /\ {msgs[i].version : i \in Versions(u)} = 1..Cardinality(Versions(u))
    /\ \A i \in Versions(u) : msgs[i].version > 1 =>
          /\ msgs[i].parent \in Versions(u)
          /\ msgs[msgs[i].parent].version = msgs[i].version - 1

Planned(k) == regen[k] # NoPlan

PlanSound(k) ==
    LET source == msgs[regen[k].source]  target == msgs[regen[k].version] IN
    Planned(k) =>
        /\ regen[k].source \in Id /\ regen[k].version \in Id
        /\ source.role = "assistant" /\ source.run = "completed"
        /\ source.reply = target.reply /\ source.version < target.version
        /\ target.parent = regen[k].parent

\* What a request may believe: its source stays completed, and under the lock on
\* the question its parent is the last version.
RequestSound(r) ==
    /\ r.outcome = "conflict" => r.key \in Key
    /\ r.pc \in {"load", "lock", "insert"} =>
          r.key \in Key /\ r.source \in Id /\ msgs[r.source].role = "assistant"
    /\ r.pc \in {"lock", "insert"} => msgs[r.source].run = "completed"
    /\ r.pc = "insert" =>
          /\ r.parent \in Versions(Question(r))
          /\ \A i \in Versions(Question(r)) : msgs[i].version <= msgs[r.parent].version
          /\ Planned(r.key) => msgs[regen[r.key].source].reply # Question(r)

HasReason(r) ==
    r.outcome = "conflict" =>
        \/ regen[r.key] # NoPlan /\ ~Same(r)
        \/ \E i \in Id :
              /\ msgs[i].public = r.target
              /\ regen[r.key] = NoPlan \/ regen[r.key].version # i

MessagesSound == \A i \in Id : MessageSound(i)
QuestionsLinear == \A u \in Id : msgs[u].role = "user" => Linear(u)
PlansSound ==
    /\ \A k \in Key : PlanSound(k)
    /\ \A j, k \in Key :
          Planned(j) /\ Planned(k) /\ regen[j].version = regen[k].version => j = k
RequestsSound == \A q \in Request : RequestSound(request[q]) /\ HasReason(request[q])
\* One request at a time holds the lock on a question.
LocksExclude ==
    \A p, q \in Request :
        /\ p # q /\ request[p].pc = "insert" /\ request[q].pc = "insert"
        => Question(request[p]) # Question(request[q])

AnswersInv ==
    /\ AnswersTyped
    /\ MessagesSound
    /\ QuestionsLinear
    /\ PlansSound
    /\ RequestsSound
    /\ LocksExclude
    /\ PinnedIsOpen

-----------------------------------------------------------------------------
(* Steps.                                                                  *)

\* What a step may do to the messages and the plans that are there.
Kept(i) ==
    /\ msgs'[i].role = msgs[i].role
    /\ msgs'[i].reply = msgs[i].reply
    /\ msgs'[i].version = msgs[i].version
    /\ msgs'[i].parent = msgs[i].parent
    /\ msgs'[i].public = msgs[i].public
    /\ msgs[i].run = "completed" => msgs'[i].run = "completed"
    /\ msgs'[i].run = "none" => msgs[i].run = "none"

PlanKept(k) ==
    /\ Planned(k) => regen'[k] = regen[k]
    /\ ~Planned(k) => regen'[k] = NoPlan \/ regen'[k].version \notin Id

Grown ==
    /\ Id \subseteq Id'
    /\ \A i \in Id : Kept(i)
    /\ \A k \in Key : PlanKept(k)

\* Questions that got no new version.
Unextended(u) == \A i \in Id' : msgs'[i].reply = u => i \in Id

\* Rows are typed.
LEMMA IdTyped ==
    ASSUME AnswersTyped, NEW i \in Id
    PROVE  msgs[i] \in Message
  BY DEF AnswersTyped, Id

\* A question that got no new version has the versions it had.
LEMMA SameVersions ==
    ASSUME Grown, NEW u, Unextended(u)
    PROVE  Versions(u)' = Versions(u)
  BY DEF Grown, Unextended, Versions, Kept

\* So its chain stays one.
LEMMA LinearKept ==
    ASSUME Grown, NEW u, Unextended(u), Linear(u)
    PROVE  Linear(u)'
  <1>1. Versions(u)' = Versions(u)
    BY SameVersions
  <1>2. \A i \in Versions(u) : i \in Id /\ msgs'[i].version = msgs[i].version
                                /\ msgs'[i].parent = msgs[i].parent
    BY DEF Grown, Kept, Versions
  <1>3. {msgs'[i].version : i \in Versions(u)} = {msgs[i].version : i \in Versions(u)}
    BY <1>2
  <1>4. {msgs'[i].version : i \in Versions(u)'} = 1..Cardinality(Versions(u)')
    BY <1>1, <1>3 DEF Linear
  <1>5. ASSUME NEW i \in Versions(u), msgs'[i].version > 1
        PROVE  /\ msgs'[i].parent \in Versions(u)
               /\ msgs'[msgs'[i].parent].version = msgs'[i].version - 1
    BY <1>2, <1>5 DEF Linear
  <1>. QED  BY <1>1, <1>4, <1>5 DEF Linear

\* And what is said of a message stays true.
LEMMA MessageKept ==
    ASSUME Grown, NEW i \in Id, MessageSound(i), NEW u, u = msgs[i].reply, Unextended(u)
    PROVE  MessageSound(i)'
  <1>1. msgs'[i].reply = u /\ i \in Id'
    BY DEF Grown, Kept
  <1>2. Versions(u)' = Versions(u)
    BY SameVersions
  <1>3. msgs[i].role = "assistant" => msgs'[u].role = "user" /\ u \in Id'
    BY DEF Grown, Kept, MessageSound
  <1>4. msgs'[i].role = "assistant" /\ msgs'[i].run = "none" => Versions(u)' = {i}
    BY <1>2 DEF Grown, Kept, MessageSound
  <1>5. /\ msgs'[i].role = msgs[i].role
        /\ msgs'[i].version = msgs[i].version
    BY DEF Grown, Kept
  <1>6. Versions(msgs[i].reply)' = Versions(u)'
    BY <1>1 DEF Versions
  <1>. QED  BY <1>1, <1>3, <1>4, <1>5, <1>6 DEF MessageSound

\* A plan stays true of the messages it names.
LEMMA PlanStays ==
    ASSUME Grown, NEW k \in Key, Planned(k), PlanSound(k)
    PROVE  PlanSound(k)'
  BY DEF Grown, PlanKept, Kept, PlanSound, Planned

\* The reason of a conflict does not go away: keys and identities stay in use.
LEMMA ReasonKept ==
    ASSUME Grown, NEW r, RequestSound(r), HasReason(r), \A k \in Key : PlanSound(k)
    PROVE  HasReason(r)'
  <1>. SUFFICES ASSUME r.outcome = "conflict" PROVE HasReason(r)'
    BY DEF HasReason
  <1>1. r.key \in Key
    BY DEF RequestSound
  <1>2. CASE regen[r.key] # NoPlan /\ ~Same(r)
    <2>1. regen'[r.key] = regen[r.key] /\ regen[r.key].version \in Id
      BY <1>1, <1>2 DEF Grown, PlanKept, Planned, PlanSound
    <2>2. msgs'[regen[r.key].version].public = msgs[regen[r.key].version].public
      BY <2>1 DEF Grown, Kept
    <2>. QED  BY <1>2, <2>1, <2>2 DEF HasReason, Same
  <1>3. CASE \E i \in Id : /\ msgs[i].public = r.target
                           /\ regen[r.key] = NoPlan \/ regen[r.key].version # i
    <2>1. PICK i \in Id : /\ msgs[i].public = r.target
                          /\ regen[r.key] = NoPlan \/ regen[r.key].version # i
      BY <1>3
    <2>2. i \in Id' /\ msgs'[i].public = r.target
      BY <2>1 DEF Grown, Kept
    <2>3. regen'[r.key] = NoPlan \/ regen'[r.key].version # i
      BY <1>1, <2>1 DEF Grown, PlanKept, Planned
    <2>. QED  BY <2>2, <2>3 DEF HasReason
  <1>. QED  BY <1>2, <1>3 DEF HasReason

\* A key that gets its plan now gets it for another question.
PlannedElsewhere(k, u) == Planned(k)' => msgs'[regen'[k].source].reply # u

\* What a request believes stays true while nobody writes to its question.
LEMMA RequestKept ==
    ASSUME Grown, NEW r, RequestSound(r), NEW u, u = Question(r),
           \A k \in Key : PlanSound(k),
           r.pc = "insert" =>
               Unextended(u) /\ (Planned(r.key) \/ PlannedElsewhere(r.key, u))
    PROVE  RequestSound(r)'
  <1>1. ASSUME r.pc \in {"load", "lock", "insert"}
        PROVE  /\ r.key \in Key /\ r.source \in Id /\ r.source \in Id'
               /\ msgs[r.source].role = "assistant"
               /\ msgs'[r.source].role = "assistant"
               /\ msgs'[r.source].reply = msgs[r.source].reply
               /\ msgs[r.source].run = "completed" => msgs'[r.source].run = "completed"
    BY <1>1 DEF Grown, Kept, RequestSound
  <1>2. ASSUME r.pc = "insert"
        PROVE  /\ r.parent \in Versions(Question(r))'
               /\ \A i \in Versions(Question(r))' : msgs'[i].version <= msgs'[r.parent].version
               /\ Planned(r.key)' => msgs'[regen'[r.key].source].reply # msgs'[r.source].reply
    <2>0. msgs[r.source].reply = u
      BY DEF Question
    <2>1. Versions(u)' = Versions(u)
      BY <1>2, <2>0, SameVersions
    <2>2. Question(r)' = u
      BY <1>1, <1>2, <2>0 DEF Question
    <2>3. Versions(Question(r))' = Versions(u)
      BY <2>1, <2>2 DEF Versions
    <2>4. \A i \in Versions(u) : i \in Id /\ msgs'[i].version = msgs[i].version
      BY DEF Grown, Kept, Versions
    <2>5. /\ r.parent \in Versions(u)
          /\ \A i \in Versions(u) : msgs[i].version <= msgs[r.parent].version
      BY <1>2 DEF RequestSound
    <2>6. ASSUME Planned(r.key)'
          PROVE  msgs'[regen'[r.key].source].reply # msgs'[r.source].reply
      <3>1. CASE Planned(r.key)
        <4>1. regen'[r.key] = regen[r.key] /\ regen[r.key].source \in Id
          BY <1>1, <1>2, <3>1 DEF Grown, PlanKept, PlanSound
        <4>2. msgs'[regen[r.key].source].reply = msgs[regen[r.key].source].reply
          BY <4>1 DEF Grown, Kept
        <4>. QED  BY <1>1, <1>2, <2>0, <3>1, <4>1, <4>2 DEF RequestSound
      <3>2. CASE PlannedElsewhere(r.key, u)
        BY <1>1, <1>2, <2>0, <2>6, <3>2 DEF PlannedElsewhere, Planned
      <3>. QED  BY <1>2, <3>1, <3>2
    <2>. QED  BY <2>3, <2>4, <2>5, <2>6
  <1>3. Question(r)' = msgs'[r.source].reply
    BY DEF Question
  <1>. QED  BY <1>1, <1>2, <1>3 DEF RequestSound

\* The request that another one's step leaves alone.
LEMMA OtherKept ==
    ASSUME AnswersInv, Grown, NEW p \in Request, request'[p] = request[p],
           request[p].pc = "insert" =>
              \A u : u = Question(request[p]) =>
                 Unextended(u) /\ (Planned(request[p].key) \/ PlannedElsewhere(request[p].key, u))
    PROVE  /\ RequestSound(request[p])' /\ HasReason(request[p])'
           /\ request[p].pc = "insert" => Question(request[p])' = Question(request[p])
  <1>1. PICK r : r = request[p]
    OBVIOUS
  <1>2. PICK u : u = Question(r)
    OBVIOUS
  <1>3. RequestSound(r) /\ HasReason(r) /\ \A k \in Key : PlanSound(k)
    BY <1>1 DEF AnswersInv, RequestsSound, PlansSound
  <1>4. r = request'[p]
    BY <1>1
  <1>5. r.pc = "insert" => Unextended(u) /\ (Planned(r.key) \/ PlannedElsewhere(r.key, u))
    BY <1>1, <1>2, <1>4 DEF Planned, PlannedElsewhere
  <1>6. RequestSound(r)'
    BY <1>2, <1>3, <1>5, RequestKept
  <1>7. HasReason(r)'
    BY <1>3, ReasonKept
  <1>8. r.pc = "insert" => msgs'[r.source].reply = msgs[r.source].reply
    BY <1>3 DEF RequestSound, Grown, Kept
  <1>. QED
    BY <1>1, <1>4, <1>6, <1>7, <1>8
       DEF RequestSound, HasReason, Question, Same, Versions, Planned, Id

\* Before the first turn.
LEMMA InitAnswers == Init => AnswersInv
  <1>. SUFFICES ASSUME Init PROVE AnswersInv
    OBVIOUS
  <1>1. msgs = <<>> /\ Id = {}
    BY DEF Init, Id
  <1>2. \A x \in Chat : chat[x] = Fresh \/ chat[x] = Absent
    BY DEF Init
  <1>3. Fresh \in ChatRow /\ Absent \in ChatRow /\ ~Fresh.pinned /\ ~Absent.pinned
    BY DEF Fresh, Absent, ChatRow
  <1>4. chat \in [Chat -> ChatRow]
    BY <1>3 DEF Init
  <1>5. Idle \in Holding
    BY DEF Idle, Holding, NoTarget
  <1>6. AnswersTyped
    BY <1>4, <1>5 DEF AnswersTyped, Init
  <1>7. \A k \in Key : ~Planned(k)
    BY DEF Init, Planned
  <1>8. \A q \in Request : request[q].pc = "idle" /\ request[q].outcome = "none"
    BY DEF Init, Idle
  <1>9. RequestsSound /\ LocksExclude
    BY <1>8 DEF RequestsSound, RequestSound, HasReason, LocksExclude
  <1>10. MessagesSound /\ QuestionsLinear /\ PlansSound
    BY <1>1, <1>7 DEF MessagesSound, QuestionsLinear, PlansSound, PlanSound
  <1>11. PinnedIsOpen
    BY <1>2, <1>3 DEF PinnedIsOpen
  <1>. QED  BY <1>6, <1>9, <1>10, <1>11 DEF AnswersInv

Reads == msgs' = msgs /\ regen' = regen

\* What is said of messages and plans depends on nothing else.
LEMMA ReadsKeep ==
    ASSUME AnswersInv, Reads
    PROVE  /\ MessagesSound' /\ QuestionsLinear' /\ PlansSound'
           /\ \A r : /\ RequestSound(r)' = RequestSound(r)
                     /\ HasReason(r)' = HasReason(r)
                     /\ Question(r)' = Question(r)
  <1>1. MessagesSound' /\ QuestionsLinear' /\ PlansSound'
    <2>1. Id' = Id /\ \A u : Versions(u)' = Versions(u)
      BY DEF Reads, Versions, Id
    <2>2. MessagesSound'
      <3>1. ASSUME NEW i \in Id PROVE MessageSound(i)'
        <4>1. Versions(msgs[i].reply)' = Versions(msgs[i].reply)
          BY DEF Reads, Versions, Id
        <4>. QED  BY <2>1, <4>1 DEF AnswersInv, Reads, MessagesSound, MessageSound
      <3>. QED  BY <2>1, <3>1 DEF MessagesSound
    <2>3. QuestionsLinear'
      <3>1. \A u : Linear(u)' = Linear(u)
        BY <2>1 DEF Reads, Linear
      <3>. QED  BY <2>1, <3>1 DEF AnswersInv, Reads, QuestionsLinear
    <2>4. PlansSound'
      BY DEF AnswersInv, Reads, PlansSound, PlanSound, Planned, Id
    <2>. QED  BY <2>2, <2>3, <2>4
  <1>2. ASSUME NEW r
        PROVE  /\ RequestSound(r)' = RequestSound(r)
               /\ HasReason(r)' = HasReason(r)
               /\ Question(r)' = Question(r)
    BY DEF Reads, RequestSound, HasReason, Question, Same, Planned, Versions, Id
  <1>. QED  BY <1>1, <1>2

\* A request that reads, and writes nothing.
LEMMA ReadingSound ==
    ASSUME AnswersInv, Reads, UNCHANGED <<chat, clock>>,
           NEW q \in Request, NEW r \in Holding,
           request' = [request EXCEPT ![q] = r],
           RequestSound(r), HasReason(r),
           r.pc = "insert" =>
               \A p \in Request \ {q} :
                  request[p].pc = "insert" => Question(request[p]) # Question(r)
    PROVE  AnswersInv'
  <1>1. AnswersTyped'
    BY DEF AnswersInv, AnswersTyped, Reads
  <1>2. PinnedIsOpen'
    BY DEF AnswersInv, PinnedIsOpen, Open
  <1>3. \A p \in Request : request'[p] = IF p = q THEN r ELSE request[p]
    BY DEF AnswersInv, AnswersTyped
  <1>4. RequestsSound'
    BY <1>3, ReadsKeep DEF AnswersInv, RequestsSound
  <1>5. LocksExclude'
    BY <1>3 DEF AnswersInv, LocksExclude, Question, Reads
  <1>. QED  BY <1>1, <1>2, <1>4, <1>5, ReadsKeep DEF AnswersInv

\* Sessions change, the clock and the pager, but no request.
LEMMA RestSound ==
    ASSUME AnswersInv, Reads, request' = request, clock' \in Nat, chat' \in [Chat -> ChatRow],
           PinnedIsOpen'
    PROVE  AnswersInv'
  <1>1. RequestsSound' /\ LocksExclude'
    BY ReadsKeep DEF AnswersInv, RequestsSound, LocksExclude, Question, Reads
  <1>2. AnswersTyped'
    BY DEF AnswersInv, AnswersTyped, Reads
  <1>. QED  BY <1>1, <1>2, ReadsKeep DEF AnswersInv

-----------------------------------------------------------------------------
(* Sessions.                                                               *)

\* patch_session and its like: an archive or a deletion takes the pin away.
LEMMA SessionStep ==
    ASSUME AnswersInv, NEW c \in Chat,
           \/ Archive(c) \/ Restore(c) \/ SoftDelete(c)
           \/ \E pin \in BOOLEAN : Patch(c, pin)
           \/ \E d \in Chat : Duplicate(c, d)
    PROVE  AnswersInv'
  <1>1. chat \in [Chat -> ChatRow] /\ PinnedIsOpen /\ clock \in Nat
    BY DEF AnswersInv, AnswersTyped
  <1>2. ASSUME NEW d \in Chat, NEW row \in ChatRow, Update(d, row),
               row.pinned => row.exists /\ ~row.deleted /\ ~row.archived
        PROVE  AnswersInv'
    <2>1. chat' = [chat EXCEPT ![d] = row] /\ Reads /\ request' = request /\ clock' = clock
      BY <1>2 DEF Update, Reads
    <2>2. PinnedIsOpen'
      BY <1>1, <1>2, <2>1 DEF PinnedIsOpen, Open
    <2>3. chat' \in [Chat -> ChatRow]
      BY <1>1, <2>1
    <2>. QED  BY <1>1, <2>1, <2>2, <2>3, RestSound
  <1>3. chat[c] \in ChatRow
    BY <1>1
  <1>4. chat[c].pinned => Open(c) /\ ~chat[c].archived
    BY <1>1 DEF PinnedIsOpen
  <1>5. CASE Archive(c)
    <2>1. [chat[c] EXCEPT !.archived = TRUE, !.pinned = FALSE] \in ChatRow
      BY <1>3 DEF ChatRow
    <2>2. ~[chat[c] EXCEPT !.archived = TRUE, !.pinned = FALSE].pinned
      BY <1>3 DEF ChatRow
    <2>. QED  BY <1>2, <1>5, <2>1, <2>2 DEF Archive
  <1>6. CASE Restore(c)
    <2>. DEFINE row == [chat[c] EXCEPT !.archived = FALSE]
    <2>1. row \in ChatRow /\ row.pinned = chat[c].pinned /\ row.exists = chat[c].exists
          /\ row.deleted = chat[c].deleted /\ ~row.archived
      BY <1>3 DEF ChatRow
    <2>2. Update(c, row)
      BY <1>6 DEF Restore
    <2>3. row.pinned => row.exists /\ ~row.deleted /\ ~row.archived
      BY <1>4, <2>1 DEF Open
    <2>. HIDE DEF row
    <2>. QED  BY <1>2, <2>1, <2>2, <2>3
  <1>7. CASE SoftDelete(c)
    <2>1. [chat[c] EXCEPT !.deleted = TRUE, !.pinned = FALSE] \in ChatRow
      BY <1>3 DEF ChatRow
    <2>2. ~[chat[c] EXCEPT !.deleted = TRUE, !.pinned = FALSE].pinned
      BY <1>3 DEF ChatRow
    <2>. QED  BY <1>2, <1>7, <2>1, <2>2 DEF SoftDelete
  <1>8. ASSUME NEW pin \in BOOLEAN, Patch(c, pin)
        PROVE  AnswersInv'
    <2>. DEFINE row == [chat[c] EXCEPT !.pinned = pin]
    <2>1. row \in ChatRow /\ row.pinned = pin /\ row.exists = chat[c].exists
          /\ row.deleted = chat[c].deleted /\ row.archived = chat[c].archived
      BY <1>3 DEF ChatRow
    <2>2. Update(c, row)
      BY <1>8 DEF Patch
    <2>3. row.pinned => row.exists /\ ~row.deleted /\ ~row.archived
      BY <1>8, <2>1 DEF Patch, Open
    <2>. HIDE DEF row
    <2>. QED  BY <1>2, <2>1, <2>2, <2>3
  <1>9. ASSUME NEW d \in Chat, Duplicate(c, d)
        PROVE  AnswersInv'
    <2>1. Fresh \in ChatRow /\ ~Fresh.pinned
      BY DEF Fresh, Absent, ChatRow
    <2>. QED  BY <1>2, <1>9, <2>1 DEF Duplicate
  <1>. QED  BY <1>5, <1>6, <1>7, <1>8, <1>9

-----------------------------------------------------------------------------
(* Requests that only read.                                                *)

\* A request that has ended.
LEMMA DoneTyped ==
    ASSUME NEW r \in Holding, NEW outcome \in {"refused", "created", "replayed", "conflict"}
    PROVE  /\ Done(r, outcome) \in Holding
           /\ Done(r, outcome).pc = "done" /\ Done(r, outcome).outcome = outcome
           /\ Done(r, outcome).key = r.key /\ Done(r, outcome).target = r.target
           /\ Done(r, outcome).source = r.source /\ Done(r, outcome).op = r.op
  BY DEF Done, Holding

\* What a request ends with needs a reason only if it is a conflict.
LEMMA EndSound ==
    ASSUME AnswersInv, Reads, UNCHANGED <<chat, clock>>, NEW q \in Request,
           NEW outcome \in {"refused", "created", "replayed", "conflict"},
           request' = [request EXCEPT ![q] = Done(request[q], outcome)],
           outcome = "conflict" =>
              /\ request[q].key \in Key
              /\ \/ regen[request[q].key] # NoPlan /\ ~Same(request[q])
                 \/ /\ regen[request[q].key] = NoPlan
                    /\ InUse(request[q].target)
    PROVE  AnswersInv'
  <1>. DEFINE d == Done(request[q], outcome)
  <1>1. request[q] \in Holding
    BY DEF AnswersInv, AnswersTyped
  <1>2. /\ d \in Holding /\ d.pc = "done" /\ d.outcome = outcome
        /\ d.key = request[q].key /\ d.target = request[q].target
        /\ d.source = request[q].source /\ d.op = request[q].op
    BY <1>1, DoneTyped
  <1>3. RequestSound(d)
    BY <1>2 DEF RequestSound
  <1>4. HasReason(d)
    <2>. HIDE DEF d
    <2>1. Same(d) = Same(request[q])
      BY <1>2 DEF Same
    <2>. QED  BY <1>2, <2>1 DEF HasReason, InUse
  <1>. HIDE DEF d
  <1>5. request' = [request EXCEPT ![q] = d]
    BY DEF d
  <1>. QED  BY <1>2, <1>3, <1>4, <1>5, ReadingSound

\* create_turn_placeholder begins: nothing is read yet.
LEMMA BeginTurnSound ==
    ASSUME AnswersInv, NEW q \in Request, NEW c \in Chat, BeginTurn(q, c)
    PROVE  AnswersInv'
  <1>. DEFINE r == [Idle EXCEPT !.pc = "turn", !.chat = c, !.at = clock]
  <1>1. r \in Holding /\ r.pc = "turn" /\ r.outcome = "none"
    BY DEF Idle, Holding, NoTarget, AnswersInv, AnswersTyped
  <1>2. Reads /\ UNCHANGED <<chat, clock>> /\ request' = [request EXCEPT ![q] = r]
    BY DEF BeginTurn, Reads, chatVars
  <1>. HIDE DEF r
  <1>3. RequestSound(r) /\ HasReason(r)
    BY <1>1 DEF RequestSound, HasReason
  <1>. QED  BY <1>1, <1>2, <1>3, ReadingSound

\* A client asks for a version of an answer it sees.
LEMMA BeginVersionSound ==
    ASSUME AnswersInv, NEW q \in Request, NEW k \in Key, NEW t \in Target, NEW i \in Id,
           NEW op \in Mutation, BeginVersion(q, k, t, i, op)
    PROVE  AnswersInv'
  <1>. DEFINE r == [Idle EXCEPT !.pc = "load", !.at = clock, !.key = k,
                                !.target = t, !.source = i, !.op = op]
  <1>1. /\ r \in Holding /\ r.pc = "load" /\ r.outcome = "none"
        /\ r.key = k /\ r.source = i
    <2>1. clock \in Nat /\ i \in Nat
      BY DEF AnswersInv, AnswersTyped, Id
    <2>. QED  BY <2>1 DEF Idle, Holding, NoTarget
  <1>2. /\ Reads /\ UNCHANGED <<chat, clock>> /\ request' = [request EXCEPT ![q] = r]
        /\ msgs[i].role = "assistant"
    BY DEF BeginVersion, Reads, chatVars
  <1>. HIDE DEF r
  <1>3. RequestSound(r) /\ HasReason(r)
    BY <1>1, <1>2 DEF RequestSound, HasReason
  <1>. QED  BY <1>1, <1>2, <1>3, ReadingSound

\* _load_source: what the unlocked reads found still holds, or has settled the request.
LEMMA LoadVersionSound ==
    ASSUME AnswersInv, NEW q \in Request, LoadVersion(q)
    PROVE  AnswersInv'
  <1>1. /\ request[q] \in Holding /\ RequestSound(request[q]) /\ HasReason(request[q])
        /\ request[q].pc = "load"
    BY DEF AnswersInv, AnswersTyped, RequestsSound, LoadVersion
  <1>2. Reads /\ UNCHANGED <<chat, clock>>
    BY DEF LoadVersion, Reads, chatVars
  <1>3. request[q].key \in Key
    BY <1>1 DEF RequestSound
  <1>4. CASE regen[request[q].key] # NoPlan
    <2>1. CASE Same(request[q])
      BY <1>2, <1>4, <2>1, EndSound DEF LoadVersion, Replayed
    <2>2. CASE ~Same(request[q])
      BY <1>2, <1>3, <1>4, <2>2, EndSound DEF LoadVersion, Replayed
    <2>. QED  BY <2>1, <2>2
  <1>5. CASE regen[request[q].key] = NoPlan /\ ~Eligible(request[q].source)
    BY <1>2, <1>5, EndSound DEF LoadVersion
  <1>6. CASE regen[request[q].key] = NoPlan /\ Eligible(request[q].source)
    <2>. DEFINE r == [request[q] EXCEPT !.pc = "lock"]
    <2>1. /\ r \in Holding /\ r.pc = "lock" /\ r.outcome = request[q].outcome
          /\ r.key = request[q].key /\ r.source = request[q].source
          /\ r.target = request[q].target /\ r.op = request[q].op
      BY <1>1 DEF Holding
    <2>2. request' = [request EXCEPT ![q] = r]
      BY <1>6 DEF LoadVersion
    <2>. HIDE DEF r
    <2>3. RequestSound(r)
      BY <1>1, <1>6, <2>1 DEF RequestSound, Eligible
    <2>4. HasReason(r)
      BY <1>1, <2>1 DEF HasReason, Same
    <2>. QED  BY <1>2, <2>1, <2>2, <2>3, <2>4, ReadingSound
  <1>. QED  BY <1>4, <1>5, <1>6

-----------------------------------------------------------------------------
(* The versions of an answer.                                              *)

\* There are finitely many.
LEMMA VersionsFinite ==
    ASSUME AnswersTyped, NEW u
    PROVE  /\ IsFiniteSet(Versions(u))
           /\ Cardinality(Versions(u)) \in Nat
           /\ Versions(u) \subseteq Id
           /\ \A i \in Versions(u) : msgs[i].version \in Nat
  <1>1. IsFiniteSet(Id)
    BY FS_Interval DEF AnswersTyped, Id
  <1>2. Versions(u) \subseteq Id
    BY DEF Versions
  <1>3. \A i \in Versions(u) : msgs[i].version \in Nat
    BY <1>2, IdTyped DEF Message
  <1>. QED  BY <1>1, <1>2, <1>3, FS_Subset, FS_CardinalityType

\* What the source of a version is an answer to.
LEMMA SourceAnswers ==
    ASSUME AnswersInv, NEW s \in Id, msgs[s].role = "assistant", NEW u, u = msgs[s].reply
    PROVE  /\ u \in Id /\ msgs[u].role = "user" /\ s \in Versions(u)
           /\ Linear(u) /\ 0 \notin Id
           /\ \A i \in Versions(u) : msgs[i].role = "assistant"
  <1>1. u \in Id /\ msgs[u].role = "user" /\ s \in Versions(u) /\ Linear(u)
    BY DEF AnswersInv, MessagesSound, MessageSound, Versions, QuestionsLinear
  <1>2. 0 \notin Id
    BY DEF AnswersInv, AnswersTyped, Id
  <1>3. ASSUME NEW i \in Versions(u) PROVE msgs[i].role = "assistant"
    <2>1. i \in Id /\ msgs[i].reply = u /\ msgs[i].role \in {"user", "assistant"}
      BY IdTyped DEF Versions, AnswersInv, Message
    <2>2. msgs[i].role # "user"
      BY <1>1, <1>2, <2>1 DEF AnswersInv, MessagesSound, MessageSound
    <2>. QED  BY <2>1, <2>2
  <1>. QED  BY <1>1, <1>2, <1>3

\* The last of them is the highest, and where one is completed all have a run.
LEMMA LastVersion ==
    ASSUME AnswersInv, NEW s \in Id, msgs[s].role = "assistant", msgs[s].run = "completed",
           NEW u, u = msgs[s].reply
    PROVE  /\ WithRun(u) = Versions(u)
           /\ Latest(u) \in Versions(u)
           /\ \A i \in Versions(u) : msgs[i].version <= msgs[Latest(u)].version
  <1>. DEFINE n == Cardinality(Versions(u))
  <1>1. s \in Versions(u) /\ {msgs[i].version : i \in Versions(u)} = 1..n
    BY SourceAnswers DEF Linear
  <1>2. n \in Nat /\ \A i \in Versions(u) : msgs[i].version \in Nat
    BY VersionsFinite DEF AnswersInv
  <1>3. msgs[s].version \in 1..n
    BY <1>1
  <1>4. n \in 1..n
    BY <1>2, <1>3
  <1>5. PICK i \in Versions(u) : msgs[i].version = n
    BY <1>1, <1>4
  <1>6. \A j \in Versions(u) : msgs[j].version <= n
    BY <1>1
  <1>7. ASSUME NEW j \in Versions(u), msgs[j].run = "none" PROVE FALSE
    <2>1. msgs[j].role = "assistant" /\ j \in Id /\ msgs[j].reply = u
      BY SourceAnswers DEF Versions
    <2>2. Versions(u) = {j}
      BY <1>7, <2>1 DEF AnswersInv, MessagesSound, MessageSound
    <2>. QED  BY <1>1, <1>7, <2>2
  <1>8. WithRun(u) = Versions(u)
    BY <1>7 DEF WithRun
  <1>9. \E j \in Versions(u) : \A m \in Versions(u) : msgs[m].version <= msgs[j].version
    BY <1>5, <1>6
  <1>10. Latest(u) = CHOOSE j \in Versions(u) :
                        \A m \in Versions(u) : msgs[m].version <= msgs[j].version
    BY <1>8 DEF Latest
  <1>. QED  BY <1>8, <1>9, <1>10

\* Under the lock on the question the latest version is the last one.
LEMMA LockVersionSound ==
    ASSUME AnswersInv, NEW q \in Request, LockVersion(q)
    PROVE  AnswersInv'
  <1>1. /\ request[q] \in Holding /\ RequestSound(request[q]) /\ HasReason(request[q])
        /\ request[q].pc = "lock"
    BY DEF AnswersInv, AnswersTyped, RequestsSound, LockVersion
  <1>2. /\ Reads /\ UNCHANGED <<chat, clock>>
        /\ request' = [request EXCEPT ![q] = Checked(request[q])]
    BY DEF LockVersion, Reads, chatVars
  <1>3. /\ request[q].key \in Key /\ request[q].source \in Id
        /\ msgs[request[q].source].role = "assistant"
        /\ msgs[request[q].source].run = "completed"
    BY <1>1 DEF RequestSound
  <1>4. CASE regen[request[q].key] # NoPlan
    <2>1. CASE Same(request[q])
      BY <1>2, <1>4, <2>1, EndSound DEF Checked, Replayed
    <2>2. CASE ~Same(request[q])
      BY <1>2, <1>3, <1>4, <2>2, EndSound DEF Checked, Replayed
    <2>. QED  BY <2>1, <2>2
  <1>5. CASE regen[request[q].key] = NoPlan /\ InUse(request[q].target)
    BY <1>2, <1>3, <1>5, EndSound DEF Checked
  <1>6. CASE regen[request[q].key] = NoPlan /\ ~InUse(request[q].target)
    <2>. DEFINE u == Question(request[q])
                r == [request[q] EXCEPT !.pc = "insert", !.parent = Latest(u)]
    <2>1. /\ Latest(u) \in Versions(u)
          /\ \A i \in Versions(u) : msgs[i].version <= msgs[Latest(u)].version
      BY <1>3, LastVersion DEF Question
    <2>2. Latest(u) \in Nat
      BY <2>1 DEF Versions, Id, AnswersInv, AnswersTyped
    <2>3. /\ r \in Holding /\ r.pc = "insert" /\ r.outcome = request[q].outcome
          /\ r.key = request[q].key /\ r.source = request[q].source
          /\ r.target = request[q].target /\ r.op = request[q].op
          /\ r.parent = Latest(u)
      BY <1>1, <2>2 DEF Holding
    <2>4. request' = [request EXCEPT ![q] = r]
      BY <1>2, <1>6 DEF Checked
    <2>. HIDE DEF r
    <2>5. Question(r) = u
      BY <2>3 DEF Question
    <2>6. RequestSound(r)
      BY <1>1, <1>3, <1>6, <2>1, <2>3, <2>5 DEF RequestSound, Planned
    <2>7. HasReason(r)
      BY <1>1, <2>3 DEF HasReason, Same
    <2>8. \A p \in Request : request[p].pc = "insert" => Question(request[p]) # u
      BY DEF LockVersion, Free
    <2>. HIDE DEF u
    <2>9. \A p \in Request \ {q} :
             request[p].pc = "insert" => Question(request[p]) # Question(r)
      BY <2>5, <2>8
    <2>. QED  BY <1>2, <2>3, <2>4, <2>6, <2>7, <2>9, ReadingSound
  <1>. QED  BY <1>4, <1>5, <1>6

-----------------------------------------------------------------------------
(* Steps that write messages.                                              *)

\* The worker's step changes the status of one run.
LEMMA RunStepSound ==
    ASSUME AnswersInv, NEW i \in Id, RunStep(i)
    PROVE  AnswersInv'
  <1>1. PICK status \in {"pending", "completed", "failed"} :
            /\ msgs' = [msgs EXCEPT ![i].run = status]
            /\ msgs[i].run = "none" \/ msgs[i].run = "pending"
    BY DEF RunStep
  <1>2. /\ UNCHANGED <<chat, regen, request, clock>>
        /\ msgs[i].role = "assistant"
    BY DEF RunStep, chatVars
  <1>3. msgs \in Seq(Message) /\ \A j \in Id : msgs[j] \in Message
    BY IdTyped DEF AnswersInv, AnswersTyped
  <1>4. /\ Len(msgs') = Len(msgs) /\ Id' = Id
        /\ \A j \in Id : msgs'[j] = IF j = i THEN [msgs[i] EXCEPT !.run = status] ELSE msgs[j]
    BY <1>1, <1>3 DEF Id
  <1>5. [msgs[i] EXCEPT !.run = status] \in Message
    BY <1>3 DEF Message
  <1>6. msgs' \in Seq(Message)
    BY <1>1, <1>3, <1>5 DEF Id
  <1>7. \A j \in Id : Kept(j)
    <2>1. ASSUME NEW j \in Id, j # i PROVE Kept(j)
      BY <1>4, <2>1 DEF Kept
    <2>2. Kept(i)
      BY <1>1, <1>3, <1>4 DEF Kept, Message
    <2>. QED  BY <2>1, <2>2
  <1>8. Grown
    BY <1>2, <1>4, <1>7 DEF Grown, PlanKept, Planned
  <1>9. \A u : Unextended(u)
    BY <1>4 DEF Unextended
  <1>10. MessagesSound'
    <2>1. ASSUME NEW j \in Id PROVE MessageSound(j)'
      <3>1. PICK u : u = msgs[j].reply
        OBVIOUS
      <3>2. MessageSound(j) /\ Unextended(u)
        BY <1>9 DEF AnswersInv, MessagesSound
      <3>. QED  BY <1>8, <3>1, <3>2, MessageKept
    <2>. QED  BY <1>4, <2>1 DEF MessagesSound
  <1>11. QuestionsLinear'
    <2>1. ASSUME NEW u \in Id, msgs'[u].role = "user" PROVE Linear(u)'
      <3>1. msgs[u].role = "user" /\ Unextended(u)
        BY <1>7, <1>9, <2>1 DEF Kept
      <3>. QED  BY <1>8, <3>1, LinearKept DEF AnswersInv, QuestionsLinear
    <2>. QED  BY <1>4, <2>1 DEF QuestionsLinear
  <1>12. PlansSound'
    <2>1. \A k \in Key : Planned(k)' = Planned(k)
      BY <1>2 DEF Planned
    <2>2. ASSUME NEW k \in Key PROVE PlanSound(k)'
      BY <1>8, <2>1, PlanStays DEF AnswersInv, PlansSound, PlanSound
    <2>. QED  BY <1>2, <2>1, <2>2 DEF AnswersInv, PlansSound
  <1>13. \A p \in Request :
            /\ RequestSound(request[p])' /\ HasReason(request[p])'
            /\ request[p].pc = "insert" => Question(request[p])' = Question(request[p])
    <2>1. ASSUME NEW p \in Request, NEW u
          PROVE  Planned(request[p].key) \/ PlannedElsewhere(request[p].key, u)
      BY <1>2 DEF Planned, PlannedElsewhere
    <2>. QED  BY <1>2, <1>8, <1>9, <2>1, OtherKept
  <1>14. RequestsSound' /\ LocksExclude'
    BY <1>2, <1>13 DEF AnswersInv, RequestsSound, LocksExclude
  <1>15. AnswersTyped' /\ PinnedIsOpen'
    BY <1>2, <1>6 DEF AnswersInv, AnswersTyped, PinnedIsOpen, Open
  <1>. QED  BY <1>10, <1>11, <1>12, <1>14, <1>15 DEF AnswersInv

\* Messages that are added at the end.
LEMMA AddedMessages ==
    ASSUME AnswersTyped, NEW added \in Seq(Message), msgs' = msgs \o added,
           \A k \in Key : PlanKept(k)
    PROVE  /\ Grown
           /\ msgs' \in Seq(Message)
           /\ Id' = 1..(Len(msgs) + Len(added))
           /\ \A i \in Id : msgs'[i] = msgs[i] /\ i \in Nat /\ i < Len(msgs) + 1
           /\ \A i \in 1..Len(added) : msgs'[Len(msgs) + i] = added[i]
           /\ Len(msgs) \in Nat
  <1>1. msgs \in Seq(Message) /\ Len(msgs) \in Nat /\ Len(added) \in Nat
    BY DEF AnswersTyped
  <1>2. /\ msgs' \in Seq(Message) /\ Len(msgs') = Len(msgs) + Len(added)
        /\ \A i \in 1..Len(msgs) : msgs'[i] = msgs[i]
        /\ \A i \in 1..Len(added) : msgs'[Len(msgs) + i] = added[i]
    BY <1>1
  <1>3. Id' = 1..(Len(msgs) + Len(added)) /\ Id \subseteq Id'
    BY <1>1, <1>2 DEF Id
  <1>4. \A i \in Id : msgs'[i] = msgs[i] /\ i \in Nat /\ i < Len(msgs) + 1
    BY <1>1, <1>2 DEF Id
  <1>5. \A i \in Id : Kept(i)
    BY <1>4 DEF Kept
  <1>. QED  BY <1>1, <1>2, <1>3, <1>4, <1>5 DEF Grown

\* A turn is a question with its first answer.
LEMMA TurnAdded ==
    ASSUME AnswersInv, NEW n, n = Len(msgs), NEW u, u = n + 1, NEW a, a = n + 2,
           NEW question \in Message, question.role = "user", question.reply = 0,
           NEW answer \in Message, answer.role = "assistant", answer.reply = u,
           answer.version = 1,
           msgs' = msgs \o <<question, answer>>, regen' = regen
    PROVE  /\ Grown /\ msgs' \in Seq(Message)
           /\ \A v \in Id : Unextended(v)
           /\ MessagesSound' /\ QuestionsLinear'
  <1>. DEFINE added == <<question, answer>>
  <1>1. added \in Seq(Message) /\ Len(added) = 2 /\ added[1] = question /\ added[2] = answer
    OBVIOUS
  <1>. HIDE DEF added
  <1>2. \A k \in Key : PlanKept(k)
    BY DEF PlanKept, Planned
  <1>3. AnswersTyped /\ msgs' = msgs \o added
    BY DEF AnswersInv, added
  <1>4. /\ Grown /\ msgs' \in Seq(Message) /\ Id' = 1..(n + 2)
        /\ \A i \in Id : msgs'[i] = msgs[i] /\ i \in Nat /\ i < n + 1
        /\ msgs'[u] = question /\ msgs'[a] = answer
        /\ n \in Nat
    <2>1. Id' = 1..(n + 2) /\ n \in Nat /\ Grown /\ msgs' \in Seq(Message)
      BY <1>1, <1>2, <1>3, AddedMessages
    <2>2. \A i \in 1..2 : msgs'[n + i] = added[i]
      BY <1>1, <1>2, <1>3, AddedMessages
    <2>3. \A i \in Id : msgs'[i] = msgs[i] /\ i \in Nat /\ i < n + 1
      BY <1>1, <1>2, <1>3, AddedMessages
    <2>4. msgs'[n + 1] = added[1] /\ msgs'[n + 2] = added[2]
      <3>1. 1 \in 1..2 /\ 2 \in 1..2
        OBVIOUS
      <3>. QED  BY <2>2, <3>1
    <2>. QED  BY <1>1, <2>1, <2>3, <2>4
  <1>5. Id' = Id \cup {u, a} /\ u # a /\ u # 0 /\ u \notin Id /\ a \notin Id /\ 0 \notin Id
    <2>1. Id = 1..n /\ n \in Nat
      BY <1>4 DEF Id
    <2>2. 1..(n + 2) = 1..n \cup {n + 1, n + 2}
      BY <2>1
    <2>3. u # a /\ u # 0 /\ u \notin 1..n /\ a \notin 1..n /\ 0 \notin 1..n
      BY <2>1
    <2>4. Id' = 1..(n + 2)
      BY <1>4
    <2>5. Id' = Id \cup {u, a}
      BY <2>1, <2>2, <2>4
    <2>6. u \notin Id /\ a \notin Id /\ 0 \notin Id
      BY <2>1, <2>3
    <2>7. u # a /\ u # 0
      BY <2>3
    <2>. QED  BY ONLY <2>5, <2>6, <2>7
  <1>6. \A v \in Id : Unextended(v)
    <2>1. msgs'[u].reply \notin Id /\ msgs'[a].reply \notin Id
      BY <1>4, <1>5
    <2>. QED  BY <1>5, <2>1 DEF Unextended
  <1>7. \A i \in Id : msgs[i].reply # u
    <2>1. ASSUME NEW i \in Id PROVE msgs[i].reply \in Id \cup {0}
      BY <1>3, IdTyped DEF Message, AnswersInv, MessagesSound, MessageSound
    <2>. QED  BY <1>5, <2>1
  <1>8. Versions(u)' = {a}
    <2>1. \A i \in Id' : msgs'[i].reply = u <=> i = a
      BY <1>4, <1>5, <1>7
    <2>. QED  BY <1>5, <2>1 DEF Versions
  <1>9. ASSUME NEW i \in Id PROVE MessageSound(i)'
    <2>1. PICK v : v = msgs[i].reply
      OBVIOUS
    <2>2. MessageSound(i) /\ msgs'[i] = msgs[i]
      BY <1>4 DEF AnswersInv, MessagesSound
    <2>3. CASE msgs[i].role = "user"
      BY <2>2, <2>3 DEF MessageSound
    <2>4. CASE msgs[i].role = "assistant"
      <3>1. Unextended(v)
        BY <1>6, <2>1, <2>2, <2>4 DEF MessageSound
      <3>. QED  BY <1>4, <2>1, <2>2, <3>1, MessageKept
    <2>. QED  BY <1>3, <2>3, <2>4, IdTyped DEF Message
  <1>10. MessageSound(u)'
    BY <1>4 DEF MessageSound
  <1>11. MessageSound(a)'
    <2>1. Versions(msgs[a].reply)' = Versions(u)'
      BY <1>4 DEF Versions
    <2>. QED  BY <1>4, <1>5, <1>8, <2>1 DEF MessageSound
  <1>12. MessagesSound'
    BY <1>5, <1>9, <1>10, <1>11 DEF MessagesSound
  <1>13. ASSUME NEW v \in Id, msgs'[v].role = "user" PROVE Linear(v)'
    BY <1>4, <1>6, <1>13, LinearKept DEF AnswersInv, QuestionsLinear
  <1>14. Linear(u)'
    <2>0. 1..1 = {1}
      OBVIOUS
    <2>1. Cardinality({a}) = 1 /\ 1..Cardinality({a}) = {1}
      BY <2>0, FS_Singleton
    <2>2. {msgs'[i].version : i \in {a}} = {1} /\ \A i \in {a} : ~(msgs'[i].version > 1)
      BY <1>4
    <2>. QED  BY <1>8, <2>1, <2>2 DEF Linear
  <1>15. QuestionsLinear'
    BY <1>4, <1>5, <1>13, <1>14 DEF QuestionsLinear
  <1>. QED  BY <1>4, <1>6, <1>12, <1>15

\* create_turn_placeholder, refused or done.
LEMMA PlaceTurnSound ==
    ASSUME AnswersInv, NEW q \in Request, PlaceTurn(q)
    PROVE  AnswersInv'
  <1>. DEFINE c == request[q].chat
              at == request[q].at
              d == Done(request[q], "created")
  <1>1. /\ UNCHANGED <<chat, regen, clock>> /\ request[q] \in Holding
        /\ AnswersTyped
    BY DEF PlaceTurn, chatVars, AnswersInv, AnswersTyped
  <1>2. CASE msgs' = msgs /\ request' = [request EXCEPT ![q] = Done(request[q], "refused")]
    BY <1>1, <1>2, EndSound DEF Reads
  <1>3. CASE /\ msgs' = msgs \o <<UserMessage(c, at),
                                  Answer(c, at, Len(msgs) + 1, 1, 0, NoTarget, "none")>>
             /\ request' = [request EXCEPT ![q] = d]
    <2>1. PICK n : n = Len(msgs)
      OBVIOUS
    <2>2. c \in Chat \cup {"none"} /\ at \in Nat /\ n \in Nat
      BY <1>1, <2>1 DEF Holding, AnswersTyped
    <2>3. PICK question : question = UserMessage(c, at)
      OBVIOUS
    <2>4. PICK answer : answer = Answer(c, at, n + 1, 1, 0, NoTarget, "none")
      OBVIOUS
    <2>5. question \in Message /\ question.role = "user" /\ question.reply = 0
      BY <2>2, <2>3 DEF UserMessage, Message, NoTarget
    <2>6. /\ answer \in Message /\ answer.role = "assistant" /\ answer.reply = n + 1
          /\ answer.version = 1
      BY <2>2, <2>4 DEF Answer, Message, NoTarget
    <2>7. msgs' = msgs \o <<question, answer>>
      BY <1>3, <2>1, <2>3, <2>4
    <2>8. /\ Grown /\ msgs' \in Seq(Message)
          /\ \A v \in Id : Unextended(v)
          /\ MessagesSound' /\ QuestionsLinear'
      BY <1>1, <2>1, <2>5, <2>6, <2>7, TurnAdded
    <2>. HIDE DEF c, at
    <2>9. PlansSound'
      <3>1. \A k \in Key : Planned(k)' = Planned(k)
        BY <1>1 DEF Planned
      <3>2. ASSUME NEW k \in Key PROVE PlanSound(k)'
        BY <2>8, <3>1, PlanStays DEF AnswersInv, PlansSound, PlanSound
      <3>. QED  BY <1>1, <3>1, <3>2 DEF AnswersInv, PlansSound
    <2>10. /\ d \in Holding /\ d.pc = "done" /\ d.outcome = "created"
      BY <1>1, DoneTyped
    <2>. HIDE DEF d
    <2>11. \A p \in Request : request'[p] = IF p = q THEN d ELSE request[p]
      BY <1>1, <1>3 DEF AnswersTyped
    <2>12. ASSUME NEW p \in Request, p # q
           PROVE  /\ RequestSound(request[p])' /\ HasReason(request[p])'
                  /\ request[p].pc = "insert" =>
                        Question(request[p])' = Question(request[p])
      <3>1. request'[p] = request[p]
        BY <2>11, <2>12
      <3>2. ASSUME NEW u, u = Question(request[p]), request[p].pc = "insert"
            PROVE  Unextended(u) /\ (Planned(request[p].key) \/ PlannedElsewhere(request[p].key, u))
        <4>1. request[p].source \in Id /\ msgs[request[p].source].role = "assistant"
          BY <3>2 DEF AnswersInv, RequestsSound, RequestSound
        <4>2. u \in Id
          BY <3>2, <4>1, SourceAnswers DEF Question
        <4>. QED  BY <1>1, <2>8, <3>1, <4>2 DEF Planned, PlannedElsewhere
      <3>. QED  BY <2>8, <3>1, <3>2, OtherKept
    <2>13. RequestsSound'
      <3>1. ASSUME NEW p \in Request PROVE RequestSound(request[p])' /\ HasReason(request[p])'
        <4>1. CASE p = q
          BY <2>10, <2>11, <4>1 DEF RequestSound, HasReason
        <4>. QED  BY <2>12, <4>1
      <3>. QED  BY <3>1 DEF RequestsSound
    <2>14. LocksExclude'
      BY <2>10, <2>11, <2>12 DEF AnswersInv, LocksExclude
    <2>15. AnswersTyped' /\ PinnedIsOpen'
      BY <1>1, <1>3, <2>8, <2>10 DEF AnswersInv, AnswersTyped, PinnedIsOpen, Open
    <2>. QED  BY <2>8, <2>9, <2>13, <2>14, <2>15 DEF AnswersInv
  <1>. QED  BY <1>2, <1>3 DEF PlaceTurn

\* A version is added after the last one.
LEMMA VersionAdded ==
    ASSUME AnswersInv, NEW x, x = Len(msgs) + 1,
           NEW s \in Id, msgs[s].role = "assistant", msgs[s].run = "completed",
           NEW u, u = msgs[s].reply,
           NEW parent \in Versions(u),
           \A i \in Versions(u) : msgs[i].version <= msgs[parent].version,
           NEW row \in Message, row.role = "assistant", row.reply = u,
           row.version = msgs[parent].version + 1, row.parent = parent, row.run = "pending",
           msgs' = Append(msgs, row), \A k \in Key : PlanKept(k)
    PROVE  /\ Grown /\ msgs' \in Seq(Message)
           /\ x \in Id' /\ x \notin Id /\ msgs'[x] = row
           /\ \A v : v # u => Unextended(v)
           /\ MessagesSound' /\ QuestionsLinear'
  <1>1. msgs' = msgs \o <<row>> /\ <<row>> \in Seq(Message) /\ Len(<<row>>) = 1
    BY DEF AnswersInv, AnswersTyped
  <1>2. AnswersTyped
    BY DEF AnswersInv
  <1>3. /\ Grown /\ msgs' \in Seq(Message)
        /\ \A i \in Id : msgs'[i] = msgs[i]
    BY <1>1, <1>2, AddedMessages
  <1>4. msgs'[x] = row
    BY <1>2 DEF AnswersTyped
  <1>5. Id' = Id \cup {x} /\ x \notin Id
    <2>1. Len(msgs) \in Nat /\ Len(msgs') = Len(msgs) + 1
      BY <1>2 DEF AnswersTyped
    <2>2. 1..(Len(msgs) + 1) = 1..Len(msgs) \cup {x} /\ x \notin 1..Len(msgs)
      BY <2>1
    <2>. QED  BY <2>1, <2>2 DEF Id
  <1>6. \A v : v # u => Unextended(v)
    BY <1>4, <1>5 DEF Unextended
  <1>7. /\ u \in Id /\ msgs[u].role = "user" /\ Linear(u)
        /\ \A i \in Versions(u) : msgs[i].role = "assistant"
    BY SourceAnswers
  <1>8. \A i \in Versions(u) : msgs[i].run # "none"
    BY LastVersion DEF WithRun
  <1>9. Versions(u)' = Versions(u) \cup {x}
    BY <1>3, <1>4, <1>5 DEF Versions
  <1>10. ASSUME NEW i \in Id PROVE MessageSound(i)'
    <2>1. PICK v : v = msgs[i].reply
      OBVIOUS
    <2>2. MessageSound(i) /\ msgs'[i] = msgs[i]
      BY <1>3 DEF AnswersInv, MessagesSound
    <2>3. CASE v = u
      <3>1. msgs[i].run # "none" /\ msgs[i].role = "assistant"
        BY <1>7, <1>8, <2>1, <2>3 DEF Versions
      <3>. QED  BY <1>3, <1>5, <1>7, <2>1, <2>2, <2>3, <3>1 DEF MessageSound
    <2>4. CASE v # u
      BY <1>3, <1>6, <2>1, <2>2, <2>4, MessageKept
    <2>. QED  BY <2>3, <2>4
  <1>11. MessageSound(x)'
    <2>1. msgs[parent].version \in Nat
      BY <1>2, VersionsFinite
    <2>2. /\ msgs'[x].role = "assistant" /\ msgs'[x].reply = u
          /\ msgs'[x].version >= 1 /\ msgs'[x].run = "pending"
      BY <1>4, <2>1
    <2>3. u \in Id' /\ msgs'[u].role = "user"
      BY <1>3, <1>5, <1>7
    <2>. QED  BY <2>2, <2>3 DEF MessageSound
  <1>12. MessagesSound'
    BY <1>5, <1>10, <1>11 DEF MessagesSound
  <1>13. Linear(u)'
    <2>. DEFINE n == Cardinality(Versions(u))
    <2>1. PICK m : m = n
      OBVIOUS
    <2>2. m \in Nat /\ IsFiniteSet(Versions(u)) /\ Versions(u) \subseteq Id
      BY <1>2, <2>1, VersionsFinite
    <2>3. {msgs[i].version : i \in Versions(u)} = 1..m
      BY <1>7, <2>1 DEF Linear
    <2>4. msgs[parent].version = m
      <3>1. msgs[parent].version \in 1..m
        BY <2>3
      <3>2. m \in 1..m
        BY <2>2, <3>1
      <3>3. PICK i \in Versions(u) : msgs[i].version = m
        BY <2>3, <3>2
      <3>. QED  BY <2>2, <3>1, <3>3
    <2>5. Cardinality(Versions(u) \cup {x}) = m + 1
      BY <1>5, <2>1, <2>2, FS_AddElement
    <2>6. \A i \in Versions(u) : msgs'[i] = msgs[i]
      BY <1>3, <2>2
    <2>7. {msgs'[i].version : i \in Versions(u)} = 1..m
      BY <2>3, <2>6
    <2>8. {msgs'[i].version : i \in Versions(u) \cup {x}} = 1..m \cup {m + 1}
      <3>1. msgs'[x].version = m + 1
        BY <1>4, <2>4
      <3>2. {msgs'[i].version : i \in Versions(u) \cup {x}}
              = {msgs'[i].version : i \in Versions(u)} \cup {msgs'[x].version}
        OBVIOUS
      <3>. QED  BY <2>7, <3>1, <3>2
    <2>9. 1..m \cup {m + 1} = 1..(m + 1)
      BY <2>2
    <2>10. ASSUME NEW i \in Versions(u), msgs'[i].version > 1
           PROVE  /\ msgs'[i].parent \in Versions(u)
                  /\ msgs'[msgs'[i].parent].version = msgs'[i].version - 1
      <3>1. msgs'[i] = msgs[i]
        BY <2>6
      <3>2. /\ msgs[i].parent \in Versions(u)
            /\ msgs[msgs[i].parent].version = msgs[i].version - 1
        BY <1>7, <2>10, <3>1 DEF Linear
      <3>. QED  BY <2>6, <3>1, <3>2
    <2>11. /\ msgs'[x].parent \in Versions(u)
           /\ msgs'[msgs'[x].parent].version = msgs'[x].version - 1
      <3>1. msgs'[x].parent = parent /\ msgs'[x].version = m + 1
        BY <1>4, <2>4
      <3>2. msgs'[parent].version = m
        BY <2>4, <2>6
      <3>. QED  BY <2>2, <3>1, <3>2
    <2>. HIDE DEF n
    <2>. QED  BY <1>9, <2>5, <2>8, <2>9, <2>10, <2>11 DEF Linear
  <1>14. ASSUME NEW v \in Id, msgs'[v].role = "user" PROVE Linear(v)'
    <2>1. CASE v = u
      BY <1>13, <2>1
    <2>2. CASE v # u
      BY <1>3, <1>6, <1>14, <2>2, LinearKept DEF AnswersInv, QuestionsLinear
    <2>. QED  BY <2>1, <2>2
  <1>15. QuestionsLinear'
    BY <1>4, <1>5, <1>14 DEF QuestionsLinear
  <1>. QED  BY <1>3, <1>4, <1>5, <1>6, <1>12, <1>15

\* The keys of the tables are violated only where another request was first.
LEMMA RefusedInsert ==
    ASSUME AnswersInv, NEW q \in Request, InsertVersion(q),
           Violates(request[q], msgs[request[q].parent].version + 1)
    PROVE  AnswersInv'
  <1>. DEFINE r == request[q]
  <1>1. /\ r \in Holding /\ RequestSound(r) /\ r.pc = "insert"
    BY DEF AnswersInv, AnswersTyped, RequestsSound, InsertVersion
  <1>2. /\ Reads /\ UNCHANGED <<chat, clock>>
        /\ request' = [request EXCEPT ![q] = Done(r, "conflict")]
    BY DEF InsertVersion, Reads, chatVars
  <1>3. \A i \in Versions(Question(r)) : msgs[i].version # msgs[r.parent].version + 1
    <2>1. \A i \in Versions(Question(r)) :
             msgs[i].version \in Nat /\ msgs[i].version <= msgs[r.parent].version
      BY <1>1, VersionsFinite DEF RequestSound, AnswersInv
    <2>2. r.parent \in Versions(Question(r))
      BY <1>1 DEF RequestSound
    <2>. QED  BY <2>1, <2>2
  <1>4. InUse(r.target) \/ regen[r.key] # NoPlan
    BY <1>3 DEF Violates
  <1>5. regen[r.key] # NoPlan => ~Same(r)
    BY <1>1 DEF RequestSound, Same, Planned, Question
  <1>6. r.key \in Key
    BY <1>1 DEF RequestSound
  <1>. QED  BY <1>2, <1>4, <1>5, <1>6, EndSound

\* The new version continues the chain, its key gets its plan, and requests that
\* hold the locks of other questions are not concerned.
LEMMA CreatedVersion ==
    ASSUME AnswersInv, NEW q \in Request, InsertVersion(q),
           ~Violates(request[q], msgs[request[q].parent].version + 1)
    PROVE  AnswersInv'
  <1>. DEFINE r == request[q]
              d == Done(r, "created")
  <1>1. PICK u : u = Question(r)
    OBVIOUS
  <1>2. /\ r \in Holding /\ RequestSound(r) /\ r.pc = "insert" /\ AnswersTyped
    BY DEF AnswersInv, AnswersTyped, RequestsSound, InsertVersion
  <1>3. PICK s, parent, key : s = r.source /\ parent = r.parent /\ key = r.key
    OBVIOUS
  <1>4. /\ key \in Key /\ s \in Id /\ msgs[s].role = "assistant"
        /\ msgs[s].run = "completed" /\ u = msgs[s].reply
        /\ parent \in Versions(u)
        /\ \A i \in Versions(u) : msgs[i].version <= msgs[parent].version
    BY <1>1, <1>2, <1>3 DEF RequestSound, Question
  <1>5. PICK row : row = Answer(msgs[s].chat, r.at, u, msgs[parent].version + 1, parent,
                                r.target, "pending")
    OBVIOUS
  <1>6. PICK x : x = Len(msgs) + 1
    OBVIOUS
  <1>7. PICK plan : plan = [op |-> r.op, source |-> s, parent |-> parent, version |-> x]
    OBVIOUS
  <1>8. /\ UNCHANGED <<chat, clock>>
        /\ msgs' = Append(msgs, row)
        /\ regen' = [regen EXCEPT ![key] = plan]
        /\ request' = [request EXCEPT ![q] = d]
    BY <1>1, <1>3, <1>5, <1>6, <1>7 DEF InsertVersion, chatVars
  <1>9. regen[key] = NoPlan
    BY <1>3 DEF Violates
  <1>10. msgs[parent] \in Message /\ msgs[s] \in Message /\ parent \in Nat /\ s \in Nat
         /\ u \in Nat /\ x \in Nat
    <2>1. parent \in Id
      BY <1>4 DEF Versions
    <2>2. msgs[parent] \in Message /\ msgs[s] \in Message
      BY <1>2, <1>4, <2>1, IdTyped
    <2>3. parent \in Nat /\ s \in Nat /\ x \in Nat
      BY <1>2, <1>4, <1>6, <2>1 DEF Id, AnswersTyped
    <2>. QED  BY <1>4, <2>2, <2>3 DEF Message
  <1>11. /\ row \in Message /\ row.role = "assistant" /\ row.reply = u
         /\ row.version = msgs[parent].version + 1 /\ row.parent = parent
         /\ row.run = "pending"
    BY <1>2, <1>5, <1>10 DEF Answer, Message, Holding
  <1>12. /\ plan \in Record /\ plan # NoPlan
         /\ plan.source = s /\ plan.version = x /\ plan.parent = parent
    <2>1. plan \in Record
      BY <1>2, <1>7, <1>10 DEF Record, Holding
    <2>2. "source" \in DOMAIN plan /\ DOMAIN NoPlan = {"op"}
      BY <1>7 DEF NoPlan
    <2>. QED  BY <1>7, <2>1, <2>2
  <1>13. \A k \in Key : regen'[k] = IF k = key THEN plan ELSE regen[k]
    BY <1>2, <1>4, <1>8 DEF AnswersTyped
  <1>14. x \notin Id
    BY <1>2, <1>6 DEF Id, AnswersTyped
  <1>15. \A k \in Key : PlanKept(k)
    BY <1>9, <1>12, <1>13, <1>14 DEF PlanKept, Planned
  <1>16. /\ Grown /\ msgs' \in Seq(Message)
         /\ x \in Id' /\ x \notin Id /\ msgs'[x] = row
         /\ \A v : v # u => Unextended(v)
         /\ MessagesSound' /\ QuestionsLinear'
    BY <1>4, <1>6, <1>8, <1>11, <1>15, VersionAdded
  <1>17. PlansSound'
    <2>1. PlanSound(key)'
      <3>1. /\ msgs'[s].role = "assistant" /\ msgs'[s].run = "completed"
            /\ msgs'[s].reply = u /\ msgs'[s].version = msgs[s].version /\ s \in Id'
        BY <1>4, <1>16 DEF Grown, Kept
      <3>2. msgs[s].version <= msgs[parent].version
        BY <1>4 DEF Versions
      <3>3. msgs[s].version < row.version
        BY <1>10, <1>11, <3>2 DEF Message
      <3>4. regen'[key] = plan
        BY <1>4, <1>13
      <3>. QED  BY <1>11, <1>12, <1>16, <3>1, <3>3, <3>4 DEF PlanSound
    <2>2. ASSUME NEW k \in Key, k # key
          PROVE  /\ Planned(k)' = Planned(k) /\ PlanSound(k)'
                 /\ Planned(k) => regen'[k].version \in Id
      <3>1. regen'[k] = regen[k]
        BY <1>13, <2>2
      <3>2. CASE Planned(k)
        BY <1>16, <3>1, <3>2, PlanStays DEF AnswersInv, PlansSound, PlanSound, Planned
      <3>3. CASE ~Planned(k)
        BY <3>1, <3>3 DEF PlanSound, Planned
      <3>. QED  BY <3>1, <3>2, <3>3 DEF Planned
    <2>3. regen'[key].version = x
      BY <1>4, <1>12, <1>13
    <2>4. ASSUME NEW j \in Key, NEW k \in Key, Planned(j)', Planned(k)',
                 regen'[j].version = regen'[k].version
          PROVE  j = k
      <3>1. CASE j # key /\ k # key
        <4>1. regen'[j] = regen[j] /\ regen'[k] = regen[k] /\ Planned(j) /\ Planned(k)
          BY <1>13, <2>2, <2>4, <3>1
        <4>. QED  BY <2>4, <4>1 DEF AnswersInv, PlansSound
      <3>. QED  BY <1>16, <2>2, <2>3, <2>4, <3>1
    <2>. QED  BY <2>1, <2>2, <2>4 DEF PlansSound
  <1>18. /\ d \in Holding /\ d.pc = "done" /\ d.outcome = "created"
    BY <1>2, DoneTyped
  <1>. HIDE DEF d
  <1>19. \A p \in Request : request'[p] = IF p = q THEN d ELSE request[p]
    BY <1>2, <1>8 DEF AnswersTyped
  <1>20. ASSUME NEW p \in Request, p # q
         PROVE  /\ RequestSound(request[p])' /\ HasReason(request[p])'
                /\ request[p].pc = "insert" =>
                      Question(request[p])' = Question(request[p])
    <2>1. request'[p] = request[p]
      BY <1>19, <1>20
    <2>2. ASSUME NEW v, v = Question(request[p]), request[p].pc = "insert"
          PROVE  Unextended(v) /\ (Planned(request[p].key) \/ PlannedElsewhere(request[p].key, v))
      <3>1. v # u
        BY <1>1, <1>2, <1>20, <2>2 DEF AnswersInv, LocksExclude
      <3>2. PICK k \in Key : k = request[p].key
        BY <2>2 DEF AnswersInv, RequestsSound, RequestSound
      <3>3. Planned(k) \/ PlannedElsewhere(k, v)
        <4>1. CASE k = key
          <5>1. msgs'[regen'[k].source].reply = u
            BY <1>4, <1>12, <1>13, <1>16, <4>1 DEF Grown, Kept
          <5>. QED  BY <3>1, <5>1 DEF PlannedElsewhere
        <4>2. CASE k # key
          BY <1>13, <4>2 DEF Planned, PlannedElsewhere
        <4>. QED  BY <4>1, <4>2
      <3>4. k = request'[p].key
        BY <2>1, <3>2
      <3>5. PlannedElsewhere(k, v) => PlannedElsewhere(request[p].key, v)
        BY <2>1, <3>2 DEF PlannedElsewhere, Planned
      <3>. QED  BY <1>16, <3>1, <3>2, <3>3, <3>5
    <2>. QED  BY <1>16, <2>1, <2>2, OtherKept
  <1>21. RequestsSound'
    <2>1. ASSUME NEW p \in Request PROVE RequestSound(request[p])' /\ HasReason(request[p])'
      <3>1. CASE p = q
        BY <1>18, <1>19, <3>1 DEF RequestSound, HasReason
      <3>. QED  BY <1>20, <3>1
    <2>. QED  BY <2>1 DEF RequestsSound
  <1>22. LocksExclude'
    BY <1>18, <1>19, <1>20 DEF AnswersInv, LocksExclude
  <1>23. AnswersTyped' /\ PinnedIsOpen'
    BY <1>2, <1>8, <1>12, <1>16, <1>18 DEF AnswersInv, AnswersTyped, PinnedIsOpen, Open
  <1>. QED  BY <1>16, <1>17, <1>21, <1>22, <1>23 DEF AnswersInv

-----------------------------------------------------------------------------
\* Every step keeps the invariant.
LEMMA NextAnswers ==
    ASSUME AnswersInv, [Next]_vars
    PROVE  AnswersInv'
  <1>1. ASSUME Reads, request' = request, chat' = chat, clock' \in Nat
        PROVE  AnswersInv'
    BY <1>1, RestSound DEF AnswersInv, AnswersTyped, PinnedIsOpen, Open
  <1>2. clock \in Nat
    BY DEF AnswersInv, AnswersTyped
  <1>3. CASE UNCHANGED vars
    BY <1>1, <1>2, <1>3 DEF vars, Reads
  <1>4. CASE Tick \/ ReadPage \/ ClosePager
    BY <1>1, <1>2, <1>4 DEF Tick, ReadPage, ClosePager, chatVars, Reads
  <1>5. ASSUME NEW c \in Chat,
               \/ Archive(c) \/ Restore(c) \/ SoftDelete(c)
               \/ \E pin \in BOOLEAN : Patch(c, pin)
               \/ \E d \in Chat : Duplicate(c, d)
        PROVE  AnswersInv'
    BY <1>5, SessionStep
  <1>6. ASSUME NEW c \in Chat, NEW export \in BOOLEAN, OpenPager(c, export)
        PROVE  AnswersInv'
    BY <1>1, <1>2, <1>6 DEF OpenPager, chatVars, Reads
  <1>7. ASSUME NEW c \in Chat, NEW q \in Request, BeginTurn(q, c)
        PROVE  AnswersInv'
    BY <1>7, BeginTurnSound
  <1>8. ASSUME NEW i \in Id, RunStep(i)
        PROVE  AnswersInv'
    BY <1>8, RunStepSound
  <1>9. ASSUME NEW q \in Request, PlaceTurn(q) \/ LoadVersion(q) \/ LockVersion(q)
        PROVE  AnswersInv'
    BY <1>9, PlaceTurnSound, LoadVersionSound, LockVersionSound
  <1>10. ASSUME NEW q \in Request, InsertVersion(q)
         PROVE  AnswersInv'
    BY <1>10, RefusedInsert, CreatedVersion
  <1>11. ASSUME NEW q \in Request, NEW k \in Key, NEW t \in Target, NEW i \in Id,
                NEW op \in Mutation, BeginVersion(q, k, t, i, op)
         PROVE  AnswersInv'
    BY <1>11, BeginVersionSound
  <1>. QED
    BY <1>3, <1>4, <1>5, <1>6, <1>7, <1>8, <1>9, <1>10, <1>11 DEF Next

\* What the invariant says is what is to be shown.
LEMMA InvLinear == AnswersInv => AnswersAreLinear
  <1>. SUFFICES ASSUME AnswersInv PROVE AnswersAreLinear
    OBVIOUS
  <1>1. LineageIsLinear
    BY DEF AnswersInv, QuestionsLinear, Linear, PlansSound, PlanSound, Planned,
           LineageIsLinear
  <1>2. ConflictHasReason
    BY DEF AnswersInv, RequestsSound, HasReason, ConflictHasReason
  <1>. QED  BY <1>1, <1>2 DEF AnswersAreLinear, AnswersInv

\* However many clients regenerate and refresh, in whichever order their requests
\* read, lock and insert (regeneration.py, _load_source to the unique keys of
\* chat_messages and ask_response_regenerations): the answers to a question are
\* versions 1 to n, each made from the one before it, a conflict has a reason, and
\* only an open session that is not archived is pinned.
THEOREM Answered == Spec => []AnswersAreLinear
  <1>. QED  BY InitAnswers, NextAnswers, InvLinear, PTL DEF Spec

-----------------------------------------------------------------------------
(* Pages.                                                                  *)

\* A client that pages.
Paging ==
    [pc : {"open", "read"}, chat : Chat, snapshot : Seq(Message), export : BOOLEAN,
     cursor : [at : Nat, id : Nat] \cup {Closed}, got : Seq(Nat), base : SUBSET Nat]

\* The messages that were there stay, with their times.
RowsKept ==
    /\ msgs' \in Seq(Message) /\ Len(msgs) <= Len(msgs')
    /\ \A i \in Id : /\ msgs'[i].at = msgs[i].at
                     /\ msgs'[i].chat = msgs[i].chat
                     /\ msgs'[i].role = msgs[i].role

\* No step removes a message or changes its time.
LEMMA RowsStay ==
    ASSUME AnswersInv, AnswersInv', [Next]_vars
    PROVE  RowsKept
  <1>1. msgs \in Seq(Message) /\ msgs' \in Seq(Message)
    BY DEF AnswersInv, AnswersTyped
  <1>2. CASE msgs' = msgs
    BY <1>1, <1>2 DEF RowsKept
  <1>3. ASSUME NEW row, msgs' = Append(msgs, row) PROVE RowsKept
    BY <1>1, <1>3 DEF RowsKept, Id
  <1>4. ASSUME NEW question, NEW answer, msgs' = msgs \o <<question, answer>> PROVE RowsKept
    <2>1. /\ Len(<<question, answer>>) = 2 /\ Len(msgs') = Len(msgs) + 2
          /\ \A i \in 1..Len(msgs) : msgs'[i] = msgs[i]
      BY <1>1, <1>4
    <2>. QED  BY <1>1, <2>1 DEF RowsKept, Id
  <1>5. ASSUME NEW i \in Id, NEW status, msgs' = [msgs EXCEPT ![i].run = status] PROVE RowsKept
    <2>1. Len(msgs') = Len(msgs) /\ msgs[i] \in Message
      BY <1>1, <1>5 DEF Id
    <2>2. \A j \in Id : msgs'[j] = IF j = i THEN [msgs[i] EXCEPT !.run = status] ELSE msgs[j]
      BY <1>1, <1>5 DEF Id
    <2>3. /\ [msgs[i] EXCEPT !.run = status].at = msgs[i].at
          /\ [msgs[i] EXCEPT !.run = status].chat = msgs[i].chat
          /\ [msgs[i] EXCEPT !.run = status].role = msgs[i].role
      BY <2>1 DEF Message
    <2>4. ASSUME NEW j \in Id
          PROVE  /\ msgs'[j].at = msgs[j].at /\ msgs'[j].chat = msgs[j].chat
                 /\ msgs'[j].role = msgs[j].role
      BY <2>2, <2>3
    <2>5. Len(msgs) <= Len(msgs')
      BY <1>1, <2>1
    <2>. QED  BY <1>1, <2>4, <2>5 DEF RowsKept
  <1>6. ASSUME NEW q \in Request, PlaceTurn(q) PROVE RowsKept
    BY <1>2, <1>4, <1>6 DEF PlaceTurn
  <1>7. ASSUME NEW q \in Request, InsertVersion(q) PROVE RowsKept
    BY <1>2, <1>3, <1>7 DEF InsertVersion
  <1>8. ASSUME NEW i \in Id, RunStep(i) PROVE RowsKept
    BY <1>5, <1>8 DEF RunStep
  <1>9. CASE UNCHANGED vars
    BY <1>2, <1>9 DEF vars
  <1>10. ASSUME NEW c \in Chat,
                \/ Archive(c) \/ Restore(c) \/ SoftDelete(c)
                \/ \E pin \in BOOLEAN : Patch(c, pin)
                \/ \E d \in Chat : Duplicate(c, d)
                \/ \E export \in BOOLEAN : OpenPager(c, export)
                \/ \E q \in Request : BeginTurn(q, c)
         PROVE  RowsKept
    BY <1>2, <1>10
       DEF Archive, Restore, SoftDelete, Patch, Duplicate, Update, OpenPager, BeginTurn
  <1>11. CASE Tick \/ ReadPage \/ ClosePager
    BY <1>2, <1>11 DEF Tick, ReadPage, ClosePager
  <1>12. ASSUME NEW q \in Request,
                \/ LoadVersion(q) \/ LockVersion(q)
                \/ \E k \in Key, t \in Target, i \in Id, op \in Mutation :
                      BeginVersion(q, k, t, i, op)
         PROVE  RowsKept
    BY <1>2, <1>12 DEF LoadVersion, LockVersion, BeginVersion
  <1>. QED  BY <1>6, <1>7, <1>8, <1>9, <1>10, <1>11, <1>12 DEF Next

\* The rank of a row among others, in the order of the cursor.
Rank(rows, S, i) == Cardinality({j \in S : Before(rows, j, i)})

\* The order of the cursor is total, so ranks count from 0 without a gap.
LEMMA RanksAreNumbers ==
    ASSUME NEW rows, NEW S, IsFiniteSet(S), S \subseteq Nat, \A i \in S : rows[i].at \in Nat
    PROVE  /\ Cardinality(S) \in Nat
           /\ \A i \in S : Rank(rows, S, i) \in 0..(Cardinality(S) - 1)
           /\ \A i, j \in S : Rank(rows, S, i) < Rank(rows, S, j) => Before(rows, i, j)
           /\ \A i, j \in S : Rank(rows, S, i) = Rank(rows, S, j) => i = j
           /\ \A k \in 0..(Cardinality(S) - 1) : \E i \in S : Rank(rows, S, i) = k
  <1>. DEFINE N == Cardinality(S)
              Under(i) == {j \in S : Before(rows, j, i)}
              f == [i \in S |-> Rank(rows, S, i)]
  <1>1. N \in Nat
    BY FS_CardinalityType
  <1>2. \A i \in S : /\ Under(i) \in SUBSET S /\ IsFiniteSet(Under(i))
                     /\ Rank(rows, S, i) = Cardinality(Under(i))
    BY FS_Subset DEF Rank
  <1>3. \A i \in S : Rank(rows, S, i) \in Nat
    BY <1>2, FS_CardinalityType
  <1>4. ASSUME NEW i \in S, NEW j \in S, Before(rows, i, j)
        PROVE  Rank(rows, S, i) < Rank(rows, S, j)
    <2>1. ASSUME NEW k \in S, Before(rows, k, i) PROVE Before(rows, k, j)
      <3>1. i \in Nat /\ j \in Nat /\ k \in Nat
            /\ rows[i].at \in Nat /\ rows[j].at \in Nat /\ rows[k].at \in Nat
        OBVIOUS
      <3>. QED  BY <1>4, <2>1, <3>1 DEF Before
    <2>2. Under(i) \in SUBSET Under(j)
      BY <2>1
    <2>3. i \in Under(j) /\ i \notin Under(i)
      BY <1>4 DEF Before
    <2>4. Cardinality(Under(i)) <= Cardinality(Under(j))
          /\ Cardinality(Under(i)) # Cardinality(Under(j))
      <3>. HIDE DEF Under
      <3>. QED  BY <1>2, <2>2, <2>3, FS_Subset
    <2>. HIDE DEF Under
    <2>. QED  BY <1>2, <1>3, <2>4
  <1>5. ASSUME NEW i \in S, NEW j \in S
        PROVE  i = j \/ Before(rows, i, j) \/ Before(rows, j, i)
    <2>1. i \in Nat /\ j \in Nat /\ rows[i].at \in Nat /\ rows[j].at \in Nat
      OBVIOUS
    <2>. QED  BY <2>1 DEF Before
  <1>6. ASSUME NEW i \in S PROVE Rank(rows, S, i) \in 0..(N - 1)
    <2>1. i \notin Under(i)
      BY DEF Before
    <2>. HIDE DEF Under
    <2>2. Cardinality(Under(i)) <= N /\ Cardinality(Under(i)) # N
      BY <1>2, <2>1, FS_Subset
    <2>. HIDE DEF N
    <2>. QED  BY <1>1, <1>2, <1>3, <2>2
  <1>. HIDE DEF Under, N
  <1>7. ASSUME NEW i \in S, NEW j \in S, Rank(rows, S, i) < Rank(rows, S, j)
        PROVE  Before(rows, i, j)
    <2>1. i # j
      <3>1. PICK a, b : a = Rank(rows, S, i) /\ b = Rank(rows, S, j)
        OBVIOUS
      <3>2. a \in Nat /\ b \in Nat /\ a # b
        BY <1>3, <1>7, <3>1
      <3>. QED  BY <3>1, <3>2
    <2>2. ~Before(rows, j, i)
      <3>. SUFFICES ASSUME Before(rows, j, i) PROVE FALSE
        OBVIOUS
      <3>1. Rank(rows, S, j) < Rank(rows, S, i)
        BY <1>4
      <3>. QED  BY <1>3, <1>7, <3>1
    <2>. QED  BY <1>5, <2>1, <2>2
  <1>8. ASSUME NEW i \in S, NEW j \in S, Rank(rows, S, i) = Rank(rows, S, j)
        PROVE  i = j
    <2>1. ~Before(rows, i, j)
      BY <1>3, <1>4, <1>8
    <2>2. ~Before(rows, j, i)
      BY <1>3, <1>4, <1>8
    <2>. QED  BY <1>5, <2>1, <2>2
  <1>9. \A k \in 0..(N - 1) : \E i \in S : Rank(rows, S, i) = k
    <2>1. f \in Injection(S, 0..(N - 1))
      BY <1>6, <1>8 DEF Injection, IsInjective
    <2>2. IsFiniteSet(0..(N - 1)) /\ Cardinality(0..(N - 1)) = N
      <3>1. 0 \in Int /\ N - 1 \in Int
        BY <1>1
      <3>2. IsFiniteSet(0..(N - 1))
            /\ Cardinality(0..(N - 1)) = IF 0 > N - 1 THEN 0 ELSE (N - 1) - 0 + 1
        BY <3>1, FS_Interval
      <3>. QED  BY <1>1, <3>2
    <2>3. f \in Surjection(S, 0..(N - 1))
      <3>. HIDE DEF f
      <3>. QED  BY <2>1, <2>2, FS_Injection DEF N
    <2>. QED  BY <2>3 DEF Surjection
  <1>. QED  BY <1>1, <1>6, <1>7, <1>8, <1>9 DEF N

\* What the client has read is in the order of the cursor, which is at the last
\* of it; a question that was there is read, or still to come.
Came(i) ==
    \/ \E n \in 1..Len(pager.got) : pager.got[n] = i
    \/ pager.pc = "open" /\ (pager.cursor = Closed \/ Past(msgs, i, pager.cursor))

Shows(rows) ==
    /\ rows \in Seq(Message) /\ Len(rows) <= Len(msgs)
    /\ \A i \in 1..Len(rows) : rows[i].at = msgs[i].at
    /\ \A i \in pager.base :
          i \in 1..Len(rows) /\ rows[i].chat = pager.chat /\ rows[i].role = "user"

AtCursor ==
    LET got == pager.got  last == got[Len(got)] IN
    IF got = <<>> THEN pager.cursor = Closed
    ELSE pager.cursor = [at |-> msgs[last].at, id |-> last]

PagerSound ==
    pager = Closed \/
        /\ pager \in Paging
        /\ Shows(View)
        /\ \A n \in 1..Len(pager.got) : pager.got[n] \in Id
        /\ \A m, n \in 1..Len(pager.got) : m < n => Before(msgs, pager.got[m], pager.got[n])
        /\ AtCursor
        /\ \A i \in pager.base : Came(i)

\* Rows that are added do not disturb a pager.
LEMMA PagerKept ==
    ASSUME AnswersInv, RowsKept, PagerSound, pager' = pager
    PROVE  PagerSound'
  <1>. SUFFICES ASSUME pager # Closed PROVE PagerSound'
    BY DEF PagerSound
  <1>1. /\ msgs \in Seq(Message) /\ msgs' \in Seq(Message) /\ Id \subseteq Id'
        /\ Len(msgs) \in Nat /\ Len(msgs') \in Nat /\ Len(msgs) <= Len(msgs')
    BY DEF AnswersInv, AnswersTyped, RowsKept, Id
  <1>2. pager \in Paging /\ Shows(View) /\ AtCursor /\ \A i \in pager.base : Came(i)
    BY DEF PagerSound
  <1>3. Shows(View)'
    <2>1. ASSUME pager.export PROVE Shows(View)'
      <3>1. /\ View = pager.snapshot /\ View' = pager.snapshot
        BY <2>1 DEF View
      <3>2. Len(pager.snapshot) \in Nat
        BY <1>2 DEF Paging
      <3>3. /\ pager.snapshot \in Seq(Message) /\ Len(pager.snapshot) <= Len(msgs)
            /\ \A i \in 1..Len(pager.snapshot) : pager.snapshot[i].at = msgs[i].at
            /\ \A i \in pager.base :
                  /\ i \in 1..Len(pager.snapshot)
                  /\ pager.snapshot[i].chat = pager.chat /\ pager.snapshot[i].role = "user"
        BY <1>2, <3>1 DEF Shows
      <3>4. \A i \in 1..Len(pager.snapshot) : pager.snapshot[i].at = msgs'[i].at
        BY <1>1, <3>2, <3>3 DEF RowsKept, Id
      <3>5. Len(pager.snapshot) <= Len(msgs')
        BY <1>1, <3>2, <3>3
      <3>. QED  BY <3>1, <3>3, <3>4, <3>5 DEF Shows
    <2>2. ASSUME ~pager.export PROVE Shows(View)'
      <3>1. View = msgs /\ View' = msgs'
        BY <2>2 DEF View
      <3>2. \A i \in pager.base :
               i \in Id /\ msgs[i].chat = pager.chat /\ msgs[i].role = "user"
        BY <1>2, <3>1 DEF Shows, Id
      <3>3. \A i \in pager.base :
               i \in Id' /\ msgs'[i].chat = pager.chat /\ msgs'[i].role = "user"
        BY <1>1, <3>2 DEF RowsKept
      <3>. QED  BY <1>1, <3>1, <3>3 DEF Shows, Id
    <2>. QED  BY <2>1, <2>2
  <1>4. \A n \in 1..Len(pager.got) : pager.got[n] \in Id /\ pager.got[n] \in Id'
    BY <1>1 DEF PagerSound
  <1>5. \A m, n \in 1..Len(pager.got) : m < n => Before(msgs', pager.got[m], pager.got[n])
    BY <1>4, SMTT(20) DEF PagerSound, RowsKept, Before
  <1>6. AtCursor'
    <2>1. CASE pager.got = <<>>
      BY <1>2, <2>1 DEF AtCursor
    <2>2. CASE pager.got # <<>>
      <3>1. Len(pager.got) \in 1..Len(pager.got)
        BY <1>2, <2>2 DEF Paging
      <3>2. msgs'[pager.got[Len(pager.got)]].at = msgs[pager.got[Len(pager.got)]].at
        BY <1>4, <3>1 DEF RowsKept
      <3>. QED  BY <1>2, <2>2, <3>2 DEF AtCursor
    <2>. QED  BY <2>1, <2>2
  <1>7. \A i \in pager.base : Came(i)'
    <2>1. \A i \in pager.base : i \in Id
      <3>1. /\ Len(View) \in Nat /\ Len(View) <= Len(msgs)
            /\ \A i \in pager.base : i \in 1..Len(View)
        BY <1>2 DEF Shows
      <3>. QED  BY <1>1, <3>1 DEF Id
    <2>. QED  BY <1>2, <2>1 DEF Came, Past, RowsKept
  <1>. QED  BY <1>2, <1>3, <1>4, <1>5, <1>6, <1>7 DEF PagerSound

\* What is left to read of the turns of a session.
Rest(rows, c, cursor) ==
    {i \in Anchors(rows, c) : cursor = Closed \/ Past(rows, i, cursor)}

\* A page is the beginning of what is left, in order.
LEMMA PageReads ==
    ASSUME NEW rows \in Seq(Message), NEW c, NEW cursor, PageSize \in Nat
    PROVE  LET S == Rest(rows, c, cursor)
               page == Page(rows, c, cursor)
               items == page.items
           IN /\ items \in Seq(S)
              /\ \A m, n \in 1..Len(items) : m < n => Before(rows, items[m], items[n])
              /\ \A i \in S : \/ \E n \in 1..Len(items) : items[n] = i
                              \/ /\ page.more
                                 /\ items = <<>> \/ Before(rows, items[Len(items)], i)
  <1>. DEFINE S == Rest(rows, c, cursor)
              N == Cardinality(S)
              size == IF N > PageSize THEN PageSize ELSE N
              page == Page(rows, c, cursor)
              items == [n \in 1..size |-> CHOOSE i \in S : Rank(rows, S, i) = n - 1]
  <1>1. page = [items |-> items, more |-> N > PageSize]
    BY DEF Page, Rest, Rank
  <1>2. page.items = items /\ page.more = (N > PageSize)
    BY <1>1
  <1>3. S \subseteq 1..Len(rows) /\ Len(rows) \in Nat
    BY DEF Rest, Anchors
  <1>4. IsFiniteSet(S) /\ S \subseteq Nat /\ \A i \in S : rows[i].at \in Nat
    <2>1. IsFiniteSet(1..Len(rows))
      BY <1>3, FS_Interval
    <2>2. \A i \in 1..Len(rows) : rows[i] \in Message
      OBVIOUS
    <2>3. \A i \in 1..Len(rows) : rows[i].at \in Nat
      BY <2>2 DEF Message
    <2>. QED  BY <1>3, <2>1, <2>3, FS_Subset
  <1>. HIDE DEF S, page
  <1>5. /\ N \in Nat
        /\ \A i \in S : Rank(rows, S, i) \in 0..(N - 1)
        /\ \A i, j \in S : Rank(rows, S, i) < Rank(rows, S, j) => Before(rows, i, j)
        /\ \A i, j \in S : Rank(rows, S, i) = Rank(rows, S, j) => i = j
        /\ \A k \in 0..(N - 1) : \E i \in S : Rank(rows, S, i) = k
    BY <1>4, RanksAreNumbers
  <1>. HIDE DEF N
  <1>6. size \in Nat /\ size <= N /\ size <= PageSize /\ (size < N => N > PageSize)
    BY <1>5
  <1>7. ASSUME NEW n \in 1..size
        PROVE  items[n] \in S /\ Rank(rows, S, items[n]) = n - 1
    <2>1. n - 1 \in 0..(N - 1)
      BY <1>5, <1>6
    <2>2. \E i \in S : Rank(rows, S, i) = n - 1
      BY <1>5, <2>1
    <2>3. items[n] = CHOOSE i \in S : Rank(rows, S, i) = n - 1
      OBVIOUS
    <2>. HIDE DEF items
    <2>. QED  BY <2>2, <2>3
  <1>8. items \in Seq(S) /\ Len(items) = size
    <2>1. items = [n \in 1..size |-> items[n]]
      OBVIOUS
    <2>. HIDE DEF items
    <2>2. items \in [1..size -> S]
      BY <1>7, <2>1
    <2>. HIDE DEF size
    <2>. QED  BY <1>6, <2>2
  <1>9. ASSUME NEW m \in 1..Len(items), NEW n \in 1..Len(items), m < n
        PROVE  Before(rows, items[m], items[n])
    <2>. HIDE DEF items, size
    <2>1. m - 1 < n - 1
      BY <1>6, <1>8, <1>9
    <2>. QED  BY <1>5, <1>7, <1>8, <2>1
  <1>10. ASSUME NEW i \in S
         PROVE  \/ \E n \in 1..Len(items) : items[n] = i
                \/ N > PageSize /\ (items = <<>> \/ Before(rows, items[Len(items)], i))
    <2>1. PICK k \in 0..(N - 1) : Rank(rows, S, i) = k
      BY <1>5
    <2>2. CASE k < size
      <3>1. k + 1 \in 1..size
        BY <1>5, <1>6, <2>1, <2>2
      <3>2. items[k + 1] \in S /\ Rank(rows, S, items[k + 1]) = k
        BY <1>5, <1>7, <3>1
      <3>. HIDE DEF items, size
      <3>3. items[k + 1] = i
        BY <1>5, <2>1, <3>2
      <3>. QED  BY <1>8, <3>1, <3>3
    <2>3. CASE ~(k < size)
      <3>. HIDE DEF items, size
      <3>1. N > PageSize
        BY <1>5, <1>6, <2>1, <2>3
      <3>2. CASE size = 0
        BY <1>8, <3>1, <3>2
      <3>3. CASE size # 0
        <4>1. size \in 1..size /\ size - 1 < k
          BY <1>5, <1>6, <2>1, <2>3, <3>3
        <4>2. Before(rows, items[size], i)
          BY <1>5, <1>7, <2>1, <4>1
        <4>. QED  BY <1>8, <3>1, <4>2
      <3>. QED  BY <3>2, <3>3
    <2>. QED  BY <2>2, <2>3
  <1>. HIDE DEF items, size
  <1>. QED  BY <1>2, <1>8, <1>9, <1>10 DEF S, page

\* A client opens a session, or starts an export.
LEMMA OpenPagerSound ==
    ASSUME AnswersInv, NEW c \in Chat, NEW export \in BOOLEAN, OpenPager(c, export)
    PROVE  PagerSound'
  <1>. DEFINE opened == [pc |-> "open", chat |-> c,
                         snapshot |-> IF export THEN msgs ELSE <<>>,
                         export |-> export, cursor |-> Closed, got |-> <<>>,
                         base |-> {i \in Anchors(msgs, c) : msgs[i].role = "user"}]
  <1>1. pager' = opened /\ msgs' = msgs
    BY DEF OpenPager
  <1>2. msgs \in Seq(Message)
    BY DEF AnswersInv, AnswersTyped
  <1>3. opened \in Paging
    <2>1. {i \in Anchors(msgs, c) : msgs[i].role = "user"} \in SUBSET Nat
      BY <1>2 DEF Anchors
    <2>2. (IF export THEN msgs ELSE <<>>) \in Seq(Message)
      BY <1>2
    <2>. QED  BY <2>1, <2>2 DEF Paging
  <1>4. View' = msgs
    BY <1>1 DEF View
  <1>5. /\ pager' \in Paging /\ pager'.got = <<>> /\ pager'.cursor = Closed /\ pager'.pc = "open"
        /\ pager'.chat = c /\ pager'.base = {i \in Anchors(msgs, c) : msgs[i].role = "user"}
    BY <1>1, <1>3
  <1>. HIDE DEF opened
  <1>6. \A i \in pager'.base :
           i \in 1..Len(msgs) /\ msgs[i].chat = pager'.chat /\ msgs[i].role = "user"
    BY <1>2, <1>5 DEF Anchors
  <1>7. Shows(View)'
    <2>1. Len(msgs) <= Len(msgs)
      BY <1>2
    <2>. QED  BY <1>1, <1>2, <1>4, <1>6, <2>1 DEF Shows
  <1>8. AtCursor' /\ \A i \in pager'.base : Came(i)'
    BY <1>5 DEF AtCursor, Came
  <1>9. 1..Len(pager'.got) = {}
    BY <1>5
  <1>. QED  BY <1>5, <1>7, <1>8, <1>9 DEF PagerSound

\* A page continues what the client has, and the cursor moves to its last row.
LEMMA ReadPageSound ==
    ASSUME AnswersInv, PageSize \in Nat, PagerSound, ReadPage
    PROVE  PagerSound'
  <1>. DEFINE got == pager.got
              S == Rest(View, pager.chat, pager.cursor)
              page == Page(View, pager.chat, pager.cursor)
              items == page.items
              last == items[Len(items)]
              cursor == IF items = <<>> THEN pager.cursor
                        ELSE [at |-> View[last].at, id |-> last]
              pc == IF page.more THEN "open" ELSE "read"
  <1>1. pager.pc = "open" /\ pager # Closed
    BY DEF ReadPage, Closed
  <1>2. /\ pager \in Paging /\ Shows(View) /\ AtCursor
        /\ \A i \in pager.base : Came(i)
        /\ \A n \in 1..Len(got) : got[n] \in Id
        /\ \A m, n \in 1..Len(got) : m < n => Before(msgs, got[m], got[n])
    BY <1>1 DEF PagerSound
  <1>3. pager' = [pager EXCEPT !.got = got \o items, !.cursor = cursor, !.pc = pc]
    BY DEF ReadPage
  <1>4. msgs' = msgs
    BY DEF ReadPage
  <1>5. View \in Seq(Message) /\ Len(View) \in Nat /\ Len(View) <= Len(msgs)
    BY <1>2 DEF Shows
  <1>6. /\ items \in Seq(S)
        /\ \A m, n \in 1..Len(items) : m < n => Before(View, items[m], items[n])
        /\ \A i \in S : \/ \E n \in 1..Len(items) : items[n] = i
                        \/ page.more /\ (items = <<>> \/ Before(View, last, i))
    BY <1>5, PageReads
  <1>7. \A i \in S : /\ i \in 1..Len(View) /\ i \in Id /\ i \in Nat
                     /\ View[i].at = msgs[i].at /\ msgs[i].at \in Nat
                     /\ pager.cursor = Closed \/ Past(msgs, i, pager.cursor)
    <2>1. \A i \in 1..Len(View) : i \in Id /\ i \in Nat /\ View[i].at = msgs[i].at
      BY <1>2, <1>5 DEF Shows, Id, AnswersInv, AnswersTyped
    <2>2. \A i \in Id : msgs[i].at \in Nat
      BY IdTyped DEF AnswersInv, Message
    <2>. QED  BY <2>1, <2>2 DEF Rest, Anchors, Past
  <1>8. got \in Seq(Nat) /\ Len(got) \in Nat
    BY <1>2 DEF Paging
  <1>. HIDE DEF items, page, S
  <1>9. Len(items) \in Nat /\ \A n \in 1..Len(items) : items[n] \in S
    BY <1>6
  <1>10. items # <<>> => Len(items) \in 1..Len(items)
    BY <1>6
  <1>11. /\ got \o items \in Seq(Nat)
         /\ Len(got \o items) = Len(got) + Len(items)
         /\ \A n \in 1..Len(got) : (got \o items)[n] = got[n]
         /\ \A n \in 1..Len(items) : (got \o items)[Len(got) + n] = items[n]
    <2>1. items \in Seq(Nat)
      BY <1>6, <1>7
    <2>. QED  BY <1>8, <2>1
  <1>12. cursor \in [at : Nat, id : Nat] \cup {Closed}
    <2>1. items # <<>> => last \in Nat /\ View[last].at \in Nat
      BY <1>7, <1>9, <1>10
    <2>. QED  BY <1>2, <2>1 DEF Paging
  <1>13. /\ pager' \in Paging /\ pager'.got = got \o items /\ pager'.cursor = cursor
         /\ pager'.pc = pc /\ pager'.chat = pager.chat /\ pager'.base = pager.base
         /\ pager'.export = pager.export /\ pager'.snapshot = pager.snapshot
    <2>. HIDE DEF got, cursor, pc
    <2>1. pc \in {"open", "read"}
      BY DEF pc
    <2>. QED  BY <1>2, <1>3, <1>11, <1>12, <2>1 DEF Paging
  <1>14. Shows(View)'
    <2>1. View' = View
      BY <1>4, <1>13 DEF View
    <2>. QED  BY <1>2, <1>4, <1>13, <2>1 DEF Shows
  <1>15. \A n \in 1..Len(pager'.got) :
            \/ n \in 1..Len(got) /\ pager'.got[n] = got[n]
            \/ \E m \in 1..Len(items) : n = Len(got) + m /\ pager'.got[n] = items[m]
    <2>1. ASSUME NEW n \in 1..(Len(got) + Len(items)), n \notin 1..Len(got)
          PROVE  \E m \in 1..Len(items) : n = Len(got) + m
      <3>1. n - Len(got) \in 1..Len(items) /\ n = Len(got) + (n - Len(got))
        BY <1>8, <1>9, <2>1
      <3>. QED  BY <3>1
    <2>2. Len(pager'.got) = Len(got) + Len(items)
      BY <1>11, <1>13
    <2>3. ASSUME NEW n \in 1..Len(pager'.got), n \notin 1..Len(got)
          PROVE  \E m \in 1..Len(items) : n = Len(got) + m /\ pager'.got[n] = items[m]
      <3>1. PICK m \in 1..Len(items) : n = Len(got) + m
        BY <2>1, <2>2, <2>3
      <3>2. pager'.got[n] = items[m]
        BY <1>11, <1>13, <3>1
      <3>. QED  BY <3>1, <3>2
    <2>4. \A n \in 1..Len(got) : pager'.got[n] = got[n]
      BY <1>11, <1>13
    <2>. QED  BY <2>3, <2>4
  <1>16. \A n \in 1..Len(pager'.got) : pager'.got[n] \in Id
    BY <1>2, <1>7, <1>9, <1>15
  <1>17. ASSUME NEW m \in 1..Len(got), NEW i \in S
         PROVE  Before(msgs, got[m], i)
    <2>. DEFINE top == got[Len(got)]
    <2>1. got # <<>> /\ Len(got) \in 1..Len(got)
      BY <1>8
    <2>2. pager.cursor = [at |-> msgs[top].at, id |-> top]
      BY <1>2, <2>1 DEF AtCursor
    <2>3. pager.cursor # Closed
      <3>1. "at" \in DOMAIN pager.cursor /\ DOMAIN Closed = {"pc"}
        BY <2>2 DEF Closed
      <3>. QED  BY <3>1
    <2>4. Before(msgs, top, i)
      BY <1>7, <2>2, <2>3 DEF Past, Before
    <2>5. m = Len(got) \/ Before(msgs, got[m], top)
      BY <1>2, <1>8, <2>1
    <2>6. /\ got[m] \in Nat /\ top \in Nat /\ i \in Nat
          /\ msgs[got[m]].at \in Nat /\ msgs[top].at \in Nat /\ msgs[i].at \in Nat
      <3>1. got[m] \in Id /\ top \in Id /\ \A j \in Id : j \in Nat
        BY <1>2, <2>1 DEF Id
      <3>2. \A j \in Id : msgs[j].at \in Nat
        BY IdTyped DEF AnswersInv, Message
      <3>. QED  BY <1>7, <3>1, <3>2
    <2>. HIDE DEF top
    <2>7. CASE m = Len(got)
      BY <2>4, <2>7 DEF top
    <2>8. CASE Before(msgs, got[m], top)
      BY <2>4, <2>6, <2>8 DEF Before
    <2>. QED  BY <2>5, <2>7, <2>8
  <1>18. ASSUME NEW m \in 1..Len(items), NEW n \in 1..Len(items), m < n
         PROVE  Before(msgs, items[m], items[n])
    <2>1. Before(View, items[m], items[n])
      BY <1>6, <1>18
    <2>2. View[items[m]].at = msgs[items[m]].at /\ View[items[n]].at = msgs[items[n]].at
      BY <1>7, <1>9
    <2>. QED  BY <2>1, <2>2 DEF Before
  <1>19. ASSUME NEW m \in 1..Len(pager'.got), NEW n \in 1..Len(pager'.got), m < n
         PROVE  Before(msgs', pager'.got[m], pager'.got[n])
    <2>. SUFFICES Before(msgs, pager'.got[m], pager'.got[n])
      BY <1>4 DEF Before
    <2>1. CASE n \in 1..Len(got) /\ pager'.got[n] = got[n]
      <3>1. m \in 1..Len(got)
        BY <1>8, <1>19, <2>1
      <3>2. pager'.got[m] = got[m]
        BY <1>11, <1>13, <3>1
      <3>. QED  BY <1>2, <1>19, <2>1, <3>1, <3>2
    <2>2. ASSUME NEW l \in 1..Len(items), n = Len(got) + l, pager'.got[n] = items[l]
          PROVE  Before(msgs, pager'.got[m], pager'.got[n])
      <3>1. CASE m \in 1..Len(got) /\ pager'.got[m] = got[m]
        BY <1>9, <1>17, <2>2, <3>1
      <3>2. ASSUME NEW k \in 1..Len(items), m = Len(got) + k, pager'.got[m] = items[k]
            PROVE  Before(msgs, pager'.got[m], pager'.got[n])
        <4>1. k < l
          BY <1>8, <1>9, <1>19, <2>2, <3>2
        <4>. QED  BY <1>18, <2>2, <3>2, <4>1
      <3>. QED  BY <1>15, <3>1, <3>2
    <2>. QED  BY <1>15, <2>1, <2>2
  <1>20. AtCursor'
    <2>1. CASE items = <<>>
      <3>1. got \o items = got
        BY <1>8, <2>1
      <3>. QED  BY <1>2, <1>4, <1>13, <2>1, <3>1 DEF AtCursor
    <2>2. CASE items # <<>>
      <3>1. /\ Len(pager'.got) = Len(got) + Len(items)
            /\ pager'.got[Len(got) + Len(items)] = last
        BY <1>10, <1>11, <1>13, <2>2
      <3>2. pager'.got # <<>>
        BY <1>8, <1>9, <1>10, <2>2, <3>1
      <3>3. View[last].at = msgs[last].at
        BY <1>7, <1>9, <1>10, <2>2
      <3>. QED  BY <1>4, <1>13, <2>2, <3>1, <3>2, <3>3 DEF AtCursor
    <2>. QED  BY <2>1, <2>2
  <1>21. ASSUME NEW i \in pager.base
         PROVE  Came(i)'
    <2>1. CASE \E n \in 1..Len(got) : got[n] = i
      <3>1. PICK n \in 1..Len(got) : got[n] = i
        BY <2>1
      <3>2. n \in 1..Len(pager'.got) /\ pager'.got[n] = i
        BY <1>8, <1>9, <1>11, <1>13, <3>1
      <3>. QED  BY <3>2 DEF Came
    <2>2. CASE pager.cursor = Closed \/ Past(msgs, i, pager.cursor)
      <3>1. i \in S
        <4>1. /\ i \in 1..Len(View) /\ View[i].chat = pager.chat /\ View[i].role = "user"
              /\ View[i].at = msgs[i].at
          BY <1>2 DEF Shows
        <4>2. i \in Anchors(View, pager.chat)
          BY <1>5, <4>1 DEF Anchors
        <4>. QED  BY <2>2, <4>1, <4>2 DEF S, Rest, Past
      <3>2. ASSUME NEW n \in 1..Len(items), items[n] = i
            PROVE  Came(i)'
        <4>1. Len(got) + n \in 1..Len(pager'.got) /\ pager'.got[Len(got) + n] = i
          BY <1>8, <1>9, <1>11, <1>13, <3>2
        <4>. QED  BY <4>1 DEF Came
      <3>3. CASE page.more /\ items = <<>>
        BY <1>4, <1>13, <2>2, <3>3 DEF Came, Past
      <3>4. CASE page.more /\ items # <<>> /\ Before(View, last, i)
        <4>1. Past(msgs, i, [at |-> View[last].at, id |-> last])
          <5>1. last \in S
            BY <1>9, <1>10, <3>4
          <5>2. View[i].at = msgs[i].at /\ View[last].at = msgs[last].at
                /\ msgs[i].at \in Nat /\ msgs[last].at \in Nat /\ i \in Nat /\ last \in Nat
            BY <1>7, <3>1, <5>1
          <5>. QED  BY <3>4, <5>2 DEF Past, Before
        <4>. QED  BY <1>4, <1>13, <3>4, <4>1 DEF Came, Past
      <3>. QED  BY <1>6, <3>1, <3>2, <3>3, <3>4
    <2>. QED  BY <1>2, <2>1, <2>2 DEF Came
  <1>22. \A i \in pager'.base : Came(i)'
    BY <1>13, <1>21
  <1>23. \A m, n \in 1..Len(pager'.got) :
            m < n => Before(msgs', pager'.got[m], pager'.got[n])
    BY <1>19
  <1>24. \A n \in 1..Len(pager'.got) : pager'.got[n] \in Id'
    BY <1>4, <1>16 DEF Id
  <1>. HIDE DEF got, cursor, pc
  <1>. QED  BY <1>13, <1>14, <1>24, <1>20, <1>22, <1>23 DEF PagerSound

\* Every step keeps what is said of the pager.
LEMMA NextPager ==
    ASSUME AnswersInv, AnswersInv', PageSize \in Nat, PagerSound, [Next]_vars
    PROVE  PagerSound'
  <1>1. RowsKept
    BY RowsStay
  <1>2. CASE pager' = pager
    BY <1>1, <1>2, PagerKept
  <1>3. CASE ReadPage
    BY <1>3, ReadPageSound
  <1>4. CASE ClosePager
    BY <1>4 DEF ClosePager, PagerSound
  <1>5. ASSUME NEW c \in Chat, NEW export \in BOOLEAN, OpenPager(c, export)
        PROVE  PagerSound'
    BY <1>5, OpenPagerSound
  <1>6. ASSUME NEW c \in Chat,
               \/ Archive(c) \/ Restore(c) \/ SoftDelete(c)
               \/ \E pin \in BOOLEAN : Patch(c, pin)
               \/ \E d \in Chat : Duplicate(c, d)
               \/ \E q \in Request : BeginTurn(q, c)
        PROVE  pager' = pager
    BY <1>6 DEF Archive, Restore, SoftDelete, Patch, Duplicate, Update, BeginTurn
  <1>7. ASSUME NEW i \in Id, RunStep(i) PROVE pager' = pager
    BY <1>7 DEF RunStep
  <1>8. ASSUME NEW q \in Request,
               \/ PlaceTurn(q) \/ LoadVersion(q) \/ LockVersion(q) \/ InsertVersion(q)
               \/ \E k \in Key, t \in Target, i \in Id, op \in Mutation :
                     BeginVersion(q, k, t, i, op)
        PROVE  pager' = pager
    BY <1>8 DEF PlaceTurn, LoadVersion, LockVersion, InsertVersion, BeginVersion
  <1>9. CASE Tick \/ UNCHANGED vars
    BY <1>2, <1>9 DEF Tick, vars
  <1>. QED  BY <1>2, <1>3, <1>4, <1>5, <1>6, <1>7, <1>8, <1>9 DEF Next

\* A pager that has read to the end has every question, each once.
LEMMA PagerComplete ==
    ASSUME AnswersInv, PagerSound
    PROVE  PagingIsComplete
  <1>. SUFFICES ASSUME pager.pc = "read" PROVE PagingIsComplete
    BY DEF PagingIsComplete
  <1>1. /\ pager \in Paging
        /\ \A n \in 1..Len(pager.got) : pager.got[n] \in Id
        /\ \A m, n \in 1..Len(pager.got) : m < n => Before(msgs, pager.got[m], pager.got[n])
        /\ \A i \in pager.base : Came(i)
    BY DEF PagerSound, Closed
  <1>2. DOMAIN pager.got = 1..Len(pager.got) /\ Len(pager.got) \in Nat
    BY <1>1 DEF Paging
  <1>3. ASSUME NEW i \in pager.base
        PROVE  Cardinality({n \in DOMAIN pager.got : pager.got[n] = i}) = 1
    <2>1. PICK n \in 1..Len(pager.got) : pager.got[n] = i
      BY <1>1 DEF Came
    <2>2. ~Before(msgs, i, i)
      <3>1. i \in Nat /\ msgs[i].at \in Nat
        <4>1. i \in Id /\ msgs[i] \in Message
          BY <1>1, <2>1, IdTyped DEF AnswersInv
        <4>. QED  BY <4>1 DEF Message, Id
      <3>. QED  BY <3>1 DEF Before
    <2>3. ASSUME NEW m \in 1..Len(pager.got), pager.got[m] = i PROVE m = n
      <3>1. ~(m < n) /\ ~(n < m)
        BY <1>1, <2>1, <2>2, <2>3
      <3>. QED  BY <1>2, <3>1
    <2>4. {m \in DOMAIN pager.got : pager.got[m] = i} = {n}
      BY <1>2, <2>1, <2>3
    <2>. QED  BY <2>4, FS_Singleton
  <1>. QED  BY <1>1, <1>2, <1>3 DEF PagingIsComplete

\* Whatever is added between two pages, a client that pages to the end by the keyset
\* cursor (repositories.py, the lists of turns and the export) has seen every
\* question that was there when it began exactly once, in the cursor's order.
THEOREM Paged == PageSize \in Nat /\ Spec => []PagingIsComplete
  <1>. SUFFICES ASSUME PageSize \in Nat PROVE Spec => []PagingIsComplete
    OBVIOUS
  <1>1. Init => PagerSound
    BY DEF Init, PagerSound
  <1>2. AnswersInv /\ AnswersInv' /\ PagerSound /\ [Next]_vars => PagerSound'
    BY NextPager
  <1>3. AnswersInv /\ PagerSound => PagingIsComplete
    BY PagerComplete
  <1>. QED  BY <1>1, <1>2, <1>3, InitAnswers, NextAnswers, PTL DEF Spec
==============================================================================
