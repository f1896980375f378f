---------------------------- MODULE AnswerLineage ----------------------------
(***************************************************************************)
(* A user's research sessions and the versions of their answers            *)
(* (ask/persistence.py, ask/repositories.py, ask/regeneration.py).  A turn *)
(* is a user message with a pending first answer; a completed answer can   *)
(* be regenerated or refreshed, which appends a version to the answers of  *)
(* its question.  Each request is one transaction at READ COMMITTED and    *)
(* takes its steps at the rows it locks; the tables enforce their unique   *)
(* keys.  Lists are read page by page by a keyset cursor, in transactions  *)
(* of their own, and an export in one at REPEATABLE READ.  The run of an   *)
(* answer is created and ended by the worker that executes it.             *)
(***************************************************************************)
EXTENDS Naturals, Sequences, FiniteSets

CONSTANTS
    Chat,       \* identities of sessions
    Request,    \* requests of the API that run at the same time
    Key,        \* idempotency keys of regenerations
    Target,     \* message identities that clients choose for new versions
    Mutation,   \* operation, source strategy and style of a version
    PageSize,   \* limit of a page of turns
    MaxMsgs,    \* bound: messages
    MaxClock,   \* bound: the clock of the database
    MaxChanges  \* bound: changes of the state of sessions

VARIABLES
    chat,     \* chat_sessions: the state of each
    msgs,     \* chat_messages with their ask_runs, in the order of their ids
    regen,    \* ask_response_regenerations: the plan of each key
    request,  \* what each request holds
    pager,    \* the client that pages through the turns of a session
    clock, changes

chatVars == <<chat, changes>>
vars == <<chat, msgs, regen, request, pager, clock, changes>>

NoPlan == [op |-> "none"]
NoTarget == "none"
Absent == [exists |-> FALSE, pinned |-> FALSE, archived |-> FALSE, deleted |-> FALSE]
Fresh == [Absent EXCEPT !.exists = TRUE]
Idle == [pc |-> "idle", outcome |-> "none", chat |-> "none", at |-> 0, key |-> "none",
         target |-> NoTarget, source |-> 0, op |-> "none", parent |-> 0]
Done(r, outcome) == [r EXCEPT !.pc = "done", !.outcome = outcome]
Closed == [pc |-> "closed"]

Id == 1..Len(msgs)

Init ==
    /\ \E c \in Chat : chat = [x \in Chat |-> IF x = c THEN Fresh ELSE Absent]
    /\ msgs = <<>>
    /\ regen = [k \in Key |-> NoPlan]
    /\ request = [q \in Request |-> Idle]
    /\ pager = Closed
    /\ clock = 0 /\ changes = 0

-----------------------------------------------------------------------------
(* Sessions.                                                               *)

Open(c) == chat[c].exists /\ ~chat[c].deleted

Update(c, row) ==
    /\ changes < MaxChanges
    /\ chat' = [chat EXCEPT ![c] = row]
    /\ changes' = changes + 1
    /\ UNCHANGED <<msgs, regen, request, pager, clock>>

\* patch_session: the row is locked, so nobody archives it in between
Patch(c, pin) ==
    /\ Open(c)
    /\ ~(pin /\ chat[c].archived)
    /\ Update(c, [chat[c] EXCEPT !.pinned = pin])

Archive(c) ==
    /\ Open(c)
    /\ Update(c, [chat[c] EXCEPT !.archived = TRUE, !.pinned = FALSE])

Restore(c) ==
    /\ Open(c)
    /\ Update(c, [chat[c] EXCEPT !.archived = FALSE])

SoftDelete(c) ==
    /\ Open(c)
    /\ Update(c, [chat[c] EXCEPT !.deleted = TRUE, !.pinned = FALSE])

\* duplicate_context_owned copies what the session is about, no messages
Duplicate(c, d) ==
    /\ Open(c) /\ ~chat[d].exists
    /\ Update(d, Fresh)

-----------------------------------------------------------------------------
(* Turns.                                                                  *)

\* A request begins, a new one or one that is repeated because its answer was
\* lost: created_at of what it inserts is the start of its
\* transaction, however long it waits for a lock.
BeginTurn(q, c) ==
    /\ request[q].pc \in {"idle", "done"}
    /\ request' = [request EXCEPT ![q] =
                      [Idle EXCEPT !.pc = "turn", !.chat = c, !.at = clock]]
    /\ UNCHANGED <<chatVars, msgs, regen, pager, clock>>

UserMessage(c, at) ==
    [chat |-> c, role |-> "user", at |-> at, reply |-> 0, version |-> 0, parent |-> 0,
     public |-> NoTarget, run |-> "none"]

Answer(c, at, question, version, parent, public, run) ==
    [chat |-> c, role |-> "assistant", at |-> at, reply |-> question,
     version |-> version, parent |-> parent, public |-> public, run |-> run]

\* create_turn_placeholder, with the row of the session locked
PlaceTurn(q) ==
    LET c == request[q].chat  at == request[q].at IN
    /\ request[q].pc = "turn"
    /\ IF ~Open(c)
       THEN /\ request' = [request EXCEPT ![q] = Done(@, "refused")]
            /\ UNCHANGED msgs
       ELSE /\ Len(msgs) + 2 <= MaxMsgs
            /\ msgs' = msgs \o <<UserMessage(c, at),
                                 Answer(c, at, Len(msgs) + 1, 1, 0, NoTarget, "none")>>
            /\ request' = [request EXCEPT ![q] = Done(@, "created")]
    /\ UNCHANGED <<chatVars, regen, pager, clock>>

\* The worker creates the run of a first answer, and ends it.
RunStep(i) ==
    /\ i \in Id /\ msgs[i].role = "assistant"
    /\ \/ msgs[i].run = "none" /\ msgs' = [msgs EXCEPT ![i].run = "pending"]
       \/ /\ msgs[i].run = "pending"
          /\ \E status \in {"completed", "failed"} :
                msgs' = [msgs EXCEPT ![i].run = status]
    /\ UNCHANGED <<chatVars, regen, request, pager, clock>>

-----------------------------------------------------------------------------
(* Versions of an answer.                                                  *)

Versions(u) == {i \in Id : msgs[i].reply = u}
\* The answers that have a run, as the joins of repository and service ask.
WithRun(u) == {i \in Versions(u) : msgs[i].run # "none"}
Latest(u) == CHOOSE i \in WithRun(u) : \A j \in WithRun(u) : msgs[j].version <= msgs[i].version

\* A client asks for another version of an answer it sees.
BeginVersion(q, k, target, source, op) ==
    /\ request[q].pc \in {"idle", "done"}
    /\ source \in Id /\ msgs[source].role = "assistant"
    /\ request' = [request EXCEPT ![q] =
                      [Idle EXCEPT !.pc = "load", !.at = clock, !.key = k,
                                   !.target = target, !.source = source, !.op = op]]
    /\ UNCHANGED <<chatVars, msgs, regen, pager, clock>>

\* The plan of a key is that of this very request.
Same(r) ==
    /\ regen[r.key] # NoPlan
    /\ regen[r.key].source = r.source /\ regen[r.key].op = r.op
    /\ msgs[regen[r.key].version].public = r.target

\* _require_idempotent_request
Replayed(r) == Done(r, IF Same(r) THEN "replayed" ELSE "conflict")

Question(r) == msgs[r.source].reply

\* _load_source: an answer of an open session whose run is completed
Eligible(i) ==
    /\ msgs[i].run = "completed"
    /\ Open(msgs[i].chat) /\ ~chat[msgs[i].chat].archived

\* The record and the source are read before anything is locked.
LoadVersion(q) ==
    LET r == request[q] IN
    /\ r.pc = "load"
    /\ request' = [request EXCEPT ![q] =
          IF regen[r.key] # NoPlan THEN Replayed(r)
          ELSE IF ~Eligible(r.source) THEN Done(r, "refused")
          ELSE [r EXCEPT !.pc = "lock"]]
    /\ UNCHANGED <<chatVars, msgs, regen, pager, clock>>

\* Nobody else holds the lock on the question.
Free(u) == \A p \in Request : request[p].pc = "insert" => Question(request[p]) # u

InUse(target) == \E i \in Id : msgs[i].public = target

Checked(r) ==
    IF regen[r.key] # NoPlan THEN Replayed(r)
    ELSE IF InUse(r.target) THEN Done(r, "conflict")
    ELSE [r EXCEPT !.pc = "insert", !.parent = Latest(Question(r))]

\* Variant: the question is read without for update.
LockVersionNot(q) ==
    /\ request[q].pc = "lock"
    /\ request' = [request EXCEPT ![q] = Checked(@)]
    /\ UNCHANGED <<chatVars, msgs, regen, pager, clock>>

\* The lock on the question, and what is read under it.
LockVersion(q) ==
    /\ request[q].pc = "lock"
    /\ Free(Question(request[q]))
    /\ request' = [request EXCEPT ![q] = Checked(@)]
    /\ UNCHANGED <<chatVars, msgs, regen, pager, clock>>

\* The keys of the three tables that the new rows would violate.
Violates(r, version) ==
    \/ InUse(r.target) \/ regen[r.key] # NoPlan
    \/ \E i \in Versions(Question(r)) : msgs[i].version = version

InsertVersion(q) ==
    LET r == request[q]
        version == msgs[r.parent].version + 1
        row == Answer(msgs[r.source].chat, r.at, Question(r), version, r.parent,
                      r.target, "pending")
    IN
    /\ r.pc = "insert"
    /\ IF Violates(r, version)
       THEN /\ request' = [request EXCEPT ![q] = Done(r, "conflict")]
            /\ UNCHANGED <<msgs, regen>>
       ELSE /\ Len(msgs) < MaxMsgs
            /\ msgs' = Append(msgs, row)
            /\ regen' = [regen EXCEPT ![r.key] =
                  [op |-> r.op, source |-> r.source, parent |-> r.parent,
                   version |-> Len(msgs) + 1]]
            /\ request' = [request EXCEPT ![q] = Done(r, "created")]
    /\ UNCHANGED <<chatVars, pager, clock>>

-----------------------------------------------------------------------------
(* Lists.                                                                  *)

\* The rows that begin a turn: user messages, and answers without a run.
Anchors(rows, c) ==
    {i \in DOMAIN rows : rows[i].chat = c /\ (rows[i].role = "user" \/ rows[i].run = "none")}

Before(rows, i, j) == rows[i].at < rows[j].at \/ (rows[i].at = rows[j].at /\ i < j)

\* Variant: the cursor is the time alone.
PastByTime(rows, i, cursor) == rows[i].at > cursor.at

\* The keyset condition of the cursor.
Past(rows, i, cursor) ==
    rows[i].at > cursor.at \/ (rows[i].at = cursor.at /\ i > cursor.id)

\* The anchors of a page, with more when there are others after it.
Page(rows, c, cursor) ==
    LET rest == {i \in Anchors(rows, c) : cursor = Closed \/ Past(rows, i, cursor)}
        rank(i) == Cardinality({j \in rest : Before(rows, j, i)})
        size == IF Cardinality(rest) > PageSize THEN PageSize ELSE Cardinality(rest)
    IN [items |-> [n \in 1..size |-> CHOOSE i \in rest : rank(i) = n - 1],
        more |-> Cardinality(rest) > PageSize]

\* A client opens a session, or exports it; an export keeps the snapshot of
\* its first statement.
OpenPager(c, export) ==
    /\ pager.pc = "closed" /\ Open(c)
    /\ pager' = [pc |-> "open", chat |-> c, snapshot |-> IF export THEN msgs ELSE <<>>,
                 export |-> export, cursor |-> Closed, got |-> <<>>,
                 base |-> {i \in Anchors(msgs, c) : msgs[i].role = "user"}]
    /\ UNCHANGED <<chatVars, msgs, regen, request, clock>>

View == IF pager.export THEN pager.snapshot ELSE msgs

ReadPage ==
    /\ pager.pc = "open"
    /\ pager.export \/ Open(pager.chat)
    /\ LET page == Page(View, pager.chat, pager.cursor)
           last == page.items[Len(page.items)]
       IN pager' = [pager EXCEPT
             !.got = @ \o page.items,
             !.cursor = IF page.items = <<>> THEN @ ELSE [at |-> View[last].at, id |-> last],
             !.pc = IF page.more THEN "open" ELSE "read"]
    /\ UNCHANGED <<chatVars, msgs, regen, request, clock>>

ClosePager ==
    /\ pager.pc # "closed"
    /\ pager' = Closed
    /\ UNCHANGED <<chatVars, msgs, regen, request, clock>>

Tick ==
    /\ clock < MaxClock
    /\ clock' = clock + 1
    /\ UNCHANGED <<chatVars, msgs, regen, request, pager>>

Next ==
    \/ Tick \/ ReadPage \/ ClosePager
    \/ \E c \in Chat :
          \/ Archive(c) \/ Restore(c) \/ SoftDelete(c)
          \/ \E pin \in BOOLEAN : Patch(c, pin)
          \/ \E d \in Chat : Duplicate(c, d)
          \/ \E export \in BOOLEAN : OpenPager(c, export)
          \/ \E q \in Request : BeginTurn(q, c)
    \/ \E i \in Id : RunStep(i)
    \/ \E q \in Request :
          \/ PlaceTurn(q) \/ LoadVersion(q) \/ LockVersion(q) \/ InsertVersion(q)
          \/ \E k \in Key, t \in Target, i \in Id, op \in Mutation :
                BeginVersion(q, k, t, i, op)

Spec == Init /\ [][Next]_vars
-----------------------------------------------------------------------------
\* The answers to a question are versions 1 to n, each made from the one before
\* it, whoever asked for it in whichever order; a request key made one of them,
\* from an earlier answer to the same question that had been completed.
LineageIsLinear ==
    /\ \A u \in Id : msgs[u].role = "user" =>
          /\ {msgs[i].version : i \in Versions(u)} = 1..Cardinality(Versions(u))
          /\ \A i \in Versions(u) : msgs[i].version > 1 =>
                /\ msgs[i].parent \in Versions(u)
                /\ msgs[msgs[i].parent].version = msgs[i].version - 1
    /\ \A k \in Key : regen[k] # NoPlan =>
          LET source == msgs[regen[k].source]  target == msgs[regen[k].version] IN
          /\ source.reply = target.reply /\ source.version < target.version
          /\ source.run = "completed" /\ target.parent = regen[k].parent
    /\ \A j, k \in Key :
          regen[j] # NoPlan /\ regen[k] # NoPlan /\ regen[j].version = regen[k].version => j = k

\* A request for a version is refused as a conflict only where its key or its
\* target identity serves another one: two tabs that regenerate one answer, and
\* a client that repeats a request whose answer was lost, both get theirs.
ConflictHasReason ==
    \A q \in Request : request[q].outcome = "conflict" =>
        \/ regen[request[q].key] # NoPlan /\ ~Same(request[q])
        \/ \E i \in Id :
              /\ msgs[i].public = request[q].target
              /\ regen[request[q].key] = NoPlan \/ regen[request[q].key].version # i

\* Only an open session that is not archived is pinned.
PinnedIsOpen == \A c \in Chat : chat[c].pinned => Open(c) /\ ~chat[c].archived

AnswersAreLinear == LineageIsLinear /\ ConflictHasReason /\ PinnedIsOpen

\* A client that pages to the end has seen every question that was there when it
\* began exactly once, in the order of the cursor, though turns and versions are
\* added meanwhile, an older turn commits late, and rows stop being anchors.
PagingIsComplete ==
    pager.pc = "read" =>
        /\ \A i \in pager.base : Cardinality({n \in DOMAIN pager.got : pager.got[n] = i}) = 1
        /\ \A m, n \in DOMAIN pager.got : m < n => Before(msgs, pager.got[m], pager.got[n])
==============================================================================
