---------------------------- MODULE LegacyBackfill ----------------------------
(***************************************************************************)
(* The backfill that groups the chat messages of an owner into sessions    *)
(* (ask/backfill.py), the migration that asks for it to be complete        *)
(* (migrations/0025_ask_ai_backfill_validation.sql), and those who write   *)
(* messages meanwhile: the chat route (core/repository.py), the turns of   *)
(* the Ask workspace and the copying of a session (ask/repositories.py).   *)
(*                                                                         *)
(* Of one owner; the identities that are computed from a message or a      *)
(* scope are "computed" and [legacy |-> scope].  An identifier is drawn    *)
(* when a message is inserted, and the message is seen when that commits.  *)
(***************************************************************************)
EXTENDS Integers, FiniteSets, FiniteSetsExt

CONSTANTS
    Runner,
    Scope,         \* events, and the global scope
    BatchSize,
    MaxMessages,   \* bound: messages
    MaxSessions,   \* bound: sessions beside those of the backfill
    MaxRuns,       \* bound: runs of the backfill
    MaxLapses      \* bound: processes that die and connections that are lost

VARIABLES
    messages,      \* the committed ones, by their identifier
    inserting,     \* those whose transaction is open
    sessions,
    validated,     \* whether migration 0025 is in place
    unsaved,       \* history: writes of the chat route that were refused
    backfillLock,  \* who holds LEGACY_BACKFILL_ADVISORY_LOCK_KEY
    runner,        \* what each run of the backfill is at
    runs, lapses

backfill == <<messages, inserting, sessions, validated, unsaved, backfillLock, runner, runs,
              lapses>>

None == "none"
NoSession == [none |-> TRUE]
Legacy(e) == [legacy |-> e]
Bare(e) == [scope |-> e, public |-> "null", session |-> NoSession]

\* A row is added under an identifier that is not taken.
With(rows, i, row) ==
    [j \in DOMAIN rows \cup {i} |-> IF j \in DOMAIN rows THEN rows[j] ELSE row]

Idle == [pc |-> "idle", after |-> 0, began |-> {}, seen |-> <<>>, verdict |-> "none"]

-----------------------------------------------------------------------------
(* What is verified                                                        *)

Pending(m) == m.public = "null" \/ m.session = NoSession
Marked(S, m) == m.session # NoSession /\ S[m.session].marked

\* _is_legacy_message
IsLegacy(S, m) == Pending(m) \/ Marked(S, m) \/ m.public = "computed"

\* The messages that verify_backfill counts as drifted: another identity than
\* the computed one, or a session of another scope.
Drifted(M, S) ==
    {i \in DOMAIN M :
        /\ IsLegacy(S, M[i])
        /\ \/ M[i].public \notin {"null", "computed"}
           \/ M[i].session \notin {NoSession, Legacy(M[i].scope)}
           \/ M[i].session # NoSession /\ S[M[i].session].scope # M[i].scope}

\* And the sessions: not the computed one, a second one of a scope (which is
\* not the computed one either), or one without a message.
Astray(S, expected) ==
    {s \in DOMAIN S : S[s].marked /\ (s # Legacy(S[s].scope) \/ s \notin expected)}

Expected(M, S) == {Legacy(M[i].scope) : i \in {j \in DOMAIN M : IsLegacy(S, M[j])}}

\* verify_backfill in one snapshot, as preflight_backfill_validation asks for it
\* when nobody writes.
IsValid(M, S) ==
    /\ \A i \in DOMAIN M : ~Pending(M[i])
    /\ Drifted(M, S) = {} /\ Astray(S, Expected(M, S)) = {}

\* The checks that 0025 makes under its table locks.
Accepts(M, S) ==
    /\ \A i \in DOMAIN M : ~Pending(M[i]) /\ S[M[i].session].scope = M[i].scope
    /\ \A s, t \in DOMAIN S : S[s].marked /\ S[t].marked /\ S[s].scope = S[t].scope => s = t

-----------------------------------------------------------------------------
(* The batches                                                             *)

\* SELECT_BATCH_SQL
BatchOf(after) ==
    LET waiting == {i \in DOMAIN messages : i > after /\ Pending(messages[i])}
    IN {i \in waiting : Cardinality({j \in waiting : j < i}) < BatchSize}

\* The update of _backfill_batch reaches the row.
Fits(m) ==
    /\ m.public \in {"null", "computed"}
    /\ m.session \in {NoSession, Legacy(m.scope)}

\* _ensure_sessions
SessionsWith(B) ==
    [s \in DOMAIN sessions \cup {Legacy(messages[i].scope) : i \in B} |->
        IF s \in DOMAIN sessions THEN sessions[s] ELSE [scope |-> s.legacy, marked |-> TRUE]]

\* _backfill_batch
Filled(B) ==
    [i \in DOMAIN messages |->
        IF i \notin B THEN messages[i]
        ELSE [messages[i] EXCEPT !.public = "computed", !.session = Legacy(messages[i].scope)]]

-----------------------------------------------------------------------------
\* The history before: messages without identities, with gaps where a
\* transaction was rolled back.
BackfillInit ==
    /\ \E S \in SUBSET (1..MaxMessages) : \E e \in [S -> Scope] :
          messages = [i \in S |-> Bare(e[i])]
    /\ inserting = <<>>
    /\ sessions = <<>>
    /\ validated = FALSE
    /\ unsaved = 0
    /\ backfillLock = None
    /\ runner = [r \in Runner |-> Idle]
    /\ runs = 0 /\ lapses = 0

Written == DOMAIN messages \cup DOMAIN inserting
Next1 == IF Written = {} THEN 1 ELSE Max(Written) + 1

Backfilling == <<validated, backfillLock, runner, runs>>

\* A session of the workspace is opened.
OpenSession(e) ==
    LET n == Cardinality({s \in DOMAIN sessions : "own" \in DOMAIN s})
    IN /\ n < MaxSessions
       /\ sessions' = With(sessions, [own |-> n], [scope |-> e, marked |-> FALSE])
       /\ UNCHANGED <<Backfilling, messages, inserting, unsaved, lapses>>

\* duplicate_context_owned: the copy has the scope_snapshot of its source, and
\* with it the mark of the backfill, which 0025 allows once in a scope.
CopySession(s) ==
    LET n == Cardinality({t \in DOMAIN sessions : "own" \in DOMAIN t})
    IN /\ n < MaxSessions /\ ~(validated /\ sessions[s].marked)
       /\ sessions' = With(sessions, [own |-> n], sessions[s])
       /\ UNCHANGED <<Backfilling, messages, inserting, unsaved, lapses>>

\* A row is inserted, and the constraint of 0025 checked.
Insert(row) ==
    /\ Next1 <= MaxMessages
    /\ inserting' = With(inserting, Next1, row)
    /\ UNCHANGED <<Backfilling, messages, sessions, unsaved, lapses>>

PairHolds(row) == validated => (row.public = "null") = (row.session = NoSession)

\* create of ChatMessagesRepository: with both identities and the session's scope
WriteTurn(s) ==
    Insert([scope |-> sessions[s].scope, public |-> "own", session |-> s])

\* save_chat_message without a session, as the route wrote while sessions were
\* not known to it
WriteBare(e) == Insert(Bare(e))

\* save_chat_message, as the route calls it: with a session and no public
\* identifier.  What the database refuses is suppressed.
WriteChat(s, e) ==
    LET row == [scope |-> e, public |-> "null", session |-> s]
    IN IF PairHolds(row) THEN Insert(row)
       ELSE /\ unsaved = 0 /\ unsaved' = 1
            /\ UNCHANGED <<Backfilling, messages, inserting, sessions, lapses>>

\* The transaction of an insert ends.
CommitInsert(i) ==
    /\ messages' = With(messages, i, inserting[i])
    /\ inserting' = [j \in DOMAIN inserting \ {i} |-> inserting[j]]
    /\ UNCHANGED <<Backfilling, sessions, unsaved, lapses>>

-----------------------------------------------------------------------------
Verify(r) == runner' = [runner EXCEPT ![r].pc = "verify", ![r].after = 0]
Data == <<messages, inserting, sessions, validated, unsaved>>

\* run_backfill; a resumed one begins after the last identifier of a batch.
BeginRun(r) ==
    /\ runs < MaxRuns /\ runner[r].pc = "idle" /\ backfillLock = None
    /\ backfillLock' = r
    /\ \E after \in {0} \cup DOMAIN messages :
          runner' = [runner EXCEPT ![r] =
                        [pc |-> "batch", after |-> after, seen |-> <<>>, verdict |-> "none",
                         began |-> {i \in DOMAIN messages : Pending(messages[i])}]]
    /\ runs' = runs + 1
    /\ UNCHANGED <<Data, lapses>>

\* The run raises, or its verdict is no more than "partial"; the lock is
\* released if it still has it.
Raises(r) ==
    /\ runner' = [runner EXCEPT ![r] = Idle]
    /\ backfillLock' = IF backfillLock = r THEN None ELSE backfillLock

\* One transaction of _run_backfill, which may be the last that max_batches allows
Batch(r) ==
    LET B == BatchOf(runner[r].after)
    IN /\ runner[r].pc = "batch"
       /\ \/ B = {} /\ Verify(r) /\ UNCHANGED <<messages, sessions, backfillLock>>
          \/ /\ B # {} /\ \E i \in B : ~Fits(messages[i])
             /\ Raises(r) /\ UNCHANGED <<messages, sessions>>
          \/ /\ B # {} /\ \A i \in B : Fits(messages[i])
             /\ messages' = Filled(B) /\ sessions' = SessionsWith(B)
             /\ \/ runner' = [runner EXCEPT ![r].after = Max(B)]
                \/ Verify(r)
             /\ UNCHANGED backfillLock
       /\ UNCHANGED <<inserting, validated, unsaved, runs, lapses>>

\* verify_backfill reads the messages with their sessions,
ReadMessages(r) ==
    /\ runner[r].pc = "verify"
    /\ runner' = [runner EXCEPT ![r].pc = "sessions",
                    ![r].seen = [pending |-> \E i \in DOMAIN messages : Pending(messages[i]),
                                 drifted |-> Drifted(messages, sessions) # {},
                                 expected |-> Expected(messages, sessions)]]
    /\ UNCHANGED <<Data, backfillLock, runs, lapses>>

\* and then the sessions that are marked.
ReadSessions(r) ==
    /\ runner[r].pc = "sessions"
    /\ LET seen == runner[r].seen
           complete == ~seen.pending /\ ~seen.drifted /\ Astray(sessions, seen.expected) = {}
       IN IF backfillLock = r /\ complete
          THEN /\ runner' = [runner EXCEPT ![r] = [Idle EXCEPT !.verdict = "complete",
                                                       !.began = runner[r].began]]
               /\ backfillLock' = None
          ELSE Raises(r)
    /\ UNCHANGED <<Data, runs, lapses>>

\* The process dies; or the connection of the lock is lost, and the run goes on
\* on its others.
Dies(r) ==
    /\ lapses < MaxLapses /\ runner[r].pc # "idle"
    /\ Raises(r)
    /\ lapses' = lapses + 1
    /\ UNCHANGED <<Data, runs>>

LosesLock(r) ==
    /\ lapses < MaxLapses /\ backfillLock = r
    /\ backfillLock' = None
    /\ lapses' = lapses + 1
    /\ UNCHANGED <<Data, runner, runs>>

\* Migration 0025: its locks wait for open inserts; what it refuses is rolled
\* back and changes nothing.
Validate ==
    /\ ~validated /\ inserting = <<>> /\ Accepts(messages, sessions)
    /\ validated' = TRUE
    /\ UNCHANGED <<messages, inserting, sessions, unsaved, backfillLock, runner, runs, lapses>>

BackfillNext ==
    \/ \E e \in Scope : OpenSession(e) \/ WriteBare(e)
    \/ \E s \in DOMAIN sessions :
          CopySession(s) \/ WriteTurn(s) \/ \E e \in Scope : WriteChat(s, e)
    \/ \E i \in DOMAIN inserting : CommitInsert(i)
    \/ \E r \in Runner :
          BeginRun(r) \/ Batch(r) \/ ReadMessages(r) \/ ReadSessions(r)
          \/ Dies(r) \/ LosesLock(r)
    \/ Validate

BackfillSpec == BackfillInit /\ [][BackfillNext]_backfill

-----------------------------------------------------------------------------
\* A run that says it is complete has left no message behind that waited when
\* it began, wherever it resumed and whoever else ran or died: each is in the
\* computed session of its scope.  A message that is in a computed session was
\* put there by its scope or written there as a turn; and what the backfill's
\* preflight finds valid is what the migration accepts.
BackfillIsHonest ==
    /\ \A r \in Runner : runner[r].verdict = "complete" =>
          \A i \in runner[r].began :
             messages[i].public = "computed" /\ messages[i].session = Legacy(messages[i].scope)
    /\ \A i \in DOMAIN messages : messages[i].public = "computed" =>
          /\ messages[i].session = Legacy(messages[i].scope)
          /\ sessions[messages[i].session] = [scope |-> messages[i].scope, marked |-> TRUE]
    /\ IsValid(messages, sessions) => Accepts(messages, sessions)

\* What the chat route writes is saved, as the rollback notes say of 0025.
ChatIsSaved == unsaved = 0
==============================================================================
