----------------------------- MODULE MCRequests -----------------------------
(***************************************************************************)
(* The safety of what requests of users race for: the retry of a failed    *)
(* capability, the versions of an answer, the pages of a list of turns,    *)
(* the turns that a browser shows and the messages of a chat, which a      *)
(* backfill groups; with it the runner of the migrations that operators    *)
(* use.  These components share no state, so a behaviour is one of the     *)
(* part named by `which' and the others stay where they begin.  Executors  *)
(* and targets, clients and requests, are the same model values, which     *)
(* keeps the symmetry group small; no property compares them.  The answers *)
(* are instantiated with their theorems, so that RequestsProofs can carry  *)
(* them over.                                                              *)
(***************************************************************************)
EXTENDS CapabilityRetry, TLC

CONSTANTS Request, Target, Chat, Mutation, PageSize, MaxMsgs, MaxClock, MaxChanges,
    Turn, Foreign, Limit, MaxExtras,
    MaxCommands, MaxByHand, MaxMessages, MaxSessions, MaxRuns, MaxLapses

VARIABLES
    which,
    chat, msgs, regen, request, pager, clock, changes,
    server, call, after, records, relist, invalid, cache, fetch, mounted, asked, extras,
    table, ledger, effects, ran, byHand, migrationLock, command, commands,
    messages, inserting, sessions, validated, unsaved, backfillLock, runner, runs, lapses

answers == <<chat, msgs, regen, request, pager, clock, changes>>

Answers == INSTANCE AnswerLineageProofs

shown == <<server, call, after, records, relist, invalid, cache, fetch, mounted, asked,
           extras>>

Shown == INSTANCE ResearchTurns

schema == <<table, ledger, effects, ran, byHand, migrationLock, command, commands>>

File(v, text) == [version |-> v, text |-> text]

\* Checkouts before and after a migration was added, on a branch without the one
\* before it, and after that one was edited.  The first is older than the ledger.
Checkouts ==
    {{File(1, "a"), File(2, "b")}, {File(1, "a"), File(2, "b"), File(3, "c")},
     {File(1, "a"), File(3, "c")}, {File(1, "a"), File(2, "edited"), File(3, "c")}}

Approved == {File(2, "b"), File(3, "c")}

Schema == INSTANCE SchemaMigrations WITH
    Operator <- Target, Trees <- Checkouts, BaselineMax <- 1,
    Pinned <- Approved

backfills == <<messages, inserting, sessions, validated, unsaved, backfillLock, runner, runs,
               lapses>>

Grouping == INSTANCE LegacyBackfill WITH
    Runner <- Target, Scope <- Request, BatchSize <- 1

RequestsInit ==
    /\ which \in {"retry", "chats", "versions", "pages", "shown", "schema", "backfill"}
    /\ Init /\ Answers!Init /\ Shown!Init
    /\ chat[CHOOSE c \in Chat : TRUE].exists
    /\ Schema!MigrationsInit /\ (which # "schema" => effects = {})
    /\ Grouping!BackfillInit /\ (which # "backfill" => messages = <<>>)

Retries == which = "retry" /\ Next /\ UNCHANGED <<which, answers, shown, schema, backfills>>

\* The three parts of AnswerLineage: sessions with their turns, the versions of
\* answers, where one session changes at most once, and pages.
NoVersions == \A q \in Request : request'[q].key = "none"
Known ==
    \A q \in Request : request'[q].chat # "none" => chat[request'[q].chat].exists
OneChange == changes' <= 1 /\ \A c \in Chat : chat'[c].exists => chat[c].exists
Researches ==
    /\ which \in {"chats", "versions", "pages"} /\ Answers!Next
    /\ \/ which = "chats" /\ NoVersions /\ UNCHANGED <<pager, clock>>
       \/ which = "versions" /\ OneChange /\ Known /\ UNCHANGED <<pager, clock>>
       \/ which = "pages" /\ NoVersions /\ Known /\ UNCHANGED <<chat, changes>>
    /\ UNCHANGED <<which, vars, shown, schema, backfills>>

Browses ==
    which = "shown" /\ Shown!Next /\ UNCHANGED <<which, vars, answers, schema, backfills>>

Migrates ==
    which = "schema" /\ Schema!MigrationsNext
    /\ UNCHANGED <<which, vars, answers, shown, backfills>>

Groups ==
    which = "backfill" /\ Grouping!BackfillNext
    /\ UNCHANGED <<which, vars, answers, shown, schema>>

RequestsSpec ==
    RequestsInit
    /\ [][Retries \/ Researches \/ Browses \/ Migrates \/ Groups]_<<
          which, vars, answers, shown, schema, backfills>>

\* A node fails on its own.
Independent == [n \in Node |-> {}]

Symmetry == Permutations(Target) \cup Permutations(Request) \cup Permutations(Key)
-----------------------------------------------------------------------------
\* The versions of an answer are one chain, whoever asks for them, and nobody is
\* refused without a reason.
AnswersAreLinear == which \in {"chats", "versions", "pages"} => Answers!AnswersAreLinear

\* A client that pages to the end has seen each question once.
PagingIsComplete == which = "pages" => Answers!PagingIsComplete

\* Handing a question over from record to page never drops it from the screen.
HandoverKeepsTurns == Shown!HandoverKeepsTurns

\* The ledger of the migrations says what took effect, whatever checkouts the
\* operators apply from; and a run of the backfill that says it is complete, is.
MigrationsAreHonest ==
    /\ which = "schema" => Schema!LedgerIsTruthful
    /\ which = "backfill" => Grouping!BackfillIsHonest
=============================================================================
