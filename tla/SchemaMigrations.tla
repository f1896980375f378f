--------------------------- MODULE SchemaMigrations ---------------------------
(***************************************************************************)
(* The migration runner (core/migrations.py) as operators use it           *)
(* (tools/apply_migration.py): apply, status, baseline and mark-existing,   *)
(* each under the advisory lock, in several transactions of one connection, *)
(* from checkouts of the repository that need not agree.                   *)
(*                                                                         *)
(* A checkout is the set of its files, taken in the order of their         *)
(* versions; a file is its version and its checksum, and what its SQL does *)
(* is that it is in `effects'.  A baseline is asked for and a migration is done by hand  *)
(* only as the acknowledgements of the tool demand.                        *)
(***************************************************************************)
EXTENDS Integers, FiniteSets

CONSTANTS
    Operator,
    Trees,         \* what a checkout may hold: sets of files
    BaselineMax,   \* LEGACY_BASELINE_MAX_VERSION
    Pinned,        \* the files of EXISTING_MIGRATION_SPECS
    MaxCommands,   \* bound: commands that operators give
    MaxByHand      \* bound: migrations done by hand

Files == UNION Trees

VARIABLES
    table,         \* whether public.schema_migrations is there
    ledger,        \* the files that it records
    effects,       \* the files whose SQL took effect, by whomever
    ran,           \* history: how often a file was run from the ledger's side
    byHand,        \* history: the files that were done by hand, or before the ledger
    migrationLock, \* who holds MIGRATION_ADVISORY_LOCK_ID
    command,       \* what each operator is at
    commands

migrations == <<table, ledger, effects, ran, byHand, migrationLock, command, commands>>

NoCommand == [kind |-> "none", tree |-> {}, through |-> 0, pc |-> "idle", plan |-> {}]

-----------------------------------------------------------------------------
Upto(t, n) == {f \in t : n = 0 \/ f.version <= n}

\* discover_migrations accepts the directory: no version is there twice.
Discoverable(t) == t # {} /\ \A f, g \in t : f.version = g.version => f = g

\* The files of S are the first ones of a checkout.
Begins(S, t) == S \subseteq t /\ \A f \in t \ S, g \in S : g.version < f.version

\* plan_pending_migrations raises MigrationDriftError: a recorded file is not in
\* the checkout as it was, or the recorded ones are not its first ones.
Drifted(t) == ~Begins(ledger, t)

\* plan_pending_migrations
Pending(t, n) == Upto(t, n) \ ledger

\* Variant: a migration is marked for its checksum alone.
VerifiedByChecksum(f) == f \in Pinned

\* verify_existing_migration finds every object of the migration.
Verified(f) == f \in Pinned /\ f \in effects

-----------------------------------------------------------------------------
\* A database from before the ledger has the legacy files, done by nobody's
\* record, or nothing.
MigrationsInit ==
    /\ table = FALSE
    /\ ledger = {}
    /\ \E t \in Trees : effects \in {{}, Upto(t, BaselineMax)}
    /\ ran = [f \in Files |-> 0]
    /\ byHand = effects
    /\ migrationLock = "none"
    /\ command = [o \in Operator |-> NoCommand]
    /\ commands = 0

Goes(o, pc) == command' = [command EXCEPT ![o].pc = pc]

\* The command is over, one way or another: migration_lock rolls back what is
\* open and unlocks.
Ends(o) == command' = [command EXCEPT ![o] = NoCommand] /\ migrationLock' = "none"

Ledger == <<table, ledger, effects, ran, byHand>>

\* main: an operator gives a command in a checkout.  The acknowledgement of a
\* baseline says that the live schema was verified.
Give(o) ==
    /\ commands < MaxCommands /\ command[o].pc = "idle"
    /\ \E kind \in {"apply", "status", "baseline", "mark"}, t \in Trees :
       \E n \in {0} \cup {f.version : f \in t} :
        /\ Discoverable(t)
        /\ kind \in {"baseline", "mark"} => n # 0
        /\ kind = "baseline" => n <= BaselineMax /\ Upto(t, n) \subseteq effects
        /\ command' = [command EXCEPT ![o] =
                          [kind |-> kind, tree |-> t, through |-> n, pc |-> "lock", plan |-> {}]]
    /\ commands' = commands + 1
    /\ UNCHANGED <<Ledger, migrationLock>>

\* migration_lock; mark-existing goes straight to its one transaction.
Lock(o) ==
    /\ command[o].pc = "lock" /\ migrationLock = "none"
    /\ migrationLock' = o
    /\ Goes(o, IF command[o].kind = "mark" THEN "plan" ELSE "ensure")
    /\ UNCHANGED <<Ledger, commands>>

\* ensure_migration_table, in a transaction of its own
Ensure(o) ==
    /\ command[o].pc = "ensure"
    /\ table' = TRUE
    /\ Goes(o, "plan")
    /\ UNCHANGED <<ledger, effects, ran, byHand, migrationLock, commands>>

\* The transaction that reads the ledger: apply_pending_migrations goes on with
\* a plan, get_migration_status is done, baseline_legacy_migrations and
\* mark_existing_migrations record their files or none.
Plan(o) ==
    /\ command[o].pc = "plan"
    /\ LET c == command[o]
           pending == Pending(c.tree, c.through)
       IN \/ /\ c.kind = "status" \/ Drifted(c.tree) \/ (c.kind = "mark" /\ ~table)
             /\ Ends(o) /\ UNCHANGED ledger
          \/ /\ c.kind = "apply" /\ ~Drifted(c.tree)
             /\ command' = [command EXCEPT ![o].pc = "apply", ![o].plan = pending]
             /\ UNCHANGED <<ledger, migrationLock>>
          \/ /\ c.kind = "baseline" /\ ~Drifted(c.tree) /\ Ends(o)
             /\ ledger' = IF ledger = {} THEN Upto(c.tree, c.through) ELSE ledger
          \/ /\ c.kind = "mark" /\ table /\ ~Drifted(c.tree) /\ Ends(o)
             /\ ledger' = IF \A f \in pending : Verified(f)
                          THEN ledger \cup pending ELSE ledger
    /\ UNCHANGED <<table, effects, ran, byHand, commands>>

\* apply_migration: the SQL and its record, in one transaction; when it fails
\* the command raises and the rest of the plan is left.
Apply(o, succeeds) ==
    /\ command[o].pc = "apply"
    /\ \E f \in command[o].plan :
        /\ \A g \in command[o].plan : f.version <= g.version
        /\ IF succeeds
           THEN /\ effects' = effects \cup {f}
                /\ ran' = [ran EXCEPT ![f] = @ + 1]
                /\ ledger' = ledger \cup {f}
                /\ command' = [command EXCEPT ![o].plan = @ \ {f}]
                /\ UNCHANGED migrationLock
           ELSE Ends(o) /\ UNCHANGED <<effects, ran, ledger>>
    /\ UNCHANGED <<table, byHand, commands>>

Finish(o) ==
    /\ command[o].pc = "apply" /\ command[o].plan = {}
    /\ Ends(o)
    /\ UNCHANGED <<Ledger, commands>>

\* The connection or its process is gone; the server rolls back and unlocks.
Die(o) ==
    /\ command[o].pc # "idle"
    /\ command' = [command EXCEPT ![o] = NoCommand]
    /\ migrationLock' = IF migrationLock = o THEN "none" ELSE migrationLock
    /\ UNCHANGED <<Ledger, commands>>

\* Someone runs the SQL of a migration without the runner, in its turn.
ByHand(f) ==
    /\ Cardinality(byHand) < MaxByHand
    /\ f \notin effects /\ \E t \in Trees : f \in t /\
          \A g \in t : g.version < f.version => g \in effects
    /\ effects' = effects \cup {f}
    /\ byHand' = byHand \cup {f}
    /\ UNCHANGED <<table, ledger, ran, migrationLock, command, commands>>

MigrationsNext ==
    \/ \E o \in Operator :
          Give(o) \/ Lock(o) \/ Ensure(o) \/ Plan(o) \/ Finish(o) \/ Die(o)
          \/ \E succeeds \in BOOLEAN : Apply(o, succeeds)
    \/ \E f \in Files : ByHand(f)

MigrationsSpec == MigrationsInit /\ [][MigrationsNext]_migrations

-----------------------------------------------------------------------------
\* What the ledger records is there and was run once, by the runner unless it
\* was done by hand; what the runner ran is recorded; and the recorded files are
\* the first ones of a checkout, with none of another between them.
LedgerIsTruthful ==
    /\ ledger \subseteq effects
    /\ \A f \in Files : ran[f] <= 1 /\ (f \in ledger => ran[f] = 1 \/ f \in byHand)
    /\ \A f \in effects : f \in ledger \/ f \in byHand
    /\ \E t \in Trees : Begins(ledger, t)
==============================================================================
