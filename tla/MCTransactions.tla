--------------------------- MODULE MCTransactions ---------------------------
(***************************************************************************)
(* The safety of what several processes write to the database, each in     *)
(* transactions: crawl runs and what they leave behind, the indexing queue, *)
(* the families and the graph and the sessions of an account.  They share   *)
(* no state, so a behaviour is one of the component named by `which' and   *)
(* the others stay where they begin.  What acts in each of them is the     *)
(* same model values, which keeps the symmetry group small; no property    *)
(* compares them.                                                          *)
(* The sessions are instantiated with their theorems, so that               *)
(* TransactionsProofs can carry them over.                                 *)
(***************************************************************************)
EXTENDS CrawlIngest, TLC

CONSTANTS Indexer, Crawl, MaxVersion, MaxCrawls, MaxIndexFaults,
    Session, Request, None, FailLimit, MaxAuthVersion, MaxTokens, MaxMishaps,
    MaxOperations, MaxGraphFaults

VARIABLES
    which,
    latest, blank, crawl, job, doc, chunks, embedded, indexer, shared, crawls, indexFaults,
    account, session, userLock, sessionLock, request, jar, issued, crossed, happened,
    newest, families, assigned, registry, entities, catalog, deposited, audit, writer, operations,
    faulty, stale, rewritten, unmarked

indexing == <<latest, blank, crawl, job, doc, chunks, embedded, indexer, shared, crawls,
            indexFaults>>

Queue == INSTANCE RagIndexing WITH
    Worker <- Indexer, MaxFaults <- MaxIndexFaults, worker <- indexer, faults <- indexFaults

sessions == <<account, session, userLock, sessionLock, request, jar, issued, crossed,
              happened>>

Identity == INSTANCE IdentitySessionsProofs WITH
    MaxVersion <- MaxAuthVersion, MaxEvents <- MaxMishaps

graphs == <<newest, families, assigned, registry, entities, catalog, deposited, audit, writer,
            operations, faulty, stale, rewritten, unmarked>>

\* A code and its amendment, and the annexure that may be taken for either.
Code == [title |-> "code", number |-> 1, date |-> 1, relates |-> FALSE]
Amendment == [title |-> "code", number |-> 2, date |-> 2, relates |-> TRUE]
Annexure == [title |-> "annexure", number |-> 1, date |-> 1, relates |-> FALSE]
Unread == [title |-> "nothing", number |-> 0, date |-> 0, relates |-> FALSE]

Candidates == {Unread, Code, Amendment, Annexure}
Findings == {Unread, [Unread EXCEPT !.relates = TRUE],
             [Code EXCEPT !.date = 0, !.relates = TRUE], [Amendment EXCEPT !.relates = FALSE]}

Families == INSTANCE FamilyRegistry WITH
    Worker <- Indexer, Document <- Crawl, Noisy <- {"annexure"},
    worker <- writer, graph <- deposited

TransactionsInit ==
    /\ which \in {"crawl", "queue", "registry", "identity"}
    /\ Init /\ Queue!Init /\ Families!Init /\ Identity!Init

\* Bound: operators' passes are looked at for the last document that appears.
PassesAtLast == \A p \in Pass : pass'[p].doc \in {0, MaxDocs}

Crawls ==
    which = "crawl" /\ Next /\ PassesAtLast /\ UNCHANGED <<which, indexing, graphs, sessions>>
Indexes == which = "queue" /\ Queue!Next /\ UNCHANGED <<which, vars, graphs, sessions>>
Registers == which = "registry" /\ Families!Next /\ UNCHANGED <<which, vars, indexing, sessions>>
SignsIn == which = "identity" /\ Identity!Next /\ UNCHANGED <<which, vars, indexing, graphs>>

TransactionsSpec ==
    TransactionsInit
    /\ [][Crawls \/ Indexes \/ Registers \/ SignsIn]_<<which, vars, indexing, graphs, sessions>>

Symmetry == Permutations(Run) \cup Permutations(Crawl)
-----------------------------------------------------------------------------
\* Where no two live workers met, what is recorded as done can be searched, and
\* a version is ready only after its own chunks were written.
IndexIsTruthful == which = "queue" => Queue!IndexIsTruthful

\* Registration and extraction, run together, leave the families, the lineage and the
\* graph coherent.
RegistryIsCoherent == which = "registry" => Families!RegistryIsCoherent

\* A job that is done stays done, with the same exception.
CompletedIsFinal == Queue!CompletedIsFinal

\* Whoever changes the password leaves no live session of an earlier version,
\* and a browser without overlapping requests and lost answers stays signed in.
SessionsConsistent == which = "identity" => Identity!SessionsConsistent

\* Only a logout or a revocation can be part of a deadlock.
DeadlockNeedsSessionFirst == which = "identity" => Identity!DeadlockNeedsSessionFirst

\* A session that was revoked is never live again.
RevokedIsFinal == Identity!RevokedIsFinal
=============================================================================
