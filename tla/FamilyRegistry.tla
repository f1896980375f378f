--------------------------- MODULE FamilyRegistry ---------------------------
(***************************************************************************)
(* Which family a document belongs to, which versions a family has, and    *)
(* what the knowledge graph holds of a document.  Two programs write them: *)
(* the registration of a version, part of storing a crawled document (and  *)
(* of a backfill), and the graph extraction, which runs afterwards in a    *)
(* transaction of its own, or in the retry worker's.  Both look a family   *)
(* up first and insert it later, both may move a version to another        *)
(* family, and each works out a family's latest version from what it sees. *)
(*                                                                         *)
(* A transaction looks, writes (what it writes stays with the worker and   *)
(* its rows are locked) and commits, or it is lost.                        *)
(***************************************************************************)
EXTENDS Integers, Sequences

CONSTANTS
    Worker,         \* processes that crawl, retry or backfill
    Document,       \* documents of one issuer
    Noisy,          \* titles that a better one may replace
    Candidates,     \* what title and text of a version may be read as
    Findings,       \* what an extraction may say about the family
    MaxVersion,     \* versions of a document
    MaxOperations,  \* transactions begun
    MaxGraphFaults  \* extractions in which statements fail

VARIABLES
    newest,     \* documents, document_versions: the newest version, 0: none
    families,   \* document_families by family_id: title, latest version
    assigned,   \* document_family_assignments: the family, 0: none
    registry,   \* document_version_registry by registry_version_id
    entities,   \* regulatory_graph_entities: the documents' own, and "issuer"
    catalog,    \* regulatory_entity_catalog: the entities mirrored there
    graph,      \* the version whose entities and edges were stored last, 0: none
    audit,      \* regulatory_graph_extractions
    worker, operations, faulty,
    stale,      \* families whose latest version was worked out without another's rows
    rewritten,  \* registry rows that changed number or family, or that the graph linked
    unmarked    \* documents whose graph was stored by an extraction without any mark

tables == <<newest, families, assigned, registry, entities, catalog, graph, audit>>
history == <<stale, rewritten, unmarked>>
vars == <<tables, worker, operations, faulty, history>>

Nothing == "nothing"
Issuer == "issuer"
Reading(t, n, d, r) == [title |-> t, number |-> n, date |-> d, relates |-> r]

\* A text no family can be resolved from, or an extraction without a confident name;
\* a text too short to extract from.
Unknown == Reading(Nothing, 0, 0, FALSE)
Short == Reading(Nothing, 0, 0, TRUE)

Resting == [phase |-> "idle"]

Init ==
    /\ newest = [d \in Document |-> 0]
    /\ families = <<>>
    /\ assigned = [d \in Document |-> 0]
    /\ registry = <<>>
    /\ entities = {} /\ catalog = {}
    /\ graph = [d \in Document |-> 0]
    /\ audit = [d \in Document |-> [status |-> "NONE", version |-> 0]]
    /\ worker = [w \in Worker |-> Resting]
    /\ operations = 0 /\ faulty = 0
    /\ stale = {} /\ rewritten = {} /\ unmarked = {}
-----------------------------------------------------------------------------
Titled(t) == {f \in DOMAIN families : families[f].title = t}

Found(t) == IF Titled(t) = {} THEN 0 ELSE CHOOSE f \in Titled(t) : TRUE

\* The row of a version, and the rows as a transaction sees them: those committed
\* and its own.
RowOf(v) ==
    LET rows == {i \in DOMAIN registry : registry[i].version = v}
    IN  IF rows = {} THEN 0 ELSE CHOOSE i \in rows : TRUE

Seen(row) ==
    LET i == RowOf(row.version)
    IN  IF i = 0 THEN Append(registry, row) ELSE [registry EXCEPT ![i] = row]

Members(rows, f) == {i \in DOMAIN rows : rows[i].family = f}

\* The first of a set of rows when they are ordered, the later row first among equals.
First(S, Before(_, _)) ==
    CHOOSE i \in S : \A j \in S \ {i} : Before(i, j) \/ (~Before(j, i) /\ i > j)

\* A family's latest version: a registration orders by date and number, the graph by
\* date alone.
LatestByNumber(rows, f) ==
    LET Before(i, j) == \/ rows[i].date > rows[j].date
                        \/ rows[i].date = rows[j].date /\ rows[i].number > rows[j].number
    IN  rows[First(Members(rows, f), Before)].version

LatestByDate(rows, f) ==
    LET Before(i, j) == rows[i].date > rows[j].date
    IN  rows[First(Members(rows, f), Before)].version

\* Variant: a row of any family will do.
ParentAnywhere(f, n) ==
    LET earlier == {i \in DOMAIN registry : registry[i].number \in 1..(n - 1)}
        Before(i, j) == registry[i].number > registry[j].number
    IN  IF n < 2 \/ earlier = {} THEN 0 ELSE First(earlier, Before)

\* The parent a registration finds: the highest number below its own among the rows
\* that are there, an earlier row of the same version included.
Parent(f, n) ==
    LET earlier == {i \in Members(registry, f) : registry[i].number \in 1..(n - 1)}
        Before(i, j) == registry[i].number > registry[j].number
    IN  IF n < 2 \/ earlier = {} THEN 0 ELSE First(earlier, Before)

\* The prior version the graph links to: the highest number of all others.
Prior(rows, f, own) ==
    LET others == Members(rows, f) \ {own}
        Before(i, j) == \/ rows[i].number > rows[j].number
                        \/ rows[i].number = rows[j].number /\ rows[i].date > rows[j].date
    IN  IF others = {} THEN 0 ELSE First(others, Before)
-----------------------------------------------------------------------------
Start(w) ==
    /\ worker[w].phase = "idle" /\ operations < MaxOperations
    /\ operations' = operations + 1
    /\ UNCHANGED <<tables, faulty, history>>

\* Storing a crawled document locks its row, adds a version where the content is new,
\* and looks for the family of what it was read as.  A backfill does the same with the
\* newest version.
BeginRegistration(w, d, new, c) ==
    /\ Start(w)
    /\ ~\E o \in Worker : worker[o].phase # "idle" /\ worker[o].kind = "register"
                          /\ worker[o].doc = d
    /\ IF new THEN newest[d] < MaxVersion ELSE newest[d] > 0
    /\ worker' = [worker EXCEPT ![w] =
            [phase |-> "looked", kind |-> "register", doc |-> d,
             version |-> newest[d] + (IF new THEN 1 ELSE 0),
             reading |-> c, family |-> Found(c.title)]]

\* An extraction runs unless that of the version has ended well already; the retry
\* worker takes the documents whose last one did not.
BeginExtraction(w, d) ==
    /\ Start(w)
    /\ newest[d] > 0
    /\ audit[d].status \notin {"COMPLETED", "SKIPPED"} \/ audit[d].version # newest[d]
    /\ worker' = [worker EXCEPT ![w] =
            [phase |-> "checked", kind |-> "graph", doc |-> d, version |-> newest[d]]]

\* A transaction that holds the document's one row of the audit.
Marks(o, d) ==
    /\ worker[o].phase \in {"looked", "written"}
    /\ worker[o].kind = "graph" /\ worker[o].doc = d /\ worker[o].marked

\* It marks that row as PENDING and as PROCESSING, waiting for whoever holds it, reads
\* the text, and looks for the entities and the family.  Either mark may fail, which
\* is only logged: marked says that one of them held.  A short text has no such marks.
Extract(w, x, marked) ==
    LET me == worker[w]
    IN  /\ me.phase = "checked"
        /\ marked => x # Short /\ ~\E o \in Worker : Marks(o, me.doc)
        /\ faulty' = faulty + (IF marked \/ x = Short THEN 0 ELSE 1)
        /\ faulty' <= MaxGraphFaults
        /\ worker' = [worker EXCEPT ![w] =
                [phase |-> "looked", kind |-> "graph", doc |-> me.doc, version |-> me.version,
                 reading |-> x, marked |-> marked, had |-> entities \cap {me.doc, Issuer},
                 before |-> assigned[me.doc],
                 family |-> IF assigned[me.doc] = 0 THEN Found(x.title) ELSE assigned[me.doc]]]
        /\ UNCHANGED <<tables, operations, history>>
-----------------------------------------------------------------------------
\* A transaction waits for a row that another has written and not committed.
Writers == {o \in Worker : worker[o].phase = "written"}

Waits(me) ==
    \E o \in Writers :
        \/ (worker[o].family # 0 \/ worker[o].kind = "register") /\ worker[o].doc = me.doc
        \/ me.reading.title # Nothing /\ worker[o].title = me.reading.title
        \/ me.kind = "graph" /\ Issuer \notin me.had /\ worker[o].issues
        \/ me.kind = "graph" /\ worker[o].stores /\ worker[o].doc = me.doc

\* What a transaction has written and will commit.  A family it inserted is New until
\* then: it has no other rows, and no other transaction can see it.
New == -1

Written(me, f, title, row, latest, outcome) ==
    [phase |-> "written", kind |-> me.kind, doc |-> me.doc, version |-> me.version,
     family |-> f, title |-> title, row |-> row, latest |-> latest, outcome |-> outcome,
     marked |-> FALSE, stores |-> FALSE, issues |-> FALSE, mirrors |-> FALSE,
     links |-> FALSE, behind |-> FALSE]

(***************************************************************************)
(* The registration writes the assignment, the version with its parent     *)
(* (and the relation between the two) and the family's latest version; of  *)
(* an unknown family only the assignment.  A family of its title that has  *)
(* been inserted since it looked fails the whole transaction.              *)
(***************************************************************************)
WriteRegistration(w) ==
    LET me == worker[w]
        c == me.reading
        f == CASE c = Unknown -> 0 [] c # Unknown /\ me.family = 0 -> New [] OTHER -> me.family
        row == [version |-> <<me.doc, me.version>>, family |-> f, number |-> c.number,
                date |-> c.date, parent |-> Parent(f, c.number)]
    IN  /\ me.phase = "looked" /\ me.kind = "register" /\ ~Waits(me)
        /\ f = New => Titled(c.title) = {}
        /\ worker' = [worker EXCEPT ![w] =
                Written(me, f, IF f = New THEN c.title ELSE Nothing, row,
                        IF f = 0 THEN <<>> ELSE LatestByNumber(Seen(row), f), "REGISTERED")]
        /\ UNCHANGED <<tables, operations, faulty, history>>

\* The version's row as the graph changes it: its number becomes what the extraction
\* says, its date only where there is one, and a parent it has is kept.
GraphRow(v, f, x) ==
    LET i == RowOf(v)
        row == IF i = 0
               THEN [version |-> v, family |-> f, number |-> x.number, date |-> x.date,
                     parent |-> 0]
               ELSE [registry[i] EXCEPT !.family = f, !.number = x.number,
                                        !.date = IF x.date = 0 THEN @ ELSE x.date]
    IN  IF x.relates /\ row.parent = 0
        THEN [row EXCEPT !.parent = Prior(Seen(row), f, IF i = 0 THEN Len(registry) + 1 ELSE i)]
        ELSE row

\* The document has a family, whose title this one may replace.
Better(me) ==
    me.before # 0 /\ families[me.before].title \in Noisy /\ me.reading.title \notin Noisy

\* An entity that was missing, its own or the issuer's, has been inserted since.
EntityIsTaken(me) == ({me.doc, Issuer} \ me.had) \cap entities # {}

(***************************************************************************)
(* The extraction's writes stand in one savepoint: entities, each mirrored *)
(* in the catalogue in a savepoint of its own, edges, and for a confident  *)
(* name the family.  What fails is recorded as FAILED.  A document that    *)
(* has a family keeps it, and may give it a better title.  The last mark,  *)
(* too, may fail (~ends): then the row is left at what an earlier mark     *)
(* made of it, PROCESSING (or PENDING), or where there was none unmarked,  *)
(* as an earlier extraction left it.                                       *)
(***************************************************************************)
WriteExtraction(w, outcome, ends) ==
    LET me == worker[w]
        x == me.reading
        v == <<me.doc, me.version>>
        names == x \notin {Unknown, Short}
        f == CASE ~names -> 0 [] names /\ me.family = 0 -> New [] OTHER -> me.family
        title == IF f = New \/ (names /\ Better(me)) THEN x.title ELSE Nothing
        row == GraphRow(v, f, x)
        refused == \/ title # Nothing /\ Titled(x.title) # {}
                   \/ EntityIsTaken(me)
        mark == IF ends THEN outcome ELSE IF me.marked THEN "PROCESSING" ELSE "UNMARKED"
        stored == [Written(me, f, title, row, IF names THEN LatestByDate(Seen(row), f) ELSE <<>>,
                           mark)
                   EXCEPT !.marked = me.marked \/ ends, !.stores = TRUE,
                          !.issues = Issuer \notin me.had, !.links = row.parent # 0 /\ x.relates]
        empty == [Written(me, 0, Nothing, [row EXCEPT !.family = 0], <<>>, mark)
                  EXCEPT !.marked = me.marked \/ ends]
        \* statements fail, for the first time in this extraction
        fails(so) == IF so /\ (me.marked \/ x = Short) THEN 1 ELSE 0
    IN  /\ me.phase = "looked" /\ me.kind = "graph" /\ ~Waits(me)
        /\ ends => ~\E o \in Worker \ {w} : Marks(o, me.doc)
        /\ \/ x = Short /\ outcome = "SKIPPED"
              /\ faulty' = faulty + fails(~ends)
              /\ worker' = [worker EXCEPT ![w] = empty]
           \/ x # Short /\ ~refused /\ outcome = "COMPLETED"
              /\ \E mirrored \in BOOLEAN :
                    /\ faulty' = faulty + fails(~ends \/ ~mirrored)
                    /\ worker' = [worker EXCEPT ![w] = [stored EXCEPT !.mirrors = mirrored]]
           \/ x # Short /\ outcome = "FAILED"
              /\ faulty' = faulty + fails(~ends \/ ~refused)
              /\ worker' = [worker EXCEPT ![w] = empty]
        /\ faulty' <= MaxGraphFaults
        /\ UNCHANGED <<tables, operations, history>>
-----------------------------------------------------------------------------
\* What a commit leaves behind: a family's latest version was worked out without the
\* rows of a transaction that has committed since, or without one of its versions.
Aftermath(me, f, i, row) ==
    LET from == IF i = 0 THEN 0 ELSE registry[i].family
    IN  /\ stale' = (stale \ {f}) \cup (IF me.behind THEN {f} ELSE {})
                                  \cup (IF from \in {0, f} THEN {} ELSE {from})
        /\ rewritten' = rewritten
                \cup (IF i # 0 /\ (from # f \/ registry[i].number # row.number)
                      THEN {i} ELSE {})
                \cup (IF me.links THEN {IF i = 0 THEN Len(registry) + 1 ELSE i} ELSE {})
        /\ worker' = [o \in Worker |->
                IF worker[o] = me THEN Resting
                ELSE IF o \in Writers /\ worker[o].family \in {f, from} \ {0}
                     THEN [worker[o] EXCEPT !.behind = TRUE] ELSE worker[o]]

CommitFamily(me) ==
    LET f == IF me.family = New THEN Len(families) + 1 ELSE me.family
        row == [me.row EXCEPT !.family = f]
        i == RowOf(row.version)
    IN  /\ families' = IF me.family = New
                       THEN Append(families, [title |-> me.title, latest |-> me.latest])
                       ELSE [families EXCEPT ![f] =
                                [title |-> IF me.title = Nothing THEN @.title ELSE me.title,
                                 latest |-> me.latest]]
        /\ assigned' = [assigned EXCEPT ![me.doc] = f]
        /\ registry' = Seen(row)
        /\ Aftermath(me, f, i, row)

\* The document's own entity and the issuer's; their mirrors; the links and edges, which
\* are the document's; its one row of the audit.
EntitiesWith(me) == IF me.stores THEN entities \cup {me.doc, Issuer} ELSE entities

CatalogWith(me) == IF me.stores /\ me.mirrors THEN catalog \cup {me.doc, Issuer} ELSE catalog

GraphWith(me) == IF me.stores THEN [graph EXCEPT ![me.doc] = me.version] ELSE graph

AuditWith(me) ==
    IF me.kind = "register" \/ me.outcome = "UNMARKED" THEN audit
    ELSE [audit EXCEPT ![me.doc] = [status |-> me.outcome, version |-> me.version]]

UnmarkedWith(me) ==
    IF ~me.stores THEN unmarked
    ELSE IF me.outcome = "UNMARKED" THEN unmarked \cup {me.doc} ELSE unmarked \ {me.doc}

Commit(w) ==
    LET me == worker[w]
    IN  /\ me.phase = "written"
        /\ IF me.family # 0 THEN CommitFamily(me)
           ELSE /\ assigned' = IF me.kind = "register" THEN [assigned EXCEPT ![me.doc] = 0]
                               ELSE assigned
                /\ worker' = [worker EXCEPT ![w] = Resting]
                /\ UNCHANGED <<families, registry, stale, rewritten>>
        /\ newest' = IF me.kind = "register" THEN [newest EXCEPT ![me.doc] = me.version]
                     ELSE newest
        /\ audit' = AuditWith(me) /\ unmarked' = UnmarkedWith(me)
        /\ graph' = GraphWith(me)
        /\ entities' = EntitiesWith(me)
        /\ catalog' = CatalogWith(me)
        /\ UNCHANGED <<operations, faulty>>

\* A crash, a lost connection or a statement that fails: the transaction leaves nothing.
Lose(w) ==
    /\ worker[w].phase # "idle"
    /\ worker' = [worker EXCEPT ![w] = Resting]
    /\ UNCHANGED <<tables, operations, faulty, history>>

\* What the phase rules out is left out of the choice of inputs.
Next ==
    \E w \in Worker :
        \/ worker[w].phase = "idle" /\ \E d \in Document :
              \/ \E new \in BOOLEAN, c \in Candidates : BeginRegistration(w, d, new, c)
              \/ BeginExtraction(w, d)
        \/ worker[w].phase = "checked" /\ \E x \in Findings, marked \in BOOLEAN :
              Extract(w, x, marked)
        \/ WriteRegistration(w)
        \/ worker[w].phase = "looked" /\
              \E o \in {"SKIPPED", "COMPLETED", "FAILED"}, ends \in BOOLEAN :
              WriteExtraction(w, o, ends)
        \/ Commit(w)
        \/ Lose(w)

Spec == Init /\ [][Next]_vars
-----------------------------------------------------------------------------
\* The latest version of a family is one of its own and no other of its versions has a
\* later date, unless it was last worked out while another transaction was writing, or
\* a version has left since.
LatestIsNewest ==
    \A f \in DOMAIN families \ stale :
        \E i \in Members(registry, f) :
            /\ families[f].latest = registry[i].version
            /\ \A j \in Members(registry, f) : registry[j].date <= registry[i].date

\* A version descends from a lower one of its own family, where neither was renumbered
\* or moved since and the parent is not the graph's.
LineageDescends ==
    \A i \in DOMAIN registry \ rewritten :
        LET p == registry[i].parent
        IN  p \notin rewritten \cup {0} => /\ registry[p].family = registry[i].family
                                           /\ registry[p].number < registry[i].number

\* A version recorded as extracted is the one whose graph is stored, unless an extraction
\* that could not mark anything has stored its graph since; and nothing is in the
\* catalogue or recorded as extracted without its entities.
GraphIsTruthful ==
    /\ \A d \in Document : audit[d].status = "COMPLETED" =>
          d \in entities /\ (d \notin unmarked => graph[d] = audit[d].version)
    /\ catalog \subseteq entities

\* Registration and extraction, run together, leave the families, the lineage and the
\* graph coherent.
RegistryIsCoherent == LatestIsNewest /\ LineageDescends /\ GraphIsTruthful
=============================================================================
