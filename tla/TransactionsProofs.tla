-------------------------- MODULE TransactionsProofs --------------------------
(***************************************************************************)
(* Proofs about what several processes write to the database.              *)
(*                                                                         *)
(* First crawl runs and what they leave behind, for any number of runs,    *)
(* passes and documents and any limit of a page.  Three arguments that do  *)
(* not depend on each other, each with the part of the invariant it needs: *)
(* a row and the one worker that may execute it (RunsSound); a page, on    *)
(* which every document that is not newer than what a worker found is      *)
(* stored, missed or still in the worker's hands (PagesSound); and events, *)
(* where of two that mean to create the event of one document the later    *)
(* one has put it on record (EventsSound).                                 *)
(*                                                                         *)
(* Then the families, versions and graphs of documents (FamiliesInv), and  *)
(* the indexing queue (IndexInv); and at the end the composition           *)
(* MCTransactions, whose behaviours are those of its components, so that   *)
(* these theorems and those about the sessions of an account               *)
(* (IdentitySessionsProofs) hold of it, for every value of its constants.  *)
(***************************************************************************)
EXTENDS MCTransactions, Sequences, WellFoundedInduction, TLAPS

Rows == {"none", "queued", "running"} \cup Ended
Pcs == {"gone", "mark", "load", "scrape", "persist", "begin", "commit", "finalize", "unsure"}

Actor ==
    [pc : Pcs, since : 0..MaxDocs, found : SUBSET Doc, todo : SUBSET Doc,
     doc : 0..MaxDocs, create : BOOLEAN, skip : BOOLEAN, ok : BOOLEAN]

\* Among finitely many things with a grade one has the highest.
LEMMA HighestExists ==
    ASSUME NEW n \in Nat, NEW S \in SUBSET (1..n), S # {},
           NEW top \in Nat, NEW g \in [S -> 0..top]
    PROVE  \E i \in S : \A j \in S : g[j] <= g[i]
<1> DEFINE T == {top - g[k] : k \in S}
<1>1. T \subseteq Nat /\ T # {}
  <2>1. \A k \in S : top - g[k] \in Nat
      OBVIOUS
  <2> QED
      BY <2>1
<1>2. PICK x \in T : \A y \in T : ~(<<y, x>> \in OpToRel(<, Nat))
    BY <1>1, WFMin, NatLessThanWellFounded
<1>3. \A y \in T : x <= y
  <2>1. \A y \in T : ~(y < x)
      BY <1>1, <1>2 DEF OpToRel
  <2> QED
      BY <1>1, <2>1
<1>4. PICK i \in S : x = top - g[i]
    OBVIOUS
<1>5. ASSUME NEW j \in S PROVE g[j] <= g[i]
  <2>1. top - g[j] \in T
      OBVIOUS
  <2>2. top - g[i] <= top - g[j]
      BY <1>3, <1>4, <2>1
  <2> HIDE DEF T
  <2>3. g[i] \in 0..top /\ g[j] \in 0..top
      OBVIOUS
  <2> QED
      BY <2>2, <2>3
<1> QED
    BY <1>5

\* A set of documents that is not empty has a newest one.
LEMMA NewestExists ==
    ASSUME NEW n \in Nat, NEW S \in SUBSET (1..n), S # {}
    PROVE  Max(S) \in S /\ \A d \in S : d <= Max(S)
<1>1. [d \in S |-> d] \in [S -> 0..n]
    OBVIOUS
<1>2. PICK m \in S : \A d \in S : [e \in S |-> e][d] <= [e \in S |-> e][m]
    BY <1>1, HighestExists
<1>3. \A d \in S : d \in Int /\ d <= m
    BY <1>2
<1>4. Max(S) \in S /\ \A d \in S : Max(S) >= d
    BY <1>3 DEF Max
<1> QED
    BY <1>3, <1>4

-----------------------------------------------------------------------------
(* What the stages make of an actor's record.                              *)

LEMMA GoneType ==
    Gone \in Actor /\ Gone.pc = "gone" /\ Gone.create = FALSE
<1>1. MaxDocs \in Nat
    BY CrawlIngestAssumption
<1> QED
    BY <1>1 DEF Gone, Actor, Pcs, Doc

LEMMA BegunFields ==
    ASSUME NEW w \in Actor, NEW b \in BOOLEAN
    PROVE  LET v == [w EXCEPT !.pc = "commit", !.skip = b] IN
           /\ v \in Actor /\ v.pc = "commit"
           /\ v.found = w.found /\ v.todo = w.todo /\ v.doc = w.doc 
           /\ v.create = w.create /\ v.ok = w.ok /\ v.since = w.since
BY DEF Actor, Pcs

Storing(w, t, d, b) == [w EXCEPT !.pc = "begin", !.todo = t, !.doc = d, !.create = b]
Scraping(w, f, t) == [w EXCEPT !.pc = "persist", !.found = f, !.todo = t]
Marking(w, pc, b) == [w EXCEPT !.pc = pc, !.ok = b]
Passing(w, d, b) == [w EXCEPT !.pc = "begin", !.doc = d, !.create = b]
Dropping(w, pc, d, b) == [w EXCEPT !.pc = pc, !.doc = d, !.create = b, !.skip = b]

LEMMA StoredFields ==
    ASSUME NEW w \in Actor, NEW t \in SUBSET Doc, NEW d \in 0..MaxDocs, NEW b \in BOOLEAN
    PROVE  LET v == Storing(w, t, d, b) IN
           /\ v \in Actor /\ v.pc = "begin"
           /\ v.found = w.found /\ v.todo = t /\ v.doc = d
           /\ v.create = b /\ v.ok = w.ok
BY DEF Actor, Pcs, Storing

LEMMA DroppedFields ==
    ASSUME NEW w \in Actor, NEW pc \in Pcs, NEW d \in 0..MaxDocs, NEW b \in BOOLEAN
    PROVE  LET v == Dropping(w, pc, d, b) IN
           /\ v \in Actor /\ v.pc = pc
           /\ v.found = w.found /\ v.todo = w.todo
           /\ v.create = b /\ v.ok = w.ok
BY DEF Actor, Pcs, Dropping

LEMMA ScrapedFields ==
    ASSUME NEW w \in Actor, NEW f \in SUBSET Doc, NEW t \in SUBSET Doc
    PROVE  LET v == Scraping(w, f, t) IN
           /\ v \in Actor /\ v.pc = "persist"
           /\ v.found = f /\ v.todo = t
           /\ v.create = w.create /\ v.ok = w.ok
BY DEF Actor, Pcs, Scraping

LEMMA LoadedFields ==
    ASSUME NEW w \in Actor, NEW c \in 0..MaxDocs
    PROVE  LET v == [w EXCEPT !.pc = "scrape", !.since = c] IN
           /\ v \in Actor /\ v.pc = "scrape"
           /\ v.since = c /\ v.create = w.create
BY DEF Actor, Pcs

LEMMA MovedFields ==
    ASSUME NEW w \in Actor, NEW pc \in Pcs
    PROVE  LET v == [w EXCEPT !.pc = pc] IN
           /\ v \in Actor /\ v.pc = pc
           /\ v.found = w.found /\ v.todo = w.todo
           /\ v.create = w.create /\ v.ok = w.ok /\ v.since = w.since
BY DEF Actor

LEMMA TodoFields ==
    ASSUME NEW w \in Actor, NEW t \in SUBSET Doc
    PROVE  LET v == [w EXCEPT !.todo = t] IN
           /\ v \in Actor /\ v.pc = w.pc
           /\ v.found = w.found /\ v.todo = t
           /\ v.create = w.create /\ v.ok = w.ok /\ v.since = w.since
BY DEF Actor

LEMMA MarkedFields ==
    ASSUME NEW w \in Actor, NEW pc \in Pcs, NEW b \in BOOLEAN
    PROVE  LET v == Marking(w, pc, b) IN
           /\ v \in Actor /\ v.pc = pc /\ v.ok = b /\ v.create = w.create
BY DEF Actor, Marking

LEMMA PassFields ==
    ASSUME NEW w \in Actor, NEW d \in 0..MaxDocs, NEW b \in BOOLEAN
    PROVE  LET v == Passing(w, d, b) IN
           /\ v \in Actor /\ v.pc = "begin" /\ v.doc = d /\ v.create = b
BY DEF Actor, Pcs, Passing

CrawlTypeOK ==
    /\ row \in [Run -> Rows] /\ old \subseteq Run /\ queue \subseteq Run
    /\ claims \in [Run -> Nat] /\ robbed \subseteq Run /\ twice \subseteq Run
    /\ worker \in [Process -> Actor] /\ pass \in [Pass -> Actor]
    /\ listed \in 0..MaxDocs /\ checkpoint \in 0..MaxDocs
    /\ stored \subseteq Doc /\ graph \in [Doc -> {"none", "completed", "failed"}]
    /\ events \in [Doc -> Nat]
    /\ missed \subseteq Doc /\ met \subseteq Doc /\ reseen \subseteq Doc

-----------------------------------------------------------------------------
(* What each step of a worker does.                                        *)

Others(k) == \A s \in Process : s # k => worker'[s] = worker[s]

Active == Pcs \ {"gone", "mark", "unsure"}

LEMMA StageShape ==
    ASSUME worker \in [Process -> Actor], NEW k \in Process, NEW w \in Actor, Stage(k, w)
    PROVE  worker' \in [Process -> Actor] /\ worker'[k] = w /\ Others(k)
BY DEF Stage, Others

LEMMA LoadShape ==
    ASSUME CrawlTypeOK, NEW k \in Process, LoadCheckpoint(k)
    PROVE  /\ worker' \in [Process -> Actor] /\ Others(k)
           /\ worker'[k].pc = "scrape" /\ worker'[k].since = checkpoint
           /\ ~worker'[k].create
<1>1. Gone \in Actor /\ checkpoint \in 0..MaxDocs /\ worker \in [Process -> Actor]
    BY GoneType DEF CrawlTypeOK
<1> DEFINE v == [Gone EXCEPT !.pc = "scrape", !.since = checkpoint]
<1>2. /\ v \in Actor /\ v.pc = "scrape" /\ v.since = checkpoint /\ v.create = Gone.create
    BY <1>1, LoadedFields
<1>3. Stage(k, v)
    BY DEF LoadCheckpoint
<1> HIDE DEF v
<1>4. worker' \in [Process -> Actor] /\ Others(k) /\ worker'[k] = v
    BY <1>1, <1>2, <1>3, StageShape
<1>5. ~worker'[k].create
    BY <1>2, <1>4, GoneType, Zenon
<1> QED
    BY <1>2, <1>4, <1>5

\* What the parsers emit is fresh.
LEMMA EmittedInDoc ==
    ASSUME NEW since \in 0..MaxDocs
    PROVE  Emitted(since) \subseteq Fresh(since) /\ Fresh(since) \subseteq Doc
BY DEF Emitted, Fresh

\* What was found is everything that is fresh and was not left out; what is
\* still to do is what was found and was not left out.
LEMMA ScrapeShape ==
    ASSUME CrawlTypeOK, NEW k \in Process, Scrape(k)
    PROVE  /\ worker' \in [Process -> Actor] /\ Others(k)
           /\ worker'[k].pc = "persist" /\ ~worker'[k].create
           /\ missed \subseteq missed' /\ missed' \subseteq Doc
           /\ worker'[k].ok =>
                 /\ worker'[k].found \subseteq Fresh(worker[k].since)
                 /\ Fresh(worker[k].since) \subseteq worker'[k].todo \cup missed'
<1> DEFINE w == worker[k]
           found == Emitted(w.since)
<1>1. /\ w \in Actor /\ worker \in [Process -> Actor] /\ missed \subseteq Doc
      /\ w.since \in 0..MaxDocs /\ Gone \in Actor
    BY GoneType DEF CrawlTypeOK, Actor
<1>2. found \subseteq Fresh(w.since) /\ Fresh(w.since) \subseteq Doc
    BY <1>1, EmittedInDoc
<1>3. ASSUME NEW t \in SUBSET Doc, found \subseteq t \cup missed',
             Stage(k, [Gone EXCEPT !.pc = "persist", !.found = found, !.todo = t]),
             missed \cup (Fresh(w.since) \ found) \subseteq missed', missed' \subseteq Doc
      PROVE  /\ worker' \in [Process -> Actor] /\ Others(k)
             /\ worker'[k].pc = "persist" /\ ~worker'[k].create
             /\ missed \subseteq missed' /\ missed' \subseteq Doc
             /\ worker'[k].found \subseteq Fresh(worker[k].since)
             /\ Fresh(worker[k].since) \subseteq worker'[k].todo \cup missed'
  <2> DEFINE v == Scraping(Gone, found, t)
  <2>0. found \in SUBSET Doc /\ t \in SUBSET Doc
      BY <1>1, <1>2
  <2> HIDE DEF found
  <2>1. v \in Actor /\ v.pc = "persist"
        /\ v.create = Gone.create /\ v.todo = t /\ v.found = found
      BY <1>1, <2>0, ScrapedFields
  <2>2. Stage(k, v)
      BY <1>3 DEF Scraping
  <2> HIDE DEF v
  <2>3. worker' \in [Process -> Actor] /\ Others(k) /\ worker'[k] = v
      BY <1>1, <2>1, <2>2, StageShape
  <2>4. ~worker'[k].create
      BY <2>1, <2>3, GoneType, Zenon
  <2> QED
      BY <1>2, <1>3, <2>1, <2>3, <2>4
<1>4. CASE Stage(k, [Gone EXCEPT !.pc = "persist", !.found = found, !.todo = found])
           /\ missed' = missed \cup (Fresh(w.since) \ found) \cup {}
    BY <1>1, <1>2, <1>3, <1>4
<1>5. ASSUME NEW d \in found,
             Stage(k, [Gone EXCEPT !.pc = "persist", !.found = found, !.todo = found \ {d}]),
             missed' = missed \cup (Fresh(w.since) \ found) \cup {d}
      PROVE  /\ worker' \in [Process -> Actor] /\ Others(k)
             /\ worker'[k].pc = "persist" /\ ~worker'[k].create
             /\ missed \subseteq missed' /\ missed' \subseteq Doc
             /\ worker'[k].found \subseteq Fresh(worker[k].since)
             /\ Fresh(worker[k].since) \subseteq worker'[k].todo \cup missed'
  <2>1. found \ {d} \in SUBSET Doc /\ found \subseteq (found \ {d}) \cup missed'
        /\ missed \cup (Fresh(w.since) \ found) \subseteq missed' /\ missed' \subseteq Doc
      BY <1>1, <1>2, <1>5
  <2> HIDE DEF found
  <2> QED
      BY <1>3, <1>5, <2>1
<1>6. CASE Stage(k, [Gone EXCEPT !.pc = "persist", !.ok = FALSE]) /\ UNCHANGED missed
  <2> DEFINE v == Marking(Gone, "persist", FALSE)
  <2>1. FALSE \in BOOLEAN /\ "persist" \in Pcs
      BY DEF Pcs
  <2>2. v \in Actor /\ v.pc = "persist" /\ v.create = Gone.create /\ v.ok = FALSE
      BY <1>1, <2>1, MarkedFields
  <2>3. Stage(k, v)
      BY <1>6 DEF Marking
  <2> HIDE DEF v
  <2>4. worker' \in [Process -> Actor] /\ Others(k) /\ worker'[k] = v
      BY <1>1, <2>2, <2>3, StageShape
  <2>5. ~worker'[k].create /\ ~worker'[k].ok
      BY <2>2, <2>4, GoneType, Zenon
  <2> QED
      BY <1>1, <1>6, <2>2, <2>4, <2>5
<1> QED
    BY <1>4, <1>5, <1>6 DEF Scrape

\* The next document of a page is one of those that are left.
LEMMA NextDocument ==
    ASSUME CrawlTypeOK, NEW k \in Process, worker[k].todo # {}
    PROVE  Max(worker[k].todo) \in worker[k].todo /\ Max(worker[k].todo) \in Doc
<1>1. worker[k].todo \in SUBSET (1..MaxDocs) /\ MaxDocs \in Nat
    BY CrawlIngestAssumption DEF CrawlTypeOK, Actor, Doc
<1> QED
    BY <1>1, NewestExists DEF Doc

StoresNext(k, d) ==
    /\ stored' = stored \cup {d}
    /\ worker'[k].pc = "begin" /\ worker'[k].doc = d
    /\ worker'[k].create <=> d \notin stored
    /\ d \notin stored /\ Creating(d) => d \in met'
    /\ d \in stored /\ events[d] = 0 => d \in reseen'
    /\ met \subseteq met' /\ met' \subseteq Doc
    /\ reseen \subseteq reseen' /\ reseen' \subseteq Doc
    /\ missed' = missed

LosesNext(k, d) ==
    /\ worker'[k].pc = "persist" /\ worker'[k].doc = worker[k].doc
    /\ worker'[k].create = worker[k].create
    /\ missed' = missed \cup {d}
    /\ UNCHANGED <<stored, met, reseen>>

LEMMA SessionAShape ==
    ASSUME CrawlTypeOK, NEW k \in Process, SessionA(k)
    PROVE  /\ worker[k].pc = "persist"
           /\ worker' \in [Process -> Actor] /\ Others(k)
           /\ worker'[k].ok = worker[k].ok /\ worker'[k].found = worker[k].found
           /\ \E d \in worker[k].todo :
                 /\ d \in Doc /\ worker'[k].todo = worker[k].todo \ {d}
                 /\ StoresNext(k, d) \/ LosesNext(k, d)
<1> DEFINE w == worker[k]
           d == Max(w.todo)
<1>1. /\ w \in Actor /\ worker \in [Process -> Actor] /\ w.pc = "persist" /\ w.todo # {}
      /\ w.todo \in SUBSET Doc /\ met \subseteq Doc /\ reseen \subseteq Doc
    BY DEF CrawlTypeOK, Actor, SessionA, At
<1>2. d \in w.todo /\ d \in Doc
    BY <1>1, NextDocument
<1>3. PICK t \in SUBSET Doc : t = w.todo \ {d}
    BY <1>1
<1>4. d \in 0..MaxDocs
    BY <1>2 DEF Doc
<1>5. PICK b \in BOOLEAN : b = CreatesEvent(d)
    BY DEF CreatesEvent
<1>6. CASE /\ stored' = stored \cup {d}
           /\ Stage(k, [w EXCEPT !.pc = "begin", !.todo = @ \ {d}, !.doc = d,
                                !.create = CreatesEvent(d)])
           /\ met' = IF CreatesEvent(d) /\ Creating(d) THEN met \cup {d} ELSE met
           /\ reseen' = IF ~CreatesEvent(d) /\ events[d] = 0 THEN reseen \cup {d} ELSE reseen
           /\ UNCHANGED <<missed, faults>>
  <2> DEFINE v == Storing(w, t, d, b)
  <2> HIDE DEF d, w
  <2>1. /\ v \in Actor /\ v.pc = "begin"
        /\ v.found = w.found /\ v.todo = t /\ v.doc = d
        /\ v.create = b /\ v.ok = w.ok
      BY <1>1, <1>4, StoredFields
  <2>2. Stage(k, v)
      BY <1>3, <1>5, <1>6, Zenon DEF Storing
  <2> HIDE DEF v
  <2>3. worker' \in [Process -> Actor] /\ Others(k) /\ worker'[k] = v
      BY <1>1, <2>1, <2>2, StageShape
  <2>4. worker'[k].create <=> d \notin stored
      BY <2>1, <2>3, <1>5, Zenon DEF CreatesEvent
  <2>5. /\ d \notin stored /\ Creating(d) => d \in met'
        /\ d \in stored /\ events[d] = 0 => d \in reseen'
        /\ met \subseteq met' /\ met' \subseteq Doc
        /\ reseen \subseteq reseen' /\ reseen' \subseteq Doc
      BY <1>1, <1>2, <1>6 DEF CreatesEvent
  <2>6. StoresNext(k, d)
      BY <1>6, <2>1, <2>3, <2>4, <2>5 DEF StoresNext
  <2> QED
      BY <1>1, <1>2, <1>3, <2>1, <2>3, <2>6 DEF w
<1>7. CASE /\ Stage(k, [w EXCEPT !.todo = @ \ {d}])
           /\ missed' = missed \cup {d}
           /\ UNCHANGED <<stored, met, reseen>>
  <2> DEFINE v == [w EXCEPT !.todo = t]
  <2> HIDE DEF d, w
  <2>1. /\ v \in Actor /\ v.pc = w.pc
        /\ v.found = w.found /\ v.todo = t
        /\ v.create = w.create /\ v.ok = w.ok
      BY <1>1, TodoFields, Zenon
  <2>2. Stage(k, v)
      BY <1>3, <1>7, Zenon
  <2>3. v.doc = w.doc
      BY <1>1 DEF Actor
  <2> HIDE DEF v
  <2>4. worker' \in [Process -> Actor] /\ Others(k) /\ worker'[k] = v
      BY <1>1, <2>1, <2>2, StageShape
  <2>5. LosesNext(k, d)
      BY <1>1, <1>7, <2>1, <2>3, <2>4 DEF LosesNext, w
  <2> QED
      BY <1>1, <1>2, <1>3, <2>1, <2>4, <2>5 DEF w
<1> QED
    BY <1>6, <1>7 DEF SessionA

LEMMA BeginShape ==
    ASSUME CrawlTypeOK, NEW k \in Process, BeginDownstream(k)
    PROVE  /\ worker[k].pc = "begin" /\ worker' \in [Process -> Actor] /\ Others(k)
           /\ worker'[k].pc = "commit"
           /\ worker'[k].ok = worker[k].ok /\ worker'[k].found = worker[k].found
           /\ worker'[k].todo = worker[k].todo /\ worker'[k].doc = worker[k].doc
           /\ worker'[k].create = worker[k].create
<1> DEFINE w == worker[k]
<1>1. w \in Actor /\ worker \in [Process -> Actor] /\ w.pc = "begin"
    BY DEF CrawlTypeOK, BeginDownstream, At
<1>2. PICK b \in BOOLEAN : b = (graph[w.doc] = "completed")
    OBVIOUS
<1> DEFINE v == [w EXCEPT !.pc = "commit", !.skip = b]
<1> HIDE DEF w
<1>3. /\ v \in Actor /\ v.pc = "commit"
      /\ v.found = w.found /\ v.todo = w.todo /\ v.doc = w.doc
      /\ v.create = w.create /\ v.ok = w.ok
    BY <1>1, BegunFields, Zenon
<1>4. Stage(k, v)
    BY <1>2, Zenon DEF BeginDownstream, Begun, w
<1> HIDE DEF v
<1> QED
    BY <1>1, <1>3, <1>4, StageShape DEF w

LEMMA CommitShape ==
    ASSUME CrawlTypeOK, NEW k \in Process, CommitDownstream(k)
    PROVE  /\ worker[k].pc = "commit" /\ worker' \in [Process -> Actor] /\ Others(k)
           /\ worker'[k].pc = "persist"
           /\ worker'[k].ok = worker[k].ok /\ worker'[k].found = worker[k].found
           /\ worker'[k].todo = worker[k].todo /\ ~worker'[k].create
<1> DEFINE w == worker[k]
<1>1. /\ w \in Actor /\ worker \in [Process -> Actor] /\ w.pc = "commit"
      /\ "persist" \in Pcs /\ 0 \in 0..MaxDocs
    BY CrawlIngestAssumption DEF CrawlTypeOK, CommitDownstream, At, Pcs
<1>2. PICK b \in BOOLEAN : b = FALSE
    OBVIOUS
<1> DEFINE v == Dropping(w, "persist", 0, b)
<1> HIDE DEF w
<1>3. /\ v \in Actor /\ v.pc = "persist"
      /\ v.found = w.found /\ v.todo = w.todo
      /\ v.create = b /\ v.ok = w.ok
    BY <1>1, DroppedFields
<1>4. Stage(k, v)
    BY <1>2, Zenon DEF CommitDownstream, Dropped, Dropping, w
<1> HIDE DEF v
<1>5. worker' \in [Process -> Actor] /\ Others(k) /\ worker'[k] = v
    BY <1>1, <1>3, <1>4, StageShape
<1>6. ~worker'[k].create
    BY <1>2, <1>3, <1>5, Zenon
<1> QED
    BY <1>1, <1>3, <1>5, <1>6 DEF w

LEMMA SaveShape ==
    ASSUME CrawlTypeOK, NEW k \in Process, SaveCheckpoint(k)
    PROVE  /\ worker[k].pc = "persist" /\ worker[k].todo = {}
           /\ worker' \in [Process -> Actor] /\ Others(k)
           /\ worker'[k].pc = "finalize" /\ ~worker'[k].create
           /\ checkpoint' = checkpoint \/ (worker[k].ok /\ checkpoint' \in worker[k].found)
<1> DEFINE w == worker[k]
           v == Marking(Gone, "finalize", w.ok)
<1>1. /\ w \in Actor /\ worker \in [Process -> Actor] /\ w.pc = "persist" /\ w.todo = {}
      /\ "finalize" \in Pcs /\ w.found \in SUBSET (1..MaxDocs) /\ MaxDocs \in Nat
      /\ w.ok \in BOOLEAN /\ Gone \in Actor
    BY CrawlIngestAssumption, GoneType DEF CrawlTypeOK, SaveCheckpoint, At, Pcs, Actor, Doc
<1>2. v \in Actor /\ v.pc = "finalize" /\ v.create = Gone.create
  <2> DEFINE b == w.ok
  <2>1. b \in BOOLEAN
      BY <1>1
  <2> HIDE DEF b
  <2>2. LET u == Marking(Gone, "finalize", b) IN
        u \in Actor /\ u.pc = "finalize" /\ u.create = Gone.create
      BY <1>1, <2>1, MarkedFields
  <2> QED
      BY <2>2, Zenon DEF b
<1>3. Stage(k, v)
    BY DEF SaveCheckpoint, Marking
<1>4. w.found # {} => NewestFound(w) \in w.found
    BY <1>1, NewestExists DEF NewestFound
<1>5. checkpoint' = checkpoint \/ (w.ok /\ checkpoint' \in w.found)
    BY <1>4 DEF SaveCheckpoint
<1> HIDE DEF v
<1>6. worker' \in [Process -> Actor] /\ Others(k) /\ worker'[k] = v
    BY <1>1, <1>2, <1>3, StageShape
<1>7. ~worker'[k].create
    BY <1>2, <1>6, GoneType, Zenon
<1> QED
    BY <1>1, <1>2, <1>5, <1>6, <1>7

\* A process that begins anew, or ends in whatever way, creates nothing.
LEMMA MovedShape ==
    ASSUME CrawlTypeOK, NEW k \in Process, NEW pc \in Pcs,
           Stage(k, [Gone EXCEPT !.pc = pc])
    PROVE  /\ worker' \in [Process -> Actor] /\ Others(k)
           /\ worker'[k].pc = pc /\ ~worker'[k].create
<1> DEFINE v == [Gone EXCEPT !.pc = pc]
<1>1. Gone \in Actor /\ worker \in [Process -> Actor]
    BY GoneType DEF CrawlTypeOK
<1>2. v \in Actor /\ v.pc = pc /\ v.create = Gone.create
    BY <1>1, MovedFields
<1>3. Stage(k, v)
    OBVIOUS
<1> HIDE DEF v
<1>4. worker' \in [Process -> Actor] /\ Others(k) /\ worker'[k] = v
    BY <1>1, <1>2, <1>3, StageShape
<1>5. ~worker'[k].create
    BY <1>2, <1>4, GoneType, Zenon
<1> QED
    BY <1>2, <1>4, <1>5

LEMMA EndShape ==
    ASSUME CrawlTypeOK, NEW k \in Process, Stage(k, Gone)
    PROVE  /\ worker' \in [Process -> Actor] /\ Others(k)
           /\ worker'[k].pc = "gone" /\ ~worker'[k].create
<1>1. worker' \in [Process -> Actor] /\ Others(k) /\ worker'[k] = Gone
    BY GoneType, StageShape DEF CrawlTypeOK
<1>2. ~worker'[k].create
    BY <1>1, GoneType, Zenon
<1> QED
    BY <1>1, <1>2, GoneType

\* A run's processes are the job's and the one that inserted the row.
LEMMA ProcessParts ==
    /\ \A r \in Run : /\ Job(r) \in Process /\ Inline(r) \in Process /\ Job(r) # Inline(r)
                      /\ Job(r)[1] = r /\ Inline(r)[1] = r
    /\ \A k \in Process : k[1] \in Run /\ (k = Job(k[1]) \/ k = Inline(k[1]))
BY DEF Process, How, Job, Inline

LEMMA StartShape ==
    ASSUME CrawlTypeOK, NEW r \in Run, StartJob(r)
    PROVE  /\ ~Alive(Job(r)) /\ queue' = queue \ {r} /\ robbed' = robbed
           /\ \/ /\ row[r] = "queued" /\ row' = [row EXCEPT ![r] = "running"]
                 /\ old' = old \ {r} /\ claims' = [claims EXCEPT ![r] = @ + 1]
                 /\ Stage(Job(r), [Gone EXCEPT !.pc = "load"])
                 /\ twice \subseteq twice' /\ twice' \subseteq twice \cup {r}
                 /\ Alive(Inline(r)) => r \in twice'
              \/ UNCHANGED <<row, old, claims, worker, twice>>
<1>1. claims \in [Run -> Nat]
    BY DEF CrawlTypeOK
<1>2. CASE row[r] = "queued"
  <2>1. claims' = [claims EXCEPT ![r] = @ + 1]
      BY <1>2 DEF StartJob, Claim
  <2>2. claims'[r] > claims[r]
      BY <1>1, <2>1
  <2> QED
      BY <1>2, <2>2 DEF StartJob, Claim
<1>3. CASE row[r] # "queued"
  <2>1. ~(claims'[r] > claims[r])
      BY <1>1, <1>3 DEF StartJob, Claim
  <2> QED
      BY <1>3, <2>1 DEF StartJob, Claim
<1> QED
    BY <1>2, <1>3

-----------------------------------------------------------------------------
(* What a pass does.                                                       *)

OtherPasses(p) == \A q \in Pass : q # p => pass'[q] = pass[q]

LEMMA BeginPassShape ==
    ASSUME CrawlTypeOK, NEW p \in Pass, BeginPass(p)
    PROVE  /\ pass' \in [Pass -> Actor] /\ OtherPasses(p)
           /\ pass'[p].pc = "begin" /\ pass'[p].doc \in stored
           /\ pass'[p].create <=> events[pass'[p].doc] = 0
           /\ pass'[p].create /\ Creating(pass'[p].doc) => pass'[p].doc \in met'
           /\ met \subseteq met' /\ met' \subseteq Doc
<1>1. PICK d \in stored :
          /\ pass' = [pass EXCEPT ![p] = [Gone EXCEPT !.pc = "begin", !.doc = d,
                                                      !.create = events[d] = 0]]
          /\ met' = IF events[d] = 0 /\ Creating(d) THEN met \cup {d} ELSE met
    BY DEF BeginPass
<1>2. d \in Doc /\ d \in 0..MaxDocs /\ pass \in [Pass -> Actor] /\ met \subseteq Doc
    BY DEF CrawlTypeOK, Doc
<1>3. PICK b \in BOOLEAN : b = (events[d] = 0)
    OBVIOUS
<1>4. Gone \in Actor
    BY GoneType
<1> DEFINE v == Passing(Gone, d, b)
<1>5. v \in Actor /\ v.pc = "begin" /\ v.doc = d /\ v.create = b
    BY <1>2, <1>4, PassFields
<1>6. pass' = [pass EXCEPT ![p] = v]
    BY <1>1, <1>3, Zenon DEF Passing
<1> HIDE DEF v
<1>7. pass' \in [Pass -> Actor] /\ OtherPasses(p) /\ pass'[p] = v
    BY <1>2, <1>5, <1>6 DEF OtherPasses
<1>8. pass'[p].create <=> events[d] = 0
    BY <1>3, <1>5, <1>7, Zenon
<1>9. met \subseteq met' /\ met' \subseteq Doc
      /\ (events[d] = 0 /\ Creating(d) => d \in met')
    BY <1>1, <1>2
<1>10. pass'[p].doc = d /\ pass'[p].pc = "begin"
    BY <1>5, <1>7
<1> QED
    BY <1>7, <1>8, <1>9, <1>10, Zenon

LEMMA ReadPassShape ==
    ASSUME CrawlTypeOK, NEW p \in Pass, ReadPass(p)
    PROVE  /\ pass[p].pc = "begin" /\ pass' \in [Pass -> Actor] /\ OtherPasses(p)
           /\ pass'[p].pc = "commit" /\ pass'[p].doc = pass[p].doc
           /\ pass'[p].create = pass[p].create
<1> DEFINE w == pass[p]
<1>1. w \in Actor /\ pass \in [Pass -> Actor] /\ w.pc = "begin"
    BY DEF CrawlTypeOK, ReadPass
<1>2. PICK b \in BOOLEAN : b = (graph[w.doc] = "completed")
    OBVIOUS
<1> DEFINE v == [w EXCEPT !.pc = "commit", !.skip = b]
<1> HIDE DEF w
<1>3. v \in Actor /\ v.pc = "commit" /\ v.doc = w.doc /\ v.create = w.create
    BY <1>1, BegunFields, Zenon
<1>4. pass' = [pass EXCEPT ![p] = v]
    BY <1>2, Zenon DEF ReadPass, Begun, w
<1> HIDE DEF v
<1> QED
    BY <1>1, <1>3, <1>4 DEF w, OtherPasses

LEMMA CommitPassShape ==
    ASSUME CrawlTypeOK, NEW p \in Pass, CommitPass(p)
    PROVE  /\ pass[p].pc = "commit" /\ pass' \in [Pass -> Actor] /\ OtherPasses(p)
           /\ pass'[p].pc = "gone" /\ ~pass'[p].create
<1>1. Gone \in Actor /\ Gone.pc = "gone" /\ Gone.create = FALSE /\ pass \in [Pass -> Actor]
    BY GoneType DEF CrawlTypeOK
<1>2. pass' \in [Pass -> Actor] /\ OtherPasses(p) /\ pass'[p] = Gone
    BY <1>1 DEF CommitPass, OtherPasses
<1>3. ~pass'[p].create
    BY <1>1, <1>2, Zenon
<1> QED
    BY <1>1, <1>2, <1>3 DEF CommitPass

-----------------------------------------------------------------------------
(* Types.                                                                  *)

GraphStates == {"none", "completed", "failed"}

LEMMA DownstreamType ==
    ASSUME CrawlTypeOK, NEW w, Downstream(w)
    PROVE  /\ graph' \in [Doc -> GraphStates] /\ events' \in [Doc -> Nat]
           /\ \A d \in Doc : graph'[d] # graph[d] => d = w.doc
<1>1. graph \in [Doc -> GraphStates] /\ events \in [Doc -> Nat]
    BY DEF CrawlTypeOK, GraphStates
<1>2. graph' \in [Doc -> GraphStates] /\ \A d \in Doc : graph'[d] # graph[d] => d = w.doc
    BY <1>1 DEF Downstream, GraphAs, GraphStates
<1>3. events' = events \/ events' = [events EXCEPT ![w.doc] = @ + 1]
    BY DEF Downstream, EventsOf
<1> QED
    BY <1>1, <1>2, <1>3

LEMMA FreshStart ==
    ASSUME CrawlTypeOK, NEW r \in Run, Claim(r)
    PROVE  /\ row' \in [Run -> Rows] /\ old' \subseteq Run /\ claims' \in [Run -> Nat]
BY DEF CrawlTypeOK, Claim, Rows

\* Where a process finalises its run, as Finalize and Abandon do.
FinalizedAs(k, status) ==
    \/ Finalized(k, status, Gone)
    \/ Finalized(k, status, [Gone EXCEPT !.pc = "unsure"])

LEMMA FinalizedShape ==
    ASSUME CrawlTypeOK, NEW k \in Process, NEW status \in Ended, FinalizedAs(k, status)
    PROVE  /\ worker' \in [Process -> Actor] /\ Others(k)
           /\ worker'[k].pc \in {"gone", "unsure"} /\ ~worker'[k].create
           /\ row' = [row EXCEPT ![k[1]] = status] /\ old' = old \ {k[1]}
           /\ row' \in [Run -> Rows] /\ old' \subseteq Run
           /\ UNCHANGED <<queue, claims, robbed, twice, listed, checkpoint, documents, pass, notes>>
<1>1. k[1] \in Run /\ status \in Rows /\ "unsure" \in Pcs
    BY ProcessParts DEF Rows, Pcs
<1>2. /\ row' = [row EXCEPT ![k[1]] = status] /\ old' = old \ {k[1]}
      /\ UNCHANGED <<queue, claims, robbed, twice, listed, checkpoint, documents, pass, notes>>
      /\ Stage(k, Gone) \/ Stage(k, [Gone EXCEPT !.pc = "unsure"])
    BY DEF FinalizedAs, Finalized
<1>3. row' \in [Run -> Rows] /\ old' \subseteq Run
    BY <1>1, <1>2 DEF CrawlTypeOK
<1>4. /\ worker' \in [Process -> Actor] /\ Others(k)
      /\ worker'[k].pc \in {"gone", "unsure"} /\ ~worker'[k].create
    BY <1>1, <1>2, EndShape, MovedShape
<1> QED
    BY <1>2, <1>3, <1>4

LEMMA FinalizeShape ==
    ASSUME CrawlTypeOK, NEW k \in Process, Finalize(k) \/ Abandon(k)
    PROVE  \E status \in Ended : FinalizedAs(k, status)
BY DEF Finalize, Abandon, FinalizedAs, Ended

LEMMA WorkType ==
    ASSUME CrawlTypeOK, NEW k \in Process, Work(k)
    PROVE  CrawlTypeOK'
<1>1. CASE LoadCheckpoint(k)
    BY <1>1, LoadShape DEF LoadCheckpoint, CrawlTypeOK, crawlRows, documents, notes
<1>2. CASE Scrape(k)
    BY <1>2, ScrapeShape DEF Scrape, CrawlTypeOK, crawlRows, documents
<1>3. CASE SessionA(k)
  <2>1. PICK d \in worker[k].todo : d \in Doc /\ (StoresNext(k, d) \/ LosesNext(k, d))
      BY <1>3, SessionAShape
  <2>2. /\ stored' \subseteq Doc /\ missed' \subseteq Doc
        /\ met' \subseteq Doc /\ reseen' \subseteq Doc
      BY <2>1 DEF StoresNext, LosesNext, CrawlTypeOK
  <2> QED
      BY <1>3, <2>2, SessionAShape DEF SessionA, CrawlTypeOK, crawlRows
<1>4. CASE BeginDownstream(k)
    BY <1>4, BeginShape DEF BeginDownstream, CrawlTypeOK, crawlRows, documents, notes
<1>5. CASE CommitDownstream(k)
  <2>1. graph' \in [Doc -> GraphStates] /\ events' \in [Doc -> Nat]
      BY <1>5, DownstreamType DEF CommitDownstream
  <2> QED
      BY <1>5, <2>1, CommitShape
      DEF CommitDownstream, CrawlTypeOK, crawlRows, notes, GraphStates
<1>6. CASE SaveCheckpoint(k)
  <2>1. checkpoint' \in 0..MaxDocs
    <3>1. worker[k].found \subseteq 0..MaxDocs
        BY CrawlIngestAssumption DEF CrawlTypeOK, Actor, Doc
    <3> QED
        BY <1>6, <3>1, SaveShape DEF CrawlTypeOK
  <2> QED
      BY <1>6, <2>1, SaveShape DEF SaveCheckpoint, CrawlTypeOK, crawlRows, documents, notes
<1>7. CASE Finalize(k) \/ Abandon(k)
  <2>1. PICK status \in Ended : FinalizedAs(k, status)
      BY <1>7, FinalizeShape
  <2> QED
      BY <2>1, FinalizedShape DEF CrawlTypeOK, documents, notes
<1>8. CASE Crash(k)
    BY <1>8, EndShape DEF Crash, CrawlTypeOK, crawlRows, documents, notes
<1> QED
    BY <1>1, <1>2, <1>3, <1>4, <1>5, <1>6, <1>7, <1>8 DEF Work

LEMMA RowType ==
    ASSUME CrawlTypeOK, NEW r \in Run,
           \/ Trigger(r) \/ Redispatch(r) \/ StartJob(r) \/ RunInline(r) \/ Mark(r)
           \/ Age(r) \/ ForceReclaim(r)
    PROVE  CrawlTypeOK'
<1>0. Job(r) \in Process /\ Inline(r) \in Process /\ "load" \in Pcs /\ "mark" \in Pcs
    BY ProcessParts DEF Pcs
<1>1. CASE Trigger(r)
    BY <1>1 DEF Trigger, Fault, CrawlTypeOK, documents, notes, Rows
<1>2. CASE Redispatch(r)
    BY <1>2 DEF Redispatch, Fault, CrawlTypeOK, documents, notes
<1>3. CASE StartJob(r)
  <2>1. worker' \in [Process -> Actor] /\ twice' \subseteq Run
      BY <1>0, <1>3, StartShape, MovedShape DEF CrawlTypeOK
  <2>2. row' \in [Run -> Rows] /\ old' \subseteq Run /\ claims' \in [Run -> Nat]
      BY <1>3, FreshStart DEF StartJob
  <2> QED
      BY <1>3, <2>1, <2>2 DEF StartJob, CrawlTypeOK, documents, notes
<1>4. CASE RunInline(r)
  <2>1. worker' \in [Process -> Actor]
      BY <1>0, <1>4, MovedShape DEF RunInline
  <2> QED
      BY <1>4, <2>1 DEF RunInline, CrawlTypeOK, documents, notes, Rows
<1>5. CASE Mark(r)
  <2>1. worker' \in [Process -> Actor]
      BY <1>0, <1>5, MovedShape DEF Mark
  <2> QED
      BY <1>5, <2>1, FreshStart DEF Mark, CrawlTypeOK, documents, notes
<1>6. CASE Age(r)
    BY <1>6 DEF Age, CrawlTypeOK, documents, notes
<1>7. CASE ForceReclaim(r)
    BY <1>7 DEF ForceReclaim, Reclaimed, CrawlTypeOK, documents, notes, Rows, Ended
<1> QED
    BY <1>1, <1>2, <1>3, <1>4, <1>5, <1>6, <1>7

LEMMA PassType ==
    ASSUME CrawlTypeOK, NEW p \in Pass, BeginPass(p) \/ ReadPass(p) \/ CommitPass(p)
    PROVE  CrawlTypeOK'
<1>1. CASE BeginPass(p)
    BY <1>1, BeginPassShape DEF BeginPass, CrawlTypeOK, crawlRows, documents
<1>2. CASE ReadPass(p)
    BY <1>2, ReadPassShape DEF ReadPass, CrawlTypeOK, crawlRows, documents, notes
<1>3. CASE CommitPass(p)
  <2>1. graph' \in [Doc -> GraphStates] /\ events' \in [Doc -> Nat]
      BY <1>3, DownstreamType DEF CommitPass
  <2> QED
      BY <1>3, <2>1, CommitPassShape DEF CommitPass, CrawlTypeOK, crawlRows, notes, GraphStates
<1> QED
    BY <1>1, <1>2, <1>3

LEMMA TypeStep ==
    ASSUME CrawlTypeOK, [Next]_vars
    PROVE  CrawlTypeOK'
<1>1. CASE Publish
    BY <1>1, CrawlIngestAssumption DEF Publish, CrawlTypeOK, crawlRows, documents, notes
<1>2. CASE Reclaim
    BY <1>2 DEF Reclaim, Reclaimed, CrawlTypeOK, documents, notes, Rows, Ended
<1>3. CASE UNCHANGED vars
    BY <1>3 DEF vars, CrawlTypeOK, crawlRows, documents, notes
<1> QED
    BY <1>1, <1>2, <1>3, WorkType, RowType, PassType DEF Next

-----------------------------------------------------------------------------
(* A row and its processes.                                                *)

\* A process that is alive although its row has ended.
Lingers(r, pc) ==
    \/ pc \in {"gone", "unsure"} \/ r \in twice
    \/ row[r] = "failed" /\ r \in robbed

RunSound(r) ==
    /\ claims[r] <= 1
    /\ row[r] \in {"none", "queued"} => claims[r] = 0
    /\ row[r] = "none" => ~Attended(r)
    /\ row[r] = "queued" => ~Alive(Job(r)) /\ worker[Inline(r)].pc \in {"gone", "mark"}
    /\ worker[Job(r)].pc # "mark"
    /\ worker[Inline(r)].pc = "mark" => row[r] = "queued" \/ r \in twice
    /\ Alive(Job(r)) /\ Alive(Inline(r)) => r \in twice
    /\ r \in old => row[r] = "running"
    /\ row[r] \in Ended => Lingers(r, worker[Job(r)].pc) /\ Lingers(r, worker[Inline(r)].pc)
    /\ "unsure" \in {worker[Job(r)].pc, worker[Inline(r)].pc} => row[r] \in Ended

RunsSound == \A r \in Run : RunSound(r)

\* Nothing that r's row and processes are judged by has changed.
Undisturbed(r) ==
    /\ row'[r] = row[r] /\ claims'[r] = claims[r]
    /\ worker'[Job(r)] = worker[Job(r)] /\ worker'[Inline(r)] = worker[Inline(r)]
    /\ r \in old' => r \in old
    /\ r \in robbed => r \in robbed'
    /\ r \in twice => r \in twice'

LEMMA UndisturbedSound ==
    ASSUME NEW r \in Run, RunSound(r), Undisturbed(r)
    PROVE  RunSound(r)'
BY DEF RunSound, Undisturbed, Alive, Attended, Lingers

LEMMA Elsewhere ==
    ASSUME NEW k \in Process, Others(k), NEW s \in Run, s # k[1]
    PROVE  worker'[Job(s)] = worker[Job(s)] /\ worker'[Inline(s)] = worker[Inline(s)]
<1>1. Job(s) \in Process /\ Inline(s) \in Process /\ Job(s) # k /\ Inline(s) # k
    BY ProcessParts
<1> QED
    BY <1>1 DEF Others

\* A process under way goes on.
LEMMA ProceedSound ==
    ASSUME CrawlTypeOK, RunsSound, NEW k \in Process, UNCHANGED crawlRows, Others(k),
           worker[k].pc \in Active, worker'[k].pc \in Active
    PROVE  RunsSound'
<1>1. k[1] \in Run
    BY ProcessParts
<1>2. ASSUME NEW s \in Run, s # k[1] PROVE RunSound(s)'
    BY <1>2, Elsewhere, UndisturbedSound DEF RunsSound, Undisturbed, crawlRows
<1>3. ASSUME NEW r \in Run, r = k[1] PROVE RunSound(r)'
  <2>1. RunSound(r) /\ UNCHANGED <<row, claims, old, robbed, twice>>
      BY DEF RunsSound, crawlRows
  <2>2. CASE k = Job(r)
    <3>1. worker'[Inline(r)] = worker[Inline(r)]
        BY <2>2, ProcessParts DEF Others
    <3> QED
        BY <2>1, <2>2, <3>1
        DEF RunSound, Alive, Attended, Lingers, Active, Pcs, Ended
  <2>3. CASE k = Inline(r)
    <3>1. worker'[Job(r)] = worker[Job(r)]
        BY <2>3, ProcessParts DEF Others
    <3> QED
        BY <2>1, <2>3, <3>1
        DEF RunSound, Alive, Attended, Lingers, Active, Pcs, Ended
  <2> QED
      BY <1>3, <2>2, <2>3, ProcessParts
<1> QED
    BY <1>1, <1>2, <1>3 DEF RunsSound

\* A process dies.
LEMMA CrashSound ==
    ASSUME CrawlTypeOK, RunsSound, NEW k \in Process, Crash(k)
    PROVE  RunsSound'
<1>0. Others(k) /\ worker'[k].pc = "gone" /\ UNCHANGED <<row, claims, old, robbed, twice>>
    BY EndShape DEF Crash, crawlRows
<1>1. k[1] \in Run
    BY ProcessParts
<1>2. ASSUME NEW s \in Run, s # k[1] PROVE RunSound(s)'
    BY <1>0, <1>2, Elsewhere, UndisturbedSound DEF RunsSound, Undisturbed
<1>3. ASSUME NEW r \in Run, r = k[1] PROVE RunSound(r)'
  <2>1. RunSound(r)
      BY DEF RunsSound
  <2>2. CASE k = Job(r)
    <3>1. worker'[Inline(r)] = worker[Inline(r)]
        BY <1>0, <2>2, ProcessParts DEF Others
    <3> QED
        BY <1>0, <2>1, <2>2, <3>1 DEF RunSound, Alive, Attended, Lingers, Ended
  <2>3. CASE k = Inline(r)
    <3>1. worker'[Job(r)] = worker[Job(r)]
        BY <1>0, <2>3, ProcessParts DEF Others
    <3> QED
        BY <1>0, <2>1, <2>3, <3>1 DEF RunSound, Alive, Attended, Lingers, Ended
  <2> QED
      BY <1>3, <2>2, <2>3, ProcessParts
<1> QED
    BY <1>1, <1>2, <1>3 DEF RunsSound

LEMMA StillSound ==
    ASSUME RunsSound, UNCHANGED <<crawlRows, worker>>
    PROVE  RunsSound'
BY DEF RunsSound, RunSound, Alive, Attended, Lingers, crawlRows

LEMMA ReclaimedSound ==
    ASSUME CrawlTypeOK, RunsSound, NEW R \in SUBSET Run, Reclaimed(R),
           \A r \in R : row[r] = "running"
    PROVE  RunsSound'
<1>1. ASSUME NEW r \in Run PROVE RunSound(r)'
  <2>1. CASE r \in R
      BY <2>1 DEF RunsSound, RunSound, Reclaimed, Alive, Attended, Lingers, Ended
  <2>2. CASE r \notin R
      BY <2>2, UndisturbedSound DEF RunsSound, Reclaimed, Undisturbed
  <2> QED
      BY <2>1, <2>2
<1> QED
    BY <1>1 DEF RunsSound

LEMMA FinalizedSound ==
    ASSUME CrawlTypeOK, RunsSound, NEW k \in Process, NEW status \in Ended,
           FinalizedAs(k, status), worker[k].pc \in Active \cup {"unsure"}
    PROVE  RunsSound'
<1>0. /\ Others(k) /\ worker'[k].pc \in {"gone", "unsure"}
      /\ row' = [row EXCEPT ![k[1]] = status] /\ old' = old \ {k[1]}
      /\ UNCHANGED <<claims, robbed, twice>>
    BY FinalizedShape
<1>1. k[1] \in Run
    BY ProcessParts
<1>2. ASSUME NEW s \in Run, s # k[1] PROVE RunSound(s)'
    BY <1>0, <1>2, Elsewhere, UndisturbedSound DEF RunsSound, Undisturbed, CrawlTypeOK
<1>3. ASSUME NEW r \in Run, r = k[1] PROVE RunSound(r)'
  <2>1. RunSound(r) /\ row'[r] \in Ended /\ r \notin old' /\ worker[k].pc # "gone"
        /\ worker[k].pc # "mark"
      BY <1>0, <1>3 DEF RunsSound, CrawlTypeOK, Active, Pcs
  <2>2. CASE k = Job(r)
    <3>1. worker'[Inline(r)] = worker[Inline(r)]
        BY <1>0, <2>2, ProcessParts DEF Others
    <3> QED
        BY <1>0, <2>1, <2>2, <3>1 DEF RunSound, Alive, Attended, Lingers, Ended
  <2>3. CASE k = Inline(r)
    <3>1. worker'[Job(r)] = worker[Job(r)]
        BY <1>0, <2>3, ProcessParts DEF Others
    <3> QED
        BY <1>0, <2>1, <2>3, <3>1 DEF RunSound, Alive, Attended, Lingers, Ended
  <2> QED
      BY <1>3, <2>2, <2>3, ProcessParts
<1> QED
    BY <1>1, <1>2, <1>3 DEF RunsSound

LEMMA WorkSound ==
    ASSUME CrawlTypeOK, RunsSound, NEW k \in Process, Work(k)
    PROVE  RunsSound'
<1>1. CASE LoadCheckpoint(k)
    BY <1>1, LoadShape, ProceedSound DEF LoadCheckpoint, At, Active, Pcs
<1>2. CASE Scrape(k)
    BY <1>2, ScrapeShape, ProceedSound DEF Scrape, At, Active, Pcs
<1>3. CASE SessionA(k)
  <2>1. worker'[k].pc \in {"begin", "persist"}
      BY <1>3, SessionAShape DEF StoresNext, LosesNext
  <2> QED
      BY <1>3, <2>1, SessionAShape, ProceedSound DEF SessionA, Active, Pcs
<1>4. CASE BeginDownstream(k)
    BY <1>4, BeginShape, ProceedSound DEF BeginDownstream, Active, Pcs
<1>5. CASE CommitDownstream(k)
    BY <1>5, CommitShape, ProceedSound DEF CommitDownstream, Active, Pcs
<1>6. CASE SaveCheckpoint(k)
    BY <1>6, SaveShape, ProceedSound DEF SaveCheckpoint, Active, Pcs
<1>7. CASE Finalize(k) \/ Abandon(k)
  <2>1. PICK status \in Ended : FinalizedAs(k, status)
      BY <1>7, FinalizeShape
  <2>2. worker[k].pc \in Active \cup {"unsure"}
      BY <1>7 DEF Finalize, Abandon, At, Active, Pcs
  <2> QED
      BY <2>1, <2>2, FinalizedSound
<1>8. CASE Crash(k)
    BY <1>8, CrashSound
<1> QED
    BY <1>1, <1>2, <1>3, <1>4, <1>5, <1>6, <1>7, <1>8 DEF Work

LEMMA StartSound ==
    ASSUME CrawlTypeOK, RunsSound, NEW r \in Run, StartJob(r)
    PROVE  RunsSound'
<1>1. CASE UNCHANGED <<row, old, claims, worker, twice>>
    BY <1>1, StartShape DEF RunsSound, RunSound, Alive, Attended, Lingers
<1>2. CASE /\ row[r] = "queued" /\ row' = [row EXCEPT ![r] = "running"]
           /\ old' = old \ {r} /\ claims' = [claims EXCEPT ![r] = @ + 1]
           /\ Stage(Job(r), [Gone EXCEPT !.pc = "load"])
           /\ twice \subseteq twice' /\ twice' \subseteq twice \cup {r}
           /\ Alive(Inline(r)) => r \in twice'
  <2>1. Others(Job(r)) /\ worker'[Job(r)].pc = "load" /\ robbed' = robbed
    <3>1. Job(r) \in Process /\ "load" \in Pcs
        BY ProcessParts DEF Pcs
    <3> QED
        BY <1>2, <3>1, MovedShape, StartShape
  <2>2. worker'[Inline(r)] = worker[Inline(r)]
      BY <2>1, ProcessParts DEF Others
  <2>3. ASSUME NEW s \in Run, s # r PROVE RunSound(s)'
    <3>1. worker'[Job(s)] = worker[Job(s)] /\ worker'[Inline(s)] = worker[Inline(s)]
        BY <2>1, <2>3, ProcessParts, Elsewhere
    <3> QED
        BY <1>2, <2>1, <2>3, <3>1, UndisturbedSound DEF RunsSound, Undisturbed, CrawlTypeOK
  <2>4. row'[r] = "running" /\ claims'[r] = 1 /\ r \notin old'
      BY <1>2 DEF CrawlTypeOK, RunsSound, RunSound
  <2>5. RunSound(r)'
      BY <1>2, <2>1, <2>2, <2>4 DEF RunsSound, RunSound, Alive, Attended, Lingers, Ended
  <2> QED
      BY <2>3, <2>5 DEF RunsSound
<1> QED
    BY <1>1, <1>2, StartShape

LEMMA InlineSound ==
    ASSUME CrawlTypeOK, RunsSound, NEW r \in Run, RunInline(r) \/ Mark(r)
    PROVE  RunsSound'
<1>1. Inline(r) \in Process /\ "load" \in Pcs /\ "mark" \in Pcs
    BY ProcessParts DEF Pcs
<1>2. /\ Others(Inline(r)) /\ UNCHANGED <<robbed, twice>>
      /\ RunInline(r) => worker'[Inline(r)].pc = "mark"
      /\ Mark(r) => worker'[Inline(r)].pc = "load"
    BY <1>1, MovedShape DEF RunInline, Mark
<1>3. worker'[Job(r)] = worker[Job(r)]
    BY <1>2, ProcessParts DEF Others
<1>4. ASSUME NEW s \in Run, s # r PROVE RunSound(s)'
  <2>1. worker'[Job(s)] = worker[Job(s)] /\ worker'[Inline(s)] = worker[Inline(s)]
      BY <1>1, <1>2, <1>4, ProcessParts, Elsewhere
  <2> QED
      BY <1>2, <1>4, <2>1, UndisturbedSound
      DEF RunsSound, Undisturbed, RunInline, Mark, Claim, CrawlTypeOK
<1>5. CASE RunInline(r)
  <2>1. row[r] = "none" /\ row'[r] = "queued" /\ UNCHANGED <<old, claims>>
      BY <1>5 DEF RunInline, CrawlTypeOK
  <2>2. RunSound(r)'
      BY <1>2, <1>3, <1>5, <2>1 DEF RunsSound, RunSound, Alive, Attended, Lingers, Ended
  <2> QED
      BY <1>4, <2>2 DEF RunsSound
<1>6. CASE Mark(r) /\ row[r] = "queued"
  <2>1. row'[r] = "running" /\ claims'[r] = 1 /\ r \notin old'
      BY <1>6 DEF Mark, Claim, CrawlTypeOK, RunsSound, RunSound
  <2>2. RunSound(r)'
      BY <1>2, <1>3, <1>6, <2>1 DEF RunsSound, RunSound, Alive, Attended, Lingers, Ended
  <2> QED
      BY <1>4, <2>2 DEF RunsSound
<1>7. CASE Mark(r) /\ row[r] # "queued"
  <2>1. r \in twice /\ UNCHANGED <<row, old, claims>> /\ worker[Inline(r)].pc = "mark"
      BY <1>7 DEF Mark, Claim, At, RunsSound, RunSound
  <2>2. RunSound(r)'
      BY <1>2, <1>3, <1>7, <2>1 DEF RunsSound, RunSound, Alive, Attended, Lingers, Ended
  <2> QED
      BY <1>4, <2>2 DEF RunsSound
<1> QED
    BY <1>5, <1>6, <1>7

LEMMA RowSound ==
    ASSUME CrawlTypeOK, RunsSound, NEW r \in Run,
           \/ Trigger(r) \/ Redispatch(r) \/ StartJob(r) \/ RunInline(r) \/ Mark(r)
           \/ Age(r) \/ ForceReclaim(r)
    PROVE  RunsSound'
<1>1. CASE Trigger(r)
  <2>1. ASSUME NEW s \in Run, s # r PROVE RunSound(s)'
      BY <1>1, <2>1, UndisturbedSound DEF RunsSound, Undisturbed, Trigger, CrawlTypeOK
  <2>2. row[r] = "none" /\ row'[r] = "queued" /\ UNCHANGED <<old, claims, robbed, twice, worker>>
      BY <1>1 DEF Trigger, CrawlTypeOK
  <2>3. RunSound(r)'
      BY <2>2 DEF RunsSound, RunSound, Alive, Attended, Lingers, Ended
  <2> QED
      BY <2>1, <2>3 DEF RunsSound
<1>2. CASE Redispatch(r)
    BY <1>2, UndisturbedSound DEF RunsSound, Undisturbed, Redispatch
<1>3. CASE StartJob(r)
    BY <1>3, StartSound
<1>4. CASE RunInline(r) \/ Mark(r)
    BY <1>4, InlineSound
<1>5. CASE Age(r)
    BY <1>5 DEF Age, RunsSound, RunSound, Alive, Attended, Lingers
<1>6. CASE ForceReclaim(r)
    BY <1>6, ReclaimedSound DEF ForceReclaim
<1> QED
    BY <1>1, <1>2, <1>3, <1>4, <1>5, <1>6

LEMMA RunsStep ==
    ASSUME CrawlTypeOK, RunsSound, [Next]_vars
    PROVE  RunsSound'
<1>1. CASE Publish
    BY <1>1, StillSound DEF Publish
<1>2. CASE Reclaim
  <2>1. old \in SUBSET Run /\ \A r \in old : row[r] = "running"
      BY DEF CrawlTypeOK, RunsSound, RunSound
  <2> QED
      BY <1>2, <2>1, ReclaimedSound DEF Reclaim
<1>3. CASE UNCHANGED vars
    BY <1>3, StillSound DEF vars
<1>4. ASSUME NEW p \in Pass, BeginPass(p) \/ ReadPass(p) \/ CommitPass(p) PROVE RunsSound'
    BY <1>4, StillSound DEF BeginPass, ReadPass, CommitPass
<1> QED
    BY <1>1, <1>2, <1>3, <1>4, WorkSound, RowSound DEF Next

\* A row that has ended changes only if a process of its run is still there.
LEMMA EndedStep ==
    ASSUME CrawlTypeOK, RunsSound, [Next]_vars, NEW s \in Run,
           row[s] \in Ended, row'[s] # row[s]
    PROVE  EndsAgain(s)
<1>1. row[s] \notin {"none", "queued", "running"}
    BY DEF Ended
<1>2. \A R \in SUBSET Run : Reclaimed(R) => s \in R
    BY DEF Reclaimed
<1>3. ~Reclaim
    BY <1>1, <1>2 DEF Reclaim, RunsSound, RunSound, CrawlTypeOK
<1>4. row' # row
    OBVIOUS
<1>5. ASSUME NEW k \in Process, Finalize(k) \/ Abandon(k) PROVE EndsAgain(s)
  <2>1. PICK status \in Ended : FinalizedAs(k, status)
      BY <1>5, FinalizeShape
  <2>2. k[1] \in Run /\ row' = [row EXCEPT ![k[1]] = status]
      BY <2>1, FinalizedShape, ProcessParts
  <2>3. k[1] = s /\ row'[s] = status
      BY <2>2 DEF CrawlTypeOK
  <2>4. worker[k].pc # "gone" /\ Lingers(s, worker[k].pc)
      BY <1>5, <2>3, ProcessParts DEF Finalize, Abandon, At, RunsSound, RunSound
  <2>5. CASE worker[k].pc = "unsure"
    <3>1. Finalized(k, "failed", Gone)
        BY <1>5, <2>5 DEF Finalize, Abandon, At
    <3>2. row'[s] = "failed"
        BY <2>2, <2>3, <3>1 DEF Finalized, CrawlTypeOK
    <3>3. \E h \in How : At(<<s, h>>, "unsure")
        BY <2>3, <2>5, ProcessParts DEF At, How, Job, Inline
    <3> QED
        BY <3>2, <3>3 DEF EndsAgain
  <2> QED
      BY <2>4, <2>5 DEF Lingers, EndsAgain
<1>6. ASSUME NEW r \in Run,
             \/ Trigger(r) \/ Redispatch(r) \/ StartJob(r) \/ RunInline(r) \/ Mark(r)
             \/ Age(r) \/ ForceReclaim(r)
      PROVE  FALSE
  <2>1. ~Trigger(r) /\ ~StartJob(r) /\ ~RunInline(r) /\ ~Mark(r) /\ ~Redispatch(r) /\ ~Age(r)
      BY <1>1, <1>4 DEF Trigger, StartJob, RunInline, Mark, Claim, Redispatch, Age, CrawlTypeOK
  <2>2. ForceReclaim(r) => s = r /\ row[r] = "running"
      BY <1>2 DEF ForceReclaim
  <2> QED
      BY <1>1, <1>6, <2>1, <2>2
<1>7. PICK k \in Process : Finalize(k) \/ Abandon(k)
    BY <1>3, <1>4, <1>6
    DEF Next, Work, vars, crawlRows, Publish, LoadCheckpoint, Scrape, SessionA,
        BeginDownstream, CommitDownstream, SaveCheckpoint, Crash, BeginPass, ReadPass, CommitPass
<1> QED
    BY <1>5, <1>7

-----------------------------------------------------------------------------
(* A page and its checkpoint.                                              *)

Accounted(d) == d \in stored \cup missed

Persisting == {"persist", "begin", "commit"}

PageSound(k) ==
    LET w == worker[k] IN
    /\ w.pc = "scrape" => \A d \in Doc : d <= w.since => Accounted(d)
    /\ w.pc \in Persisting /\ w.ok =>
          \A f \in w.found : \A d \in Doc : d <= f => Accounted(d) \/ d \in w.todo

PagesSound == \A k \in Process : PageSound(k)

MoreAccounted == stored \subseteq stored' /\ missed \subseteq missed'

\* What a worker has found stays what it was, and a document leaves its work
\* when it is stored or counted as missed.
PageGoesOn(k) ==
    /\ worker[k].pc \in Persisting /\ worker'[k].pc \in Persisting
    /\ worker'[k].ok = worker[k].ok /\ worker'[k].found = worker[k].found
    /\ \A d \in worker[k].todo : d \in worker'[k].todo \/ d \in stored' \cup missed'

LEMMA GoesOnSound ==
    ASSUME PagesSound, MoreAccounted, NEW k \in Process, Others(k), PageGoesOn(k)
    PROVE  PagesSound'
<1>1. ASSUME NEW s \in Process, s # k PROVE PageSound(s)'
  <2>1. worker'[s] = worker[s]
      BY <1>1 DEF Others
  <2> QED
      BY <2>1 DEF PagesSound, PageSound, Accounted, MoreAccounted
<1>2. PageSound(k)'
  <2>1. worker'[k].pc # "scrape"
      BY DEF PageGoesOn, Persisting
  <2>2. ASSUME worker'[k].ok, NEW f \in worker'[k].found, NEW d \in Doc, d <= f
        PROVE  Accounted(d)' \/ d \in worker'[k].todo
    <3>1. worker[k].ok /\ f \in worker[k].found
        BY <2>2, Zenon DEF PageGoesOn
    <3>2. Accounted(d) \/ d \in worker[k].todo
        BY <2>2, <3>1 DEF PagesSound, PageSound, PageGoesOn
    <3> QED
        BY <3>2 DEF Accounted, MoreAccounted, PageGoesOn
  <2> QED
      BY <2>1, <2>2 DEF PageSound
<1> QED
    BY <1>1, <1>2 DEF PagesSound

\* A worker that works on no page.
LEMMA OffPageSound ==
    ASSUME PagesSound, MoreAccounted, NEW k \in Process, Others(k),
           worker'[k].pc \in {"gone", "mark", "load", "finalize", "unsure"}
    PROVE  PagesSound'
<1>1. ASSUME NEW s \in Process, s # k PROVE PageSound(s)'
  <2>1. worker'[s] = worker[s]
      BY <1>1 DEF Others
  <2> QED
      BY <2>1 DEF PagesSound, PageSound, Accounted, MoreAccounted
<1>2. PageSound(k)'
    BY DEF PageSound, Persisting
<1> QED
    BY <1>1, <1>2 DEF PagesSound

LEMMA SamePageSound ==
    ASSUME PagesSound, MoreAccounted, worker' = worker
    PROVE  PagesSound'
BY DEF PagesSound, PageSound, Accounted, MoreAccounted

LEMMA LoadSound ==
    ASSUME CrawlTypeOK, PagesSound, NothingPassedOver, NEW k \in Process, LoadCheckpoint(k)
    PROVE  PagesSound'
<1>1. /\ Others(k) /\ worker'[k].pc = "scrape" /\ worker'[k].since = checkpoint
      /\ stored' = stored /\ missed' = missed
    BY LoadShape DEF LoadCheckpoint, documents, notes
<1>2. ASSUME NEW s \in Process, s # k PROVE PageSound(s)'
    BY <1>1, <1>2 DEF Others, PagesSound, PageSound, Accounted
<1>3. PageSound(k)'
    BY <1>1 DEF NothingPassedOver, PageSound, Accounted, Persisting
<1> QED
    BY <1>2, <1>3 DEF PagesSound

LEMMA ScrapeSound ==
    ASSUME CrawlTypeOK, PagesSound, NEW k \in Process, Scrape(k)
    PROVE  PagesSound' /\ MoreAccounted
<1>1. /\ Others(k) /\ worker[k].pc = "scrape" /\ worker'[k].pc = "persist"
      /\ stored' = stored /\ missed \subseteq missed'
      /\ worker'[k].ok =>
            /\ worker'[k].found \subseteq Fresh(worker[k].since)
            /\ Fresh(worker[k].since) \subseteq worker'[k].todo \cup missed'
    BY ScrapeShape DEF Scrape, documents, At
<1>2. MoreAccounted
    BY <1>1 DEF MoreAccounted
<1>3. ASSUME NEW s \in Process, s # k PROVE PageSound(s)'
  <2>1. worker'[s] = worker[s]
      BY <1>1, <1>3 DEF Others
  <2> QED
      BY <1>2, <2>1 DEF PagesSound, PageSound, Accounted, MoreAccounted
<1>4. ASSUME worker'[k].ok, NEW f \in worker'[k].found, NEW d \in Doc, d <= f
      PROVE  Accounted(d)' \/ d \in worker'[k].todo
  <2>1. worker[k].since \in Int /\ listed \in Int /\ d \in Int
      BY DEF CrawlTypeOK, Actor, Doc
  <2>2. f \in Doc /\ f <= listed /\ f \in Int
      BY <1>1, <1>4 DEF Fresh, Doc
  <2>3. d <= worker[k].since \/ d \in Fresh(worker[k].since)
      BY <1>4, <2>1, <2>2 DEF Fresh
  <2>4. d <= worker[k].since => Accounted(d)
      BY <1>1 DEF PagesSound, PageSound
  <2> QED
      BY <1>1, <1>2, <1>4, <2>3, <2>4 DEF Accounted, MoreAccounted
<1>5. PageSound(k)'
    BY <1>1, <1>4 DEF PageSound, Persisting
<1> QED
    BY <1>2, <1>3, <1>5 DEF PagesSound

PageInv == PagesSound /\ NothingPassedOver

LEMMA SameCheckpoint ==
    ASSUME NothingPassedOver, MoreAccounted, checkpoint' = checkpoint
    PROVE  NothingPassedOver'
BY DEF NothingPassedOver, MoreAccounted

LEMMA WorkPages ==
    ASSUME CrawlTypeOK, PageInv, NEW k \in Process, Work(k)
    PROVE  PageInv'
<1>1. CASE LoadCheckpoint(k)
  <2>1. MoreAccounted /\ checkpoint' = checkpoint
      BY <1>1 DEF LoadCheckpoint, documents, notes, MoreAccounted
  <2> QED
      BY <1>1, <2>1, LoadSound, SameCheckpoint DEF PageInv
<1>2. CASE Scrape(k)
    BY <1>2, ScrapeSound, SameCheckpoint DEF PageInv, Scrape
<1>3. CASE SessionA(k)
  <2>1. PICK d \in worker[k].todo :
            /\ worker'[k].todo = worker[k].todo \ {d}
            /\ StoresNext(k, d) \/ LosesNext(k, d)
      BY <1>3, SessionAShape
  <2>2. MoreAccounted /\ d \in stored' \cup missed' /\ worker'[k].pc \in {"begin", "persist"}
      BY <2>1 DEF StoresNext, LosesNext, MoreAccounted
  <2>3. worker[k].pc = "persist" /\ worker'[k].ok = worker[k].ok
        /\ worker'[k].found = worker[k].found /\ Others(k) /\ checkpoint' = checkpoint
      BY <1>3, SessionAShape DEF SessionA
  <2>4. PageGoesOn(k)
      BY <2>1, <2>2, <2>3 DEF PageGoesOn, Persisting
  <2> QED
      BY <2>2, <2>3, <2>4, GoesOnSound, SameCheckpoint DEF PageInv
<1>4. CASE BeginDownstream(k)
  <2>1. MoreAccounted /\ checkpoint' = checkpoint
      BY <1>4 DEF BeginDownstream, documents, notes, MoreAccounted
  <2>2. PageGoesOn(k) /\ Others(k)
      BY <1>4, BeginShape DEF PageGoesOn, Persisting
  <2> QED
      BY <2>1, <2>2, GoesOnSound, SameCheckpoint DEF PageInv
<1>5. CASE CommitDownstream(k)
  <2>1. MoreAccounted /\ checkpoint' = checkpoint
      BY <1>5 DEF CommitDownstream, notes, MoreAccounted
  <2>2. PageGoesOn(k) /\ Others(k)
      BY <1>5, CommitShape DEF PageGoesOn, Persisting
  <2> QED
      BY <2>1, <2>2, GoesOnSound, SameCheckpoint DEF PageInv
<1>6. CASE SaveCheckpoint(k)
  <2>1. MoreAccounted /\ stored' = stored /\ missed' = missed
      BY <1>6 DEF SaveCheckpoint, documents, notes, MoreAccounted
  <2>2. worker'[k].pc = "finalize" /\ Others(k)
      BY <1>6, SaveShape
  <2>3. /\ checkpoint' = checkpoint \/ (worker[k].ok /\ checkpoint' \in worker[k].found)
        /\ worker[k].pc \in Persisting
        /\ worker[k].todo = {}
      BY <1>6, SaveShape DEF Persisting
  <2>4. NothingPassedOver'
      BY <2>1, <2>3 DEF NothingPassedOver, PageInv, PagesSound, PageSound, Accounted
  <2> QED
      BY <2>1, <2>2, <2>4, OffPageSound DEF PageInv
<1>7. CASE Finalize(k) \/ Abandon(k)
  <2>1. PICK status \in Ended : FinalizedAs(k, status)
      BY <1>7, FinalizeShape
  <2>2. /\ MoreAccounted /\ checkpoint' = checkpoint
        /\ Others(k) /\ worker'[k].pc \in {"gone", "unsure"}
      BY <2>1, FinalizedShape DEF documents, notes, MoreAccounted
  <2> QED
      BY <2>2, OffPageSound, SameCheckpoint DEF PageInv
<1>8. CASE Crash(k)
  <2>1. MoreAccounted /\ checkpoint' = checkpoint
      BY <1>8 DEF Crash, documents, notes, MoreAccounted
  <2> QED
      BY <1>8, <2>1, EndShape, OffPageSound, SameCheckpoint DEF PageInv, Crash
<1> QED
    BY <1>1, <1>2, <1>3, <1>4, <1>5, <1>6, <1>7, <1>8 DEF Work

LEMMA RowPages ==
    ASSUME CrawlTypeOK, PageInv, NEW r \in Run,
           \/ Trigger(r) \/ Redispatch(r) \/ StartJob(r) \/ RunInline(r) \/ Mark(r)
           \/ Age(r) \/ ForceReclaim(r)
    PROVE  PageInv'
<1>1. MoreAccounted /\ checkpoint' = checkpoint
    BY DEF Trigger, Redispatch, StartJob, RunInline, Mark, Age, ForceReclaim, Reclaimed,
           documents, notes, MoreAccounted
<1>2. worker' = worker \/ \E k \in Process : Others(k) /\ worker'[k].pc \in {"mark", "load"}
  <2>1. Job(r) \in Process /\ Inline(r) \in Process /\ "load" \in Pcs /\ "mark" \in Pcs
      BY ProcessParts DEF Pcs
  <2>2. CASE StartJob(r)
      BY <2>1, <2>2, StartShape, MovedShape
  <2>3. CASE RunInline(r) \/ Mark(r)
      BY <2>1, <2>3, MovedShape DEF RunInline, Mark
  <2> QED
      BY <2>2, <2>3 DEF Trigger, Redispatch, Age, ForceReclaim, Reclaimed
<1> QED
    BY <1>1, <1>2, SamePageSound, OffPageSound, SameCheckpoint DEF PageInv

LEMMA PagesStep ==
    ASSUME CrawlTypeOK, PageInv, [Next]_vars
    PROVE  PageInv'
<1>1. ASSUME UNCHANGED <<worker, checkpoint, stored, missed>> PROVE PageInv'
    BY <1>1, SamePageSound, SameCheckpoint DEF PageInv, MoreAccounted
<1>2. CASE Publish \/ Reclaim \/ UNCHANGED vars
    BY <1>1, <1>2 DEF Publish, Reclaim, Reclaimed, vars, documents, notes
<1>3. ASSUME NEW p \in Pass, BeginPass(p) \/ ReadPass(p) \/ CommitPass(p) PROVE PageInv'
    BY <1>1, <1>3 DEF BeginPass, ReadPass, CommitPass, documents, notes
<1> QED
    BY <1>2, <1>3, WorkPages, RowPages DEF Next

-----------------------------------------------------------------------------
(* Events and those who mean to create them.                               *)

Working == {"begin", "commit"}

\* Whoever creates an event works on a stored document which has none yet, or
\* which somebody else was creating it for; and whoever does not create one
\* found it there, or the document crawled again.
ActorSound(w) ==
    /\ w.create => w.pc \in Working
    /\ w.pc \in Working =>
          /\ w.doc \in stored
          /\ w.create => w.doc \in met \/ events[w.doc] = 0
          /\ ~w.create => events[w.doc] > 0 \/ w.doc \in reseen

Together(v, w) == v.create /\ w.create /\ v.doc = w.doc => v.doc \in met

EventsSound ==
    /\ \A k \in Process : ActorSound(worker[k])
    /\ \A p \in Pass : ActorSound(pass[p])
    /\ \A k, s \in Process : k # s => Together(worker[k], worker[s])
    /\ \A p, q \in Pass : p # q => Together(pass[p], pass[q])
    /\ \A k \in Process : \A p \in Pass : Together(worker[k], pass[p])
    /\ \A d \in Doc : events[d] > 0 => d \in stored

EventInv == EventsSound /\ EventsMatchDocuments

\* An actor goes on with what it does, or gives it up.
Calmer(w, v) ==
    \/ v.pc \notin Working /\ ~v.create
    \/ /\ v.pc \in Working /\ w.pc \in Working
       /\ v.doc = w.doc /\ (v.create <=> w.create)

MoreRemembered == stored \subseteq stored' /\ met \subseteq met' /\ reseen \subseteq reseen'

\* No document's events change but by one more, for which there is nobody else
\* but such as are known to have met.
OneMore(d) ==
    \/ events'[d] = events[d]
    \/ /\ events'[d] > 0 /\ d \in stored
       /\ \A k \in Process : worker'[k].create /\ worker'[k].doc = d => d \in met
       /\ \A p \in Pass : pass'[p].create /\ pass'[p].doc = d => d \in met

LEMMA CalmActor ==
    ASSUME NEW w, NEW v, ActorSound(w), Calmer(w, v), MoreRemembered, stored \subseteq Doc,
           \A d \in Doc : \/ events'[d] = events[d]
                          \/ events'[d] > 0 /\ (v.create /\ v.doc = d => d \in met)
    PROVE  /\ v.create => v.pc \in Working
           /\ v.pc \in Working =>
                 /\ v.doc \in stored'
                 /\ v.create => v.doc \in met' \/ events'[v.doc] = 0
                 /\ ~v.create => events'[v.doc] > 0 \/ v.doc \in reseen'
BY DEF ActorSound, Calmer, MoreRemembered

LEMMA CalmPair ==
    ASSUME NEW w, NEW v, NEW x, NEW y, Together(w, x), Calmer(w, v), Calmer(x, y),
           MoreRemembered, v.create, y.create, v.doc = y.doc
    PROVE  v.doc \in met'
BY DEF Together, Calmer, MoreRemembered

LEMMA CalmEvents ==
    ASSUME CrawlTypeOK, EventsSound, MoreRemembered,
           \A k \in Process : Calmer(worker[k], worker'[k]),
           \A p \in Pass : Calmer(pass[p], pass'[p]),
           \A d \in Doc : OneMore(d)
    PROVE  EventsSound'
<1>1. stored \subseteq Doc
    BY DEF CrawlTypeOK
<1>2. ASSUME NEW k \in Process PROVE ActorSound(worker[k])'
  <2>1. ActorSound(worker[k]) /\ Calmer(worker[k], worker'[k])
      BY DEF EventsSound
  <2>2. \A d \in Doc : \/ events'[d] = events[d]
                       \/ events'[d] > 0 /\ (worker'[k].create /\ worker'[k].doc = d => d \in met)
      BY DEF OneMore
  <2> QED
      BY <1>1, <2>1, <2>2, CalmActor DEF ActorSound
<1>3. ASSUME NEW p \in Pass PROVE ActorSound(pass[p])'
  <2>1. ActorSound(pass[p]) /\ Calmer(pass[p], pass'[p])
      BY DEF EventsSound
  <2>2. \A d \in Doc : \/ events'[d] = events[d]
                       \/ events'[d] > 0 /\ (pass'[p].create /\ pass'[p].doc = d => d \in met)
      BY DEF OneMore
  <2> QED
      BY <1>1, <2>1, <2>2, CalmActor DEF ActorSound
<1>4. ASSUME NEW k \in Process, NEW s \in Process, k # s PROVE Together(worker[k], worker[s])'
  <2>1. Together(worker[k], worker[s])
      BY <1>4 DEF EventsSound
  <2> QED
      BY <2>1, CalmPair DEF Together
<1>5. ASSUME NEW p \in Pass, NEW q \in Pass, p # q PROVE Together(pass[p], pass[q])'
  <2>1. Together(pass[p], pass[q])
      BY <1>5 DEF EventsSound
  <2> QED
      BY <2>1, CalmPair DEF Together
<1>6. ASSUME NEW k \in Process, NEW p \in Pass PROVE Together(worker[k], pass[p])'
  <2>1. Together(worker[k], pass[p])
      BY DEF EventsSound
  <2> QED
      BY <2>1, CalmPair DEF Together
<1>7. \A d \in Doc : events'[d] > 0 => d \in stored'
    BY DEF EventsSound, OneMore, MoreRemembered
<1> QED
    BY <1>2, <1>3, <1>4, <1>5, <1>6, <1>7 DEF EventsSound

\* An actor that changes nothing of that, and one that has nothing of it.
LEMMA SameIsCalm ==
    ASSUME NEW w, ActorSound(w)
    PROVE  Calmer(w, w)
BY DEF ActorSound, Calmer

LEMMA OthersCalm ==
    ASSUME EventsSound, NEW k \in Process, Others(k)
    PROVE  \A s \in Process : s # k => Calmer(worker[s], worker'[s])
BY SameIsCalm DEF EventsSound, Others

LEMMA PassesCalm ==
    ASSUME EventsSound, pass' = pass
    PROVE  \A p \in Pass : Calmer(pass[p], pass'[p])
BY SameIsCalm DEF EventsSound

LEMMA WorkersCalm ==
    ASSUME EventsSound, worker' = worker
    PROVE  \A k \in Process : Calmer(worker[k], worker'[k])
BY SameIsCalm DEF EventsSound

\* Steps that neither start nor end the work on a document.
LEMMA QuietWorker ==
    ASSUME CrawlTypeOK, EventInv, NEW k \in Process, Others(k), pass' = pass,
           Calmer(worker[k], worker'[k]),
           UNCHANGED <<stored, graph, events, met, reseen>>
    PROVE  EventInv'
<1>1. \A s \in Process : Calmer(worker[s], worker'[s])
    BY OthersCalm DEF EventInv
<1>2. \A d \in Doc : OneMore(d)
    BY DEF OneMore
<1>3. EventsSound'
    BY <1>1, <1>2, PassesCalm, CalmEvents DEF EventInv, MoreRemembered
<1>4. EventsMatchDocuments'
    BY DEF EventInv, EventsMatchDocuments, OneEventEach, FinishedHasEvent
<1> QED
    BY <1>3, <1>4 DEF EventInv

\* A worker or a pass that turns to a document.
LEMMA WorkerJoins ==
    ASSUME CrawlTypeOK, EventsSound, MoreRemembered, NEW k \in Process, Others(k),
           pass' = pass, events' = events, ActorSound(worker[k])',
           worker'[k].create /\ Creating(worker'[k].doc) => worker'[k].doc \in met'
    PROVE  EventsSound'
<1>1. ASSUME NEW s \in Process PROVE ActorSound(worker[s])'
    BY DEF EventsSound, ActorSound, Others, MoreRemembered
<1>2. ASSUME NEW p \in Pass PROVE ActorSound(pass[p])'
    BY DEF EventsSound, ActorSound, MoreRemembered
<1>3. ASSUME NEW s \in Process, s # k
      PROVE  Together(worker[k], worker[s])' /\ Together(worker[s], worker[k])'
  <2>1. worker'[s] = worker[s]
      BY <1>3 DEF Others
  <2> QED
      BY <2>1 DEF Together, Creating
<1>4. ASSUME NEW s \in Process, NEW t \in Process, s # t PROVE Together(worker[s], worker[t])'
  <2>1. CASE s = k \/ t = k
      BY <1>3, <1>4, <2>1
  <2>2. CASE s # k /\ t # k
    <3>1. worker'[s] = worker[s] /\ worker'[t] = worker[t] /\ Together(worker[s], worker[t])
        BY <1>4, <2>2 DEF Others, EventsSound
    <3> QED
        BY <3>1 DEF Together, MoreRemembered
  <2> QED
      BY <2>1, <2>2
<1>5. ASSUME NEW p \in Pass, NEW q \in Pass, p # q PROVE Together(pass[p], pass[q])'
  <2>1. Together(pass[p], pass[q])
      BY <1>5 DEF EventsSound
  <2> QED
      BY <2>1 DEF Together, MoreRemembered
<1>6. ASSUME NEW s \in Process, NEW p \in Pass PROVE Together(worker[s], pass[p])'
  <2>1. CASE s = k
      BY <2>1 DEF Together, Creating
  <2>2. CASE s # k
    <3>1. worker'[s] = worker[s] /\ Together(worker[s], pass[p])
        BY <2>2 DEF Others, EventsSound
    <3> QED
        BY <3>1 DEF Together, MoreRemembered
  <2> QED
      BY <2>1, <2>2
<1>7. \A d \in Doc : events'[d] > 0 => d \in stored'
    BY DEF EventsSound, MoreRemembered
<1> QED
    BY <1>1, <1>2, <1>4, <1>5, <1>6, <1>7 DEF EventsSound

LEMMA PassJoins ==
    ASSUME CrawlTypeOK, EventsSound, MoreRemembered, NEW p \in Pass, OtherPasses(p),
           worker' = worker, events' = events, ActorSound(pass[p])',
           pass'[p].create /\ Creating(pass'[p].doc) => pass'[p].doc \in met'
    PROVE  EventsSound'
<1>1. ASSUME NEW q \in Pass PROVE ActorSound(pass[q])'
    BY DEF EventsSound, ActorSound, OtherPasses, MoreRemembered
<1>2. ASSUME NEW s \in Process PROVE ActorSound(worker[s])'
    BY DEF EventsSound, ActorSound, MoreRemembered
<1>3. ASSUME NEW q \in Pass, q # p
      PROVE  Together(pass[p], pass[q])' /\ Together(pass[q], pass[p])'
  <2>1. pass'[q] = pass[q]
      BY <1>3 DEF OtherPasses
  <2> QED
      BY <2>1 DEF Together, Creating
<1>4. ASSUME NEW q \in Pass, NEW t \in Pass, q # t PROVE Together(pass[q], pass[t])'
  <2>1. CASE q = p \/ t = p
      BY <1>3, <1>4, <2>1
  <2>2. CASE q # p /\ t # p
    <3>1. pass'[q] = pass[q] /\ pass'[t] = pass[t] /\ Together(pass[q], pass[t])
        BY <1>4, <2>2 DEF OtherPasses, EventsSound
    <3> QED
        BY <3>1 DEF Together, MoreRemembered
  <2> QED
      BY <2>1, <2>2
<1>5. ASSUME NEW s \in Process, NEW t \in Process, s # t PROVE Together(worker[s], worker[t])'
  <2>1. Together(worker[s], worker[t])
      BY <1>5 DEF EventsSound
  <2> QED
      BY <2>1 DEF Together, MoreRemembered
<1>6. ASSUME NEW s \in Process, NEW q \in Pass PROVE Together(worker[s], pass[q])'
  <2>1. CASE q = p
      BY <2>1 DEF Together, Creating
  <2>2. CASE q # p
    <3>1. pass'[q] = pass[q] /\ Together(worker[s], pass[q])
        BY <2>2 DEF OtherPasses, EventsSound
    <3> QED
        BY <3>1 DEF Together, MoreRemembered
  <2> QED
      BY <2>1, <2>2
<1>7. \A d \in Doc : events'[d] > 0 => d \in stored'
    BY DEF EventsSound, MoreRemembered
<1> QED
    BY <1>1, <1>2, <1>4, <1>5, <1>6, <1>7 DEF EventsSound

LEMMA SameEventsMatch ==
    ASSUME EventsMatchDocuments, MoreRemembered, UNCHANGED <<graph, events>>
    PROVE  EventsMatchDocuments'
BY DEF EventsMatchDocuments, OneEventEach, FinishedHasEvent, MoreRemembered

LEMMA StoringEvents ==
    ASSUME CrawlTypeOK, EventInv, NEW k \in Process, SessionA(k)
    PROVE  EventInv'
<1>1. PICK d \in worker[k].todo : d \in Doc /\ (StoresNext(k, d) \/ LosesNext(k, d))
    BY SessionAShape
<1>2. Others(k) /\ pass' = pass /\ UNCHANGED <<graph, events>> /\ worker[k].pc = "persist"
    BY SessionAShape DEF SessionA
<1>3. CASE StoresNext(k, d)
  <2>1. MoreRemembered
      BY <1>3 DEF StoresNext, MoreRemembered
  <2>2. events[d] \in Nat
      BY <1>1 DEF CrawlTypeOK
  <2>3. ASSUME d \notin stored PROVE events[d] = 0
      BY <1>1, <2>2, <2>3 DEF EventInv, EventsSound
  <2>4. ASSUME d \in stored PROVE events[d] > 0 \/ d \in reseen'
      BY <1>3, <2>2, <2>4 DEF StoresNext
  <2>5. ActorSound(worker[k])'
    <3>1. worker'[k].pc \in Working /\ worker'[k].doc = d /\ d \in stored'
          /\ (worker'[k].create <=> d \notin stored) /\ events' = events
        BY <1>2, <1>3 DEF StoresNext, Working
    <3> QED
        BY <2>3, <2>4, <3>1 DEF ActorSound
  <2>6. worker'[k].create /\ Creating(worker'[k].doc) => worker'[k].doc \in met'
      BY <1>3, Zenon DEF StoresNext
  <2>7. EventsSound'
      BY <1>2, <2>1, <2>5, <2>6, WorkerJoins DEF EventInv
  <2> QED
      BY <1>2, <2>1, <2>7, SameEventsMatch DEF EventInv
<1>4. CASE LosesNext(k, d)
  <2>1. Calmer(worker[k], worker'[k])
    <3>1. ~worker[k].create
        BY <1>2 DEF EventInv, EventsSound, ActorSound, Working
    <3>2. worker'[k].create = worker[k].create /\ worker'[k].pc = "persist"
        BY <1>4 DEF LosesNext
    <3>3. ~worker'[k].create
        BY <3>1, <3>2, Zenon
    <3> QED
        BY <3>2, <3>3 DEF Calmer, Working
  <2> QED
      BY <1>2, <1>4, <2>1, QuietWorker DEF LosesNext
<1> QED
    BY <1>1, <1>3, <1>4

\* The second session commits: what it writes fits what it was begun with.
LEMMA DownstreamEvents ==
    ASSUME CrawlTypeOK, EventInv, NEW w, Downstream(w), ActorSound(w), w.pc = "commit",
           UNCHANGED <<stored, met, reseen>>
    PROVE  /\ \A d \in Doc : \/ events'[d] = events[d]
                             \/ /\ d = w.doc /\ w.create /\ events'[d] > 0 /\ d \in stored
           /\ EventsMatchDocuments'
<1>1. /\ events \in [Doc -> Nat] /\ graph \in [Doc -> GraphStates] /\ Material \subseteq Doc
      /\ w.doc \in stored /\ w.doc \in Doc
      /\ w.create => w.doc \in met \/ events[w.doc] = 0
      /\ ~w.create => events[w.doc] > 0 \/ w.doc \in reseen
    BY CrawlIngestAssumption DEF CrawlTypeOK, ActorSound, Working, GraphStates, Doc
<1>2. ASSUME NEW d \in Doc
      PROVE  events'[d] = events[d] \/ (d = w.doc /\ w.create /\ events'[d] = events[d] + 1)
    BY <1>1 DEF Downstream, EventsOf
<1>3. ASSUME NEW d \in Doc PROVE events[d] \in Nat /\ events'[d] \in Nat /\ events'[d] >= events[d]
    BY <1>1, <1>2
<1>4. OneEventEach'
  <2>1. ASSUME NEW d \in Doc, events'[d] > 1 PROVE d \in met
    <3>1. CASE events'[d] = events[d]
        BY <2>1, <3>1 DEF EventInv, EventsMatchDocuments, OneEventEach
    <3>2. CASE d = w.doc /\ w.create /\ events'[d] = events[d] + 1
      <4>1. events[d] # 0
          BY <1>3, <2>1, <3>2
      <4> QED
          BY <1>1, <3>2, <4>1
    <3> QED
        BY <1>2, <3>1, <3>2
  <2> QED
      BY <2>1 DEF OneEventEach
<1>5. FinishedHasEvent'
  <2>1. ASSUME NEW d \in Material, graph'[d] = "completed", graph[d] # "completed"
        PROVE  events'[d] > 0 \/ d \in reseen
    <3>1. d = w.doc /\ d \in Doc
        BY <1>1, <2>1, DownstreamType
    <3>2. events' = EventsOf(w)
      <4>1. GraphAs(w, "failed")[d] # "completed"
          BY <1>1, <2>1, <3>1 DEF GraphAs
      <4> QED
          BY <2>1, <4>1 DEF Downstream
    <3>3. CASE w.create
      <4>1. events'[d] = events[d] + 1
          BY <1>1, <2>1, <3>1, <3>2, <3>3 DEF EventsOf
      <4> QED
          BY <1>3, <3>1, <4>1
    <3>4. CASE ~w.create
        BY <1>1, <1>3, <3>1, <3>4
    <3> QED
        BY <3>3, <3>4
  <2>2. ASSUME NEW d \in Material, graph[d] = "completed"
        PROVE  events'[d] > 0 \/ d \in reseen
    <3>1. events[d] > 0 \/ d \in reseen
        BY <2>2 DEF EventInv, EventsMatchDocuments, FinishedHasEvent
    <3> QED
        BY <1>1, <1>3, <3>1
  <2> QED
      BY <2>1, <2>2 DEF FinishedHasEvent
<1>6. ASSUME NEW d \in Doc, d = w.doc, w.create, events'[d] = events[d] + 1
      PROVE  events'[d] > 0 /\ d \in stored
    BY <1>1, <1>3, <1>6
<1> QED
    BY <1>2, <1>4, <1>5, <1>6 DEF EventsMatchDocuments

LEMMA CommitEvents ==
    ASSUME CrawlTypeOK, EventInv, NEW k \in Process, CommitDownstream(k)
    PROVE  EventInv'
<1> DEFINE w == worker[k]
<1>1. /\ Others(k) /\ pass' = pass /\ UNCHANGED <<stored, met, reseen>> /\ Downstream(w)
      /\ w.pc = "commit" /\ worker'[k].pc = "persist" /\ ~worker'[k].create
    BY CommitShape DEF CommitDownstream, notes
<1>2. ActorSound(w)
    BY DEF EventInv, EventsSound
<1>3. /\ \A d \in Doc : \/ events'[d] = events[d]
                        \/ /\ d = w.doc /\ w.create /\ events'[d] > 0 /\ d \in stored
      /\ EventsMatchDocuments'
    BY <1>1, <1>2, DownstreamEvents
<1>4. ASSUME NEW d \in Doc, d = w.doc, w.create, events'[d] > 0, d \in stored PROVE OneMore(d)
  <2>1. ASSUME NEW s \in Process, worker'[s].create, worker'[s].doc = d PROVE d \in met
    <3>1. s # k
        BY <1>1, <2>1
    <3>2. worker'[s] = worker[s] /\ Together(w, worker[s])
        BY <1>1, <3>1 DEF Others, EventInv, EventsSound
    <3> QED
        BY <1>4, <2>1, <3>2 DEF Together
  <2>2. ASSUME NEW p \in Pass, pass'[p].create, pass'[p].doc = d PROVE d \in met
    <3>1. Together(w, pass[p])
        BY DEF EventInv, EventsSound
    <3> QED
        BY <1>1, <1>4, <2>2, <3>1 DEF Together
  <2> QED
      BY <1>4, <2>1, <2>2 DEF OneMore
<1>5. \A d \in Doc : OneMore(d)
    BY <1>3, <1>4 DEF OneMore
<1>6. \A s \in Process : Calmer(worker[s], worker'[s])
    BY <1>1, OthersCalm DEF EventInv, Calmer, Working
<1>7. \A p \in Pass : Calmer(pass[p], pass'[p])
    BY <1>1, PassesCalm DEF EventInv
<1>8. MoreRemembered
    BY <1>1 DEF MoreRemembered
<1>9. EventsSound'
    BY <1>5, <1>6, <1>7, <1>8, CalmEvents DEF EventInv
<1> QED
    BY <1>3, <1>9 DEF EventInv

LEMMA PassCommitEvents ==
    ASSUME CrawlTypeOK, EventInv, NEW p \in Pass, CommitPass(p)
    PROVE  EventInv'
<1> DEFINE w == pass[p]
<1>1. /\ OtherPasses(p) /\ worker' = worker /\ UNCHANGED <<stored, met, reseen>> /\ Downstream(w)
      /\ w.pc = "commit" /\ pass'[p].pc = "gone" /\ ~pass'[p].create
    BY CommitPassShape DEF CommitPass, notes
<1>2. ActorSound(w)
    BY DEF EventInv, EventsSound
<1>3. /\ \A d \in Doc : \/ events'[d] = events[d]
                        \/ /\ d = w.doc /\ w.create /\ events'[d] > 0 /\ d \in stored
      /\ EventsMatchDocuments'
    BY <1>1, <1>2, DownstreamEvents
<1>4. ASSUME NEW d \in Doc, d = w.doc, w.create, events'[d] > 0, d \in stored PROVE OneMore(d)
  <2>1. ASSUME NEW q \in Pass, pass'[q].create, pass'[q].doc = d PROVE d \in met
    <3>1. q # p
        BY <1>1, <2>1
    <3>2. pass'[q] = pass[q] /\ Together(w, pass[q])
        BY <1>1, <3>1 DEF OtherPasses, EventInv, EventsSound
    <3> QED
        BY <1>4, <2>1, <3>2 DEF Together
  <2>2. ASSUME NEW s \in Process, worker'[s].create, worker'[s].doc = d PROVE d \in met
    <3>1. Together(worker[s], w)
        BY DEF EventInv, EventsSound
    <3> QED
        BY <1>1, <1>4, <2>2, <3>1 DEF Together
  <2> QED
      BY <1>4, <2>1, <2>2 DEF OneMore
<1>5. \A d \in Doc : OneMore(d)
    BY <1>3, <1>4 DEF OneMore
<1>6. ASSUME NEW q \in Pass PROVE Calmer(pass[q], pass'[q])
  <2>1. CASE q = p
      BY <1>1, <2>1 DEF Calmer, Working
  <2>2. CASE q # p
      BY <1>1, <2>2, SameIsCalm DEF OtherPasses, EventInv, EventsSound
  <2> QED
      BY <2>1, <2>2
<1>7. \A k \in Process : Calmer(worker[k], worker'[k])
    BY <1>1, WorkersCalm DEF EventInv
<1>8. MoreRemembered
    BY <1>1 DEF MoreRemembered
<1>9. EventsSound'
    BY <1>5, <1>6, <1>7, <1>8, CalmEvents DEF EventInv
<1> QED
    BY <1>3, <1>9 DEF EventInv

LEMMA PassEvents ==
    ASSUME CrawlTypeOK, EventInv, NEW p \in Pass, BeginPass(p) \/ ReadPass(p)
    PROVE  EventInv'
<1>1. CASE BeginPass(p)
  <2>1. /\ OtherPasses(p) /\ worker' = worker /\ UNCHANGED <<stored, graph, events, reseen>>
        /\ pass'[p].pc = "begin" /\ pass'[p].doc \in stored /\ met \subseteq met'
        /\ (pass'[p].create <=> events[pass'[p].doc] = 0)
        /\ (pass'[p].create /\ Creating(pass'[p].doc) => pass'[p].doc \in met')
      BY <1>1, BeginPassShape DEF BeginPass, documents
  <2>2. MoreRemembered
      BY <2>1 DEF MoreRemembered
  <2>3. events[pass'[p].doc] \in Nat
      BY <2>1 DEF CrawlTypeOK
  <2>4. ActorSound(pass[p])'
      BY <2>1, <2>3 DEF ActorSound, Working
  <2>5. EventsSound'
      BY <2>1, <2>2, <2>4, PassJoins DEF EventInv
  <2> QED
      BY <2>1, <2>2, <2>5, SameEventsMatch DEF EventInv
<1>2. CASE ReadPass(p)
  <2>1. /\ OtherPasses(p) /\ worker' = worker /\ UNCHANGED <<stored, graph, events, met, reseen>>
        /\ Calmer(pass[p], pass'[p])
    <3>1. pass[p].pc = "begin" /\ pass'[p].pc = "commit" /\ pass'[p].doc = pass[p].doc
          /\ (pass'[p].create <=> pass[p].create)
        BY <1>2, ReadPassShape
    <3>2. Calmer(pass[p], pass'[p])
        BY <3>1 DEF Calmer, Working
    <3> QED
        BY <1>2, <3>2, ReadPassShape DEF ReadPass, documents, notes
  <2>2. MoreRemembered /\ \A d \in Doc : OneMore(d)
      BY <2>1 DEF MoreRemembered, OneMore
  <2>3. \A q \in Pass : Calmer(pass[q], pass'[q])
      BY <2>1, SameIsCalm DEF OtherPasses, EventInv, EventsSound
  <2>4. \A k \in Process : Calmer(worker[k], worker'[k])
      BY <2>1, WorkersCalm DEF EventInv
  <2>5. EventsSound'
      BY <2>2, <2>3, <2>4, CalmEvents DEF EventInv
  <2> QED
      BY <2>1, <2>2, <2>5, SameEventsMatch DEF EventInv
<1> QED
    BY <1>1, <1>2

\* A step of a worker that is neither of its two sessions.
LEMMA AsideEvents ==
    ASSUME CrawlTypeOK, EventInv, NEW k \in Process, Others(k), pass' = pass,
           UNCHANGED <<stored, graph, events, met, reseen>>,
           ~worker'[k].create, worker'[k].pc \notin Working
    PROVE  EventInv'
BY QuietWorker DEF Calmer

LEMMA WorkEvents ==
    ASSUME CrawlTypeOK, EventInv, NEW k \in Process, Work(k)
    PROVE  EventInv'
<1>1. CASE LoadCheckpoint(k)
    BY <1>1, LoadShape, AsideEvents DEF LoadCheckpoint, At, documents, notes, Working
<1>2. CASE Scrape(k)
    BY <1>2, ScrapeShape, AsideEvents DEF Scrape, At, documents, Working
<1>3. CASE SessionA(k)
    BY <1>3, StoringEvents
<1>4. CASE BeginDownstream(k)
  <2>1. Others(k) /\ pass' = pass /\ UNCHANGED <<stored, graph, events, met, reseen>>
      BY <1>4, BeginShape DEF BeginDownstream, documents, notes
  <2>2. worker[k].pc = "begin" /\ worker'[k].pc = "commit" /\ worker'[k].doc = worker[k].doc
        /\ (worker'[k].create <=> worker[k].create)
      BY <1>4, BeginShape
  <2>3. Calmer(worker[k], worker'[k])
      BY <2>2 DEF Calmer, Working
  <2> QED
      BY <2>1, <2>3, QuietWorker
<1>5. CASE CommitDownstream(k)
    BY <1>5, CommitEvents
<1>6. CASE SaveCheckpoint(k)
    BY <1>6, SaveShape, AsideEvents DEF SaveCheckpoint, documents, notes, Working
<1>7. CASE Finalize(k) \/ Abandon(k)
  <2>1. PICK status \in Ended : FinalizedAs(k, status)
      BY <1>7, FinalizeShape
  <2> QED
      BY <2>1, FinalizedShape, AsideEvents DEF documents, notes, Working
<1>8. CASE Crash(k)
    BY <1>8, EndShape, AsideEvents DEF Crash, documents, notes, Working
<1> QED
    BY <1>1, <1>2, <1>3, <1>4, <1>5, <1>6, <1>7, <1>8 DEF Work

\* A process that begins to work for a run.
LEMMA StartEvents ==
    ASSUME CrawlTypeOK, EventInv, NEW k \in Process, NEW pc \in {"mark", "load"}, pass' = pass,
           UNCHANGED <<stored, graph, events, met, reseen>>,
           Stage(k, [Gone EXCEPT !.pc = pc])
    PROVE  EventInv'
<1>1. pc \in Pcs
    BY DEF Pcs
<1>2. Others(k) /\ Calmer(worker[k], worker'[k])
    BY <1>1, MovedShape DEF Calmer, Working
<1> QED
    BY <1>2, QuietWorker

LEMMA StillEvents ==
    ASSUME CrawlTypeOK, EventInv, worker' = worker, pass' = pass,
           UNCHANGED <<stored, graph, events, met, reseen>>
    PROVE  EventInv'
<1>1. MoreRemembered /\ \A d \in Doc : OneMore(d)
    BY DEF MoreRemembered, OneMore
<1>2. EventsSound'
    BY <1>1, WorkersCalm, PassesCalm, CalmEvents DEF EventInv
<1> QED
    BY <1>1, <1>2, SameEventsMatch DEF EventInv

LEMMA RowEvents ==
    ASSUME CrawlTypeOK, EventInv, NEW r \in Run,
           \/ Trigger(r) \/ Redispatch(r) \/ StartJob(r) \/ RunInline(r) \/ Mark(r)
           \/ Age(r) \/ ForceReclaim(r)
    PROVE  EventInv'
<1>1. pass' = pass /\ UNCHANGED <<stored, graph, events, met, reseen>>
    BY DEF Trigger, Redispatch, StartJob, RunInline, Mark, Age, ForceReclaim, Reclaimed,
           documents, notes
<1>2. \/ worker' = worker
      \/ Stage(Job(r), [Gone EXCEPT !.pc = "load"])
      \/ \E pc \in {"mark", "load"} : Stage(Inline(r), [Gone EXCEPT !.pc = pc])
    BY StartShape DEF Trigger, Redispatch, RunInline, Mark, Age, ForceReclaim, Reclaimed
<1> QED
    BY <1>1, <1>2, StillEvents, StartEvents, ProcessParts

LEMMA EventsStep ==
    ASSUME CrawlTypeOK, EventInv, [Next]_vars
    PROVE  EventInv'
<1>1. CASE Publish \/ Reclaim \/ UNCHANGED vars
    BY <1>1, StillEvents DEF Publish, Reclaim, Reclaimed, vars, documents, notes
<1> QED
    BY <1>1, WorkEvents, RowEvents, PassEvents, PassCommitEvents DEF Next

-----------------------------------------------------------------------------
(* The theorems.                                                           *)

CrawlInv == CrawlTypeOK /\ RunsSound /\ PageInv /\ EventInv

LEMMA CrawlInit == Init => CrawlInv
<1> SUFFICES ASSUME Init PROVE CrawlInv
    OBVIOUS
<1>1. MaxDocs \in Nat /\ Gone \in Actor /\ Gone.pc = "gone" /\ Gone.create = FALSE
    BY CrawlIngestAssumption, GoneType
<1>2. CrawlTypeOK
    BY <1>1 DEF Init, CrawlTypeOK, Rows
<1>3. \A k \in Process : worker[k].pc = "gone" /\ ~worker[k].create
    BY <1>1, Zenon DEF Init
<1>4. \A p \in Pass : pass[p].pc = "gone" /\ ~pass[p].create
    BY <1>1, Zenon DEF Init
<1>5. RunsSound
    BY <1>3, ProcessParts DEF Init, RunsSound, RunSound, Alive, Attended, Lingers, Ended
<1>6. PageInv
    BY <1>3 DEF Init, PageInv, PagesSound, PageSound, Persisting, NothingPassedOver, Doc
<1>7. EventsSound
    BY <1>3, <1>4 DEF Init, EventsSound, ActorSound, Together, Working
<1>8. EventsMatchDocuments
    BY CrawlIngestAssumption DEF Init, EventsMatchDocuments, OneEventEach, FinishedHasEvent, Doc
<1> QED
    BY <1>2, <1>5, <1>6, <1>7, <1>8 DEF CrawlInv, EventInv

LEMMA CrawlStep == CrawlInv /\ [Next]_vars => CrawlInv'
BY TypeStep, RunsStep, PagesStep, EventsStep DEF CrawlInv

\* The inductive invariant: a row and its worker agree, a page accounts for all
\* that is older than what was found on it, and whoever creates an event is the
\* only one to do so or is known to have met somebody.
THEOREM CrawlInvHolds == Spec => []CrawlInv
<1>1. Init => CrawlInv
    BY CrawlInit
<1>2. CrawlInv /\ [Next]_vars => CrawlInv'
    BY CrawlStep
<1> QED
    BY <1>1, <1>2, PTL DEF Spec

\* However often a run is dispatched, claimed, reclaimed and finalised, it becomes
\* running once, and is executed once unless a job claimed the row that an inline
\* process had inserted (claim_queued_crawl_run, mark_crawl_run_running and
\* reclaim_stale_crawl_runs).
THEOREM ExecutedOnce == Spec => []RunExecutedOnce
<1>1. CrawlInv => RunExecutedOnce
    BY DEF CrawlInv, CrawlTypeOK, RunsSound, RunSound, RunExecutedOnce, Attended, Rows
<1> QED
    BY <1>1, CrawlInvHolds, PTL

\* No crawl moves the checkpoint past a document that nobody accounts for
\* (save_checkpoint, load_checkpoint and the parsers), for any number of crawls
\* of the page that overlap, fail and die.
THEOREM NoneIsPassedOver == Spec => []NothingPassedOver
<1>1. CrawlInv => NothingPassedOver
    BY DEF CrawlInv, PageInv
<1> QED
    BY <1>1, CrawlInvHolds, PTL

\* A second event, or a finished graph without one, has one of the two causes
\* that the property names (_persist_document_durable,
\* _process_document_downstream, retry_incomplete_document_downstream and
\* reprocess_document).
THEOREM EventsFitDocuments == Spec => []EventsMatchDocuments
<1>1. CrawlInv => EventsMatchDocuments
    BY DEF CrawlInv, EventInv
<1> QED
    BY <1>1, CrawlInvHolds, PTL

\* finalize_crawl_run changes a row that has ended only where a reclaim took
\* it from a live worker, the process had not learned that it was finalised, or
\* two processes execute the run.
THEOREM EndsForGood == Spec => EndedIsFinal
<1>1. CrawlInv /\ [Next]_vars =>
          [\A r \in Run : row[r] \in Ended /\ row'[r] # row[r] => EndsAgain(r)]_vars
    BY EndedStep DEF CrawlInv
<1> QED
    BY <1>1, CrawlInvHolds, PTL DEF Spec, EndedIsFinal

-----------------------------------------------------------------------------
(* Families, versions and the graph of a document.  Of the transactions    *)
(* that have written and not committed, one at most holds a document's     *)
(* row; and what each of them worked out, the family's latest version and  *)
(* the parent of its own, is right once its row is there, or known to be   *)
(* behind (WorkerHolds).                                                   *)

Grade == 0..2

Title == {c.title : c \in Candidates \cup Findings} \cup {Families!Nothing}

RegistryRow ==
    [version : Crawl \X Nat, family : Int, number : Grade, date : Grade, parent : Nat]

Family == [title : Title, latest : Crawl \X Nat]

ReadingsOK ==
    \A c \in Candidates \cup Findings :
        c.title \in Title /\ c.number \in Grade /\ c.date \in Grade

FamiliesOK ==
    /\ newest \in [Crawl -> Nat] /\ deposited \in [Crawl -> Nat]
    /\ families \in Seq(Family)
    /\ assigned \in [Crawl -> 0..Len(families)]
    /\ registry \in Seq(RegistryRow)
    /\ \A i \in DOMAIN registry : registry[i].family \in 1..Len(families)
    /\ \A i, j \in DOMAIN registry : registry[i].version = registry[j].version => i = j
    /\ DOMAIN audit = Crawl
    /\ DOMAIN writer = Indexer

\* What a transaction worked out as the latest version is it once its row is written.
Kin(m) == {j \in Families!Members(registry, m.family) : registry[j].version # m.row.version}

LatestHolds(m) ==
    \/ /\ m.latest = m.row.version
       /\ \A j \in Kin(m) : registry[j].date <= m.row.date
    \/ \E i \in Kin(m) :
          /\ m.latest = registry[i].version
          /\ m.row.date <= registry[i].date
          /\ \A j \in Kin(m) : registry[j].date <= registry[i].date

\* The parent it found is still where it was, or known to have changed, or is the one
\* that the row has.
Above(p, f, n) ==
    /\ p \in DOMAIN registry
    /\ p \notin rewritten => registry[p].family = f /\ registry[p].number < n

ParentHolds(m) ==
    LET p == m.row.parent
    IN  \/ p = 0
        \/ m.kind = "register" /\ Above(p, m.family, m.row.number)
        \/ m.kind = "graph" /\ m.links
        \/ m.kind = "graph" /\ \E i \in DOMAIN registry :
              registry[i].version = m.row.version /\ registry[i].parent = p

RowHolds(m) ==
    /\ m.row \in RegistryRow /\ m.row.family = m.family
    /\ m.row.version = <<m.doc, m.version>>
    /\ m.latest \in Crawl \X Nat
    /\ m.title \in Title
    /\ m.behind \/ LatestHolds(m)
    /\ ParentHolds(m)

WrittenFields ==
    {"phase", "kind", "doc", "version", "family", "title", "row", "latest", "outcome", "marked",
     "stores", "issues", "mirrors", "links", "behind"}

\* A transaction that is about to commit a row.
Moving(m) == m.family \in {Families!New} \cup 0..Len(families) /\ m.family # 0 /\ RowHolds(m)

WorkerHolds(m) ==
    /\ m.phase \in {"idle", "checked", "looked", "written"}
    /\ m.phase # "idle" => /\ m.doc \in Crawl /\ m.version \in Nat
                           /\ m.kind \in {"register", "graph"}
    /\ m.phase = "looked" => /\ m.reading \in Candidates \cup Findings
                             /\ m.family \in 0..Len(families)
    /\ m.phase = "written" =>
            /\ m.family \in {Families!New} \cup 0..Len(families)
            /\ m.family # 0 => RowHolds(m)
            /\ m.kind = "graph" /\ m.outcome = "COMPLETED" => m.stores
            /\ m.kind = "register" => ~m.stores
            /\ DOMAIN m = WrittenFields

\* Of those who have written, one at most holds a document's row.
Holders(d) ==
    {w \in Indexer : writer[w].phase = "written" /\ writer[w].family # 0 /\ writer[w].doc = d}

OneHolder ==
    \A w, o \in Indexer : \A d \in Crawl : w \in Holders(d) /\ o \in Holders(d) => w = o

LineageHolds ==
    \A i \in DOMAIN registry \ rewritten :
        LET p == registry[i].parent IN p = 0 \/ Above(p, registry[i].family, registry[i].number)

FamiliesInv ==
    /\ FamiliesOK
    /\ \A w \in Indexer : WorkerHolds(writer[w])
    /\ OneHolder
    /\ Families!LatestIsNewest /\ LineageHolds /\ Families!GraphIsTruthful
-----------------------------------------------------------------------------
\* Ordered by two grades and then by place, one row comes first.
LEMMA FirstExists ==
    ASSUME NEW n \in Nat, NEW S \in SUBSET (1..n), S # {},
           NEW g \in [S -> Grade], NEW h \in [S -> Grade]
    PROVE  \E i \in S : \A j \in S \ {i} :
              \/ g[j] < g[i]
              \/ g[j] = g[i] /\ h[j] < h[i]
              \/ g[j] = g[i] /\ h[j] = h[i] /\ j < i
<1>1. PICK a \in S : \A j \in S : g[j] <= g[a]
    BY HighestExists DEF Grade
<1> DEFINE G == {j \in S : g[j] = g[a]}
<1>2. G \in SUBSET (1..n) /\ G # {} /\ [j \in G |-> h[j]] \in [G -> 0..2]
    BY DEF Grade
<1>3. PICK b \in G : \A j \in G : [k \in G |-> h[k]][j] <= [k \in G |-> h[k]][b]
  <2> HIDE DEF G
  <2> QED
    BY <1>2, HighestExists
<1> DEFINE H == {j \in G : h[j] = h[b]}
<1>4. H \in SUBSET (1..n) /\ H # {} /\ [j \in H |-> j] \in [H -> 0..n]
    BY <1>2
<1>5. PICK c \in H : \A j \in H : [k \in H |-> k][j] <= [k \in H |-> k][c]
  <2> HIDE DEF H
  <2> QED
    BY <1>4, HighestExists
<1>6. \A j \in H : j <= c
    BY <1>5
<1>7. \A j \in G : h[j] <= h[b]
    BY <1>3
<1>8. ASSUME NEW j \in S \ {c}
      PROVE  \/ g[j] < g[c]
             \/ g[j] = g[c] /\ h[j] < h[c]
             \/ g[j] = g[c] /\ h[j] = h[c] /\ j < c
  <2>1. g[j] \in Int /\ g[c] \in Int /\ h[j] \in Int /\ h[c] \in Int /\ j \in Int /\ c \in Int
    BY DEF Grade
  <2>2. g[c] = g[a] /\ h[c] = h[b] /\ g[j] <= g[a]
    BY <1>1
  <2>3. g[j] = g[c] => j \in G /\ h[j] <= h[c]
    BY <1>7, <2>2
  <2>4. g[j] = g[c] /\ h[j] = h[c] => j \in H /\ j <= c
    BY <1>6, <2>2
  <2> HIDE DEF G, H
  <2> QED
    BY <2>1, <2>2, <2>3, <2>4
<1> QED
    BY <1>8

\* A row has what a row has.
LEMMA RowIs ==
    ASSUME NEW rows \in Seq(RegistryRow)
    PROVE  /\ Len(rows) \in Nat /\ DOMAIN rows = 1..Len(rows)
           /\ \A i \in DOMAIN rows :
                 /\ rows[i] \in RegistryRow
                 /\ rows[i].family \in Int /\ rows[i].number \in Grade /\ rows[i].date \in Grade
                 /\ rows[i].parent \in Nat /\ rows[i].version \in Crawl \X Nat
<1>1. /\ Len(rows) \in Nat /\ DOMAIN rows = 1..Len(rows)
      /\ \A i \in DOMAIN rows : rows[i] \in RegistryRow
    OBVIOUS
<1> QED
    BY <1>1, Zenon DEF RegistryRow

\* A family's rows, and any part of them.
LEMMA MembersAre ==
    ASSUME NEW rows \in Seq(RegistryRow), NEW f
    PROVE  /\ Len(rows) \in Nat /\ Families!Members(rows, f) \in SUBSET (1..Len(rows))
           /\ \A j \in Families!Members(rows, f) :
                 rows[j].number \in Int /\ rows[j].date \in Int /\ j \in Int
           /\ \A S \in SUBSET Families!Members(rows, f) :
                 /\ [i \in S |-> rows[i].date] \in [S -> Grade]
                 /\ [i \in S |-> rows[i].number] \in [S -> Grade]
                 /\ [i \in S |-> 0] \in [S -> Grade]
BY RowIs DEF Families!Members, Grade

LEMMA LatestByNumberIs ==
    ASSUME NEW rows \in Seq(RegistryRow), NEW f, Families!Members(rows, f) # {}
    PROVE  \E i \in Families!Members(rows, f) :
              /\ Families!LatestByNumber(rows, f) = rows[i].version
              /\ \A j \in Families!Members(rows, f) : rows[j].date <= rows[i].date
<1> DEFINE S == Families!Members(rows, f)
           g == [i \in S |-> rows[i].date]
           h == [i \in S |-> rows[i].number]
           Ahead(i, j) == \/ rows[i].date > rows[j].date
                          \/ rows[i].date = rows[j].date /\ rows[i].number > rows[j].number
           Leads(i) == \A j \in S \ {i} : Ahead(i, j) \/ (~Ahead(j, i) /\ i > j)
           c == CHOOSE i \in S : Leads(i)
<1>1. Len(rows) \in Nat /\ S \in SUBSET (1..Len(rows)) /\ g \in [S -> Grade] /\ h \in [S -> Grade]
    BY MembersAre
<1>2. PICK i \in S : \A j \in S \ {i} :
              \/ g[j] < g[i]
              \/ g[j] = g[i] /\ h[j] < h[i]
              \/ g[j] = g[i] /\ h[j] = h[i] /\ j < i
  <2> HIDE DEF S, g, h
  <2> QED
    BY <1>1, FirstExists DEF S
<1>3. \A j \in S : rows[j].date \in Int /\ rows[j].number \in Int /\ j \in Int
    BY <1>1, MembersAre
<1>4. Leads(i)
    BY <1>2, <1>3
<1>5. c \in S /\ Leads(c)
  <2> HIDE DEF Leads, S
  <2> QED
    BY <1>4
<1>6. \A j \in S : rows[j].date <= rows[c].date
  <2> HIDE DEF S, c
  <2> QED
    BY <1>3, <1>5
<1>7. Families!LatestByNumber(rows, f) = rows[c].version
    BY DEF Families!LatestByNumber, Families!First
<1> HIDE DEF c
<1> QED
    BY <1>5, <1>6, <1>7

LEMMA LatestByDateIs ==
    ASSUME NEW rows \in Seq(RegistryRow), NEW f, Families!Members(rows, f) # {}
    PROVE  \E i \in Families!Members(rows, f) :
              /\ Families!LatestByDate(rows, f) = rows[i].version
              /\ \A j \in Families!Members(rows, f) : rows[j].date <= rows[i].date
<1> DEFINE S == Families!Members(rows, f)
           g == [i \in S |-> rows[i].date]
           h == [i \in S |-> 0]
           Ahead(i, j) == rows[i].date > rows[j].date
           Leads(i) == \A j \in S \ {i} : Ahead(i, j) \/ (~Ahead(j, i) /\ i > j)
           c == CHOOSE i \in S : Leads(i)
<1>1. Len(rows) \in Nat /\ S \in SUBSET (1..Len(rows)) /\ g \in [S -> Grade] /\ h \in [S -> Grade]
    BY MembersAre
<1>2. PICK i \in S : \A j \in S \ {i} :
              \/ g[j] < g[i]
              \/ g[j] = g[i] /\ h[j] < h[i]
              \/ g[j] = g[i] /\ h[j] = h[i] /\ j < i
  <2> HIDE DEF S, g, h
  <2> QED
    BY <1>1, FirstExists DEF S
<1>3. \A j \in S : rows[j].date \in Int /\ j \in Int
    BY <1>1, MembersAre
<1>4. Leads(i)
    BY <1>2, <1>3
<1>5. c \in S /\ Leads(c)
  <2> HIDE DEF Leads, S
  <2> QED
    BY <1>4
<1>6. \A j \in S : rows[j].date <= rows[c].date
  <2> HIDE DEF S, c
  <2> QED
    BY <1>3, <1>5
<1>7. Families!LatestByDate(rows, f) = rows[c].version
    BY DEF Families!LatestByDate, Families!First
<1> HIDE DEF c
<1> QED
    BY <1>5, <1>6, <1>7

\* The parent of a registration is a lower row of the family.
LEMMA ParentIs ==
    ASSUME registry \in Seq(RegistryRow), NEW f, NEW n \in Grade
    PROVE  \/ Families!Parent(f, n) = 0
           \/ /\ Families!Parent(f, n) \in DOMAIN registry
              /\ registry[Families!Parent(f, n)].family = f
              /\ registry[Families!Parent(f, n)].number < n
<1> SUFFICES ASSUME Families!Parent(f, n) # 0
             PROVE  /\ Families!Parent(f, n) \in DOMAIN registry
                    /\ registry[Families!Parent(f, n)].family = f
                    /\ registry[Families!Parent(f, n)].number < n
    OBVIOUS
<1> DEFINE S == {i \in Families!Members(registry, f) : registry[i].number \in 1..(n - 1)}
           g == [i \in S |-> registry[i].number]
           h == [i \in S |-> 0]
           Ahead(i, j) == registry[i].number > registry[j].number
           Leads(i) == \A j \in S \ {i} : Ahead(i, j) \/ (~Ahead(j, i) /\ i > j)
           c == CHOOSE i \in S : Leads(i)
<1>1. /\ Len(registry) \in Nat /\ S \in SUBSET (1..Len(registry))
      /\ g \in [S -> Grade] /\ h \in [S -> Grade]
    BY MembersAre
<1>2. Families!Parent(f, n) = c /\ S # {}
    BY DEF Families!Parent, Families!First
<1>3. PICK i \in S : \A j \in S \ {i} :
              \/ g[j] < g[i]
              \/ g[j] = g[i] /\ h[j] < h[i]
              \/ g[j] = g[i] /\ h[j] = h[i] /\ j < i
  <2>1. S # {}
    BY <1>2
  <2> HIDE DEF S, g, h
  <2> QED
    BY <1>1, <2>1, FirstExists
<1>4. \A j \in S : registry[j].number \in Int /\ j \in Int
  <2>1. \A j \in Families!Members(registry, f) : registry[j].number \in Int /\ j \in Int
    BY MembersAre
  <2> QED
    BY <2>1
<1>5. Leads(i)
  <2> HIDE DEF S
  <2> QED
    BY <1>3, <1>4
<1>6. c \in S
  <2> HIDE DEF Leads, S
  <2> QED
    BY <1>5
<1> HIDE DEF c
<1> QED
    BY <1>2, <1>6 DEF Families!Members, Grade

\* The version that the graph links to is a row.
LEMMA PriorIs ==
    ASSUME NEW rows \in Seq(RegistryRow), NEW f, NEW own
    PROVE  Families!Prior(rows, f, own) \in Nat
<1> SUFFICES ASSUME Families!Prior(rows, f, own) # 0 PROVE Families!Prior(rows, f, own) \in Nat
    OBVIOUS
<1> DEFINE S == Families!Members(rows, f) \ {own}
           g == [i \in S |-> rows[i].number]
           h == [i \in S |-> rows[i].date]
           Ahead(i, j) == \/ rows[i].number > rows[j].number
                          \/ rows[i].number = rows[j].number /\ rows[i].date > rows[j].date
           Leads(i) == \A j \in S \ {i} : Ahead(i, j) \/ (~Ahead(j, i) /\ i > j)
           c == CHOOSE i \in S : Leads(i)
<1>1. Len(rows) \in Nat /\ S \in SUBSET (1..Len(rows)) /\ g \in [S -> Grade] /\ h \in [S -> Grade]
    BY MembersAre
<1>2. Families!Prior(rows, f, own) = c /\ S # {}
    BY DEF Families!Prior, Families!First
<1>3. PICK i \in S : \A j \in S \ {i} :
              \/ g[j] < g[i]
              \/ g[j] = g[i] /\ h[j] < h[i]
              \/ g[j] = g[i] /\ h[j] = h[i] /\ j < i
  <2>1. S # {}
    BY <1>2
  <2> HIDE DEF S, g, h
  <2> QED
    BY <1>1, <2>1, FirstExists
<1>4. \A j \in S : rows[j].number \in Int /\ rows[j].date \in Int /\ j \in Int
    BY <1>1, MembersAre
<1>5. Leads(i)
    BY <1>3, <1>4
<1>6. c \in S
  <2> HIDE DEF Leads, S
  <2> QED
    BY <1>5
<1> HIDE DEF c
<1> QED
    BY <1>1, <1>2, <1>6
-----------------------------------------------------------------------------
LEMMA RowOfIs ==
    ASSUME FamiliesOK, NEW v
    PROVE  /\ Families!RowOf(v) \in Nat
           /\ Families!RowOf(v) # 0 => Families!RowOf(v) \in DOMAIN registry
                /\ registry[Families!RowOf(v)].version = v
           /\ \A i \in DOMAIN registry : registry[i].version = v => i = Families!RowOf(v)
<1> DEFINE rows == {i \in DOMAIN registry : registry[i].version = v}
           c == CHOOSE i \in rows : TRUE
<1>1. DOMAIN registry \subseteq Nat /\ 0 \notin DOMAIN registry
    BY RowIs DEF FamiliesOK
<1>2. Families!RowOf(v) = IF rows = {} THEN 0 ELSE c
    BY DEF Families!RowOf
<1>3. rows # {} => c \in rows
    OBVIOUS
<1>4. \A i, j \in rows : i = j
    BY DEF FamiliesOK
<1> HIDE DEF c
<1> QED
    BY <1>1, <1>2, <1>3, <1>4

\* Where a version's row is, or will be.
Place(v) == IF Families!RowOf(v) = 0 THEN Len(registry) + 1 ELSE Families!RowOf(v)

LEMMA SeenIs ==
    ASSUME FamiliesOK, NEW entry \in RegistryRow
    PROVE  LET k == Place(entry.version)
           IN  /\ Families!Seen(entry) \in Seq(RegistryRow)
               /\ k \in Nat /\ k # 0
               /\ DOMAIN Families!Seen(entry) = DOMAIN registry \cup {k}
               /\ Families!Seen(entry)[k] = entry
               /\ \A j \in DOMAIN registry \ {k} :
                     Families!Seen(entry)[j] = registry[j] /\ registry[j].version # entry.version
               /\ Families!RowOf(entry.version) # 0 =>
                     k = Families!RowOf(entry.version) /\ k \in DOMAIN registry
                     /\ registry[k].version = entry.version
               /\ Families!RowOf(entry.version) = 0 => k = Len(registry) + 1
                    /\ k \notin DOMAIN registry
<1> DEFINE r == Families!RowOf(entry.version)
<1>1. /\ r \in Nat
      /\ r # 0 => r \in DOMAIN registry /\ registry[r].version = entry.version
      /\ \A i \in DOMAIN registry : registry[i].version = entry.version => i = r
    BY RowOfIs
<1>2. registry \in Seq(RegistryRow) /\ Len(registry) \in Nat /\ DOMAIN registry = 1..Len(registry)
    BY RowIs DEF FamiliesOK
<1> HIDE DEF r
<1>3. CASE r = 0
  <2>1. Families!Seen(entry) = Append(registry, entry) /\ Place(entry.version) = Len(registry) + 1
    BY <1>3 DEF Families!Seen, Place, r
  <2>2. \A j \in DOMAIN registry : registry[j].version # entry.version
    BY <1>1, <1>2, <1>3
  <2> QED
    BY <1>2, <1>3, <2>1, <2>2 DEF r
<1>4. CASE r # 0
  <2>1. Families!Seen(entry) = [registry EXCEPT ![r] = entry] /\ Place(entry.version) = r
    BY <1>4 DEF Families!Seen, Place, r
  <2>2. [registry EXCEPT ![r] = entry] \in Seq(RegistryRow)
    BY <1>1, <1>2, <1>4
  <2> QED
    BY <1>1, <1>2, <1>4, <2>1, <2>2 DEF r
<1> QED
    BY <1>3, <1>4

\* What is worked out from the rows that a transaction sees is right once its row
\* is there.
LEMMA LatestFits ==
    ASSUME FamiliesOK, NEW m, m.row \in RegistryRow, m.row.family = m.family,
           \/ m.latest = Families!LatestByNumber(Families!Seen(m.row), m.family)
           \/ m.latest = Families!LatestByDate(Families!Seen(m.row), m.family)
    PROVE  m.latest \in Crawl \X Nat /\ LatestHolds(m)
<1> DEFINE rows == Families!Seen(m.row)
           S == Families!Members(rows, m.family)
           k == Place(m.row.version)
<1>1. /\ rows \in Seq(RegistryRow)
      /\ DOMAIN rows = DOMAIN registry \cup {k}
      /\ rows[k] = m.row
      /\ \A j \in DOMAIN registry \ {k} :
            rows[j] = registry[j] /\ registry[j].version # m.row.version
      /\ k \in DOMAIN registry => registry[k].version = m.row.version
    BY SeenIs
<1>2. k \in S
    BY <1>1 DEF Families!Members
<1>3. PICK i \in S : m.latest = rows[i].version /\ \A j \in S : rows[j].date <= rows[i].date
  <2>1. \/ m.latest = Families!LatestByNumber(rows, m.family)
        \/ m.latest = Families!LatestByDate(rows, m.family)
    OBVIOUS
  <2> HIDE DEF rows, k
  <2> QED
    BY <1>1, <1>2, <2>1, LatestByNumberIs, LatestByDateIs
<1> HIDE DEF rows, k
<1>4. S = Kin(m) \cup {k}
    BY <1>1, <1>2 DEF Kin, Families!Members
<1>5. \A j \in Kin(m) : rows[j] = registry[j]
    BY <1>1 DEF Kin, Families!Members
<1>6. m.latest \in Crawl \X Nat
    BY <1>1, <1>3, RowIs DEF Families!Members
<1>7. CASE i = k
    BY <1>1, <1>3, <1>4, <1>5, <1>6, <1>7 DEF LatestHolds
<1>8. CASE i # k
  <2>1. i \in Kin(m) /\ m.row.date <= registry[i].date /\ m.latest = registry[i].version
    BY <1>1, <1>2, <1>3, <1>4, <1>5, <1>8
  <2> QED
    BY <1>3, <1>4, <1>5, <1>6, <2>1 DEF LatestHolds
<1> QED
    BY <1>7, <1>8

\* The number of families and what is found among them.
LEMMA FoundIs ==
    ASSUME FamiliesOK, NEW t
    PROVE  Len(families) \in Nat /\ Families!Found(t) \in 0..Len(families)
<1>1. Len(families) \in Nat /\ DOMAIN families = 1..Len(families)
    BY DEF FamiliesOK
<1>2. Families!Titled(t) # {} => (CHOOSE f \in Families!Titled(t) : TRUE) \in Families!Titled(t)
    OBVIOUS
<1> QED
    BY <1>1, <1>2 DEF Families!Found, Families!Titled

\* While the tables stand still, what holds of a worker's record goes on to hold.
LEMMA SameHolds ==
    ASSUME NEW CONSTANT m, WorkerHolds(m), UNCHANGED <<families, registry, rewritten>>
    PROVE  WorkerHolds(m)'
BY DEF WorkerHolds, RowHolds, LatestHolds, ParentHolds, Above, Kin, Families!Members

LEMMA LocalStep ==
    ASSUME FamiliesInv, NEW w \in Indexer, NEW v, writer' = [writer EXCEPT ![w] = v],
           UNCHANGED <<Families!tables, Families!history>>, WorkerHolds(v),
           v.phase = "written" /\ v.family # 0 =>
               \A o \in Indexer : ~(writer[o].phase = "written" /\ writer[o].family # 0
                                   /\ writer[o].doc = v.doc)
    PROVE  FamiliesInv'
<1>1. FamiliesOK'
    BY DEF FamiliesInv, FamiliesOK, Families!tables
<1>2. Families!LatestIsNewest' /\ LineageHolds' /\ Families!GraphIsTruthful'
    BY DEF FamiliesInv, Families!LatestIsNewest, LineageHolds, Families!GraphIsTruthful,
           Families!Members, Above, Families!tables, Families!history
<1>3. writer'[w] = v /\ \A o \in Indexer \ {w} : writer'[o] = writer[o]
    BY DEF FamiliesInv, FamiliesOK
<1>4. ASSUME NEW o \in Indexer PROVE WorkerHolds(writer[o])'
  <2>1. PICK m : m = writer'[o]
    OBVIOUS
  <2>2. WorkerHolds(m)
    BY <1>3, <2>1 DEF FamiliesInv
  <2>3. WorkerHolds(m)'
    BY <2>2, SameHolds DEF Families!tables, Families!history
  <2> QED
    BY <2>1, <2>3 DEF WorkerHolds, RowHolds, LatestHolds, ParentHolds, Above, Kin,
                      Families!Members
<1>5. OneHolder'
  <2> SUFFICES ASSUME NEW a \in Indexer, NEW b \in Indexer, NEW d \in Crawl,
                      (a \in Holders(d))', (b \in Holders(d))', a # b
               PROVE  FALSE
    BY DEF OneHolder
  <2>1. a # w /\ b # w => a \in Holders(d) /\ b \in Holders(d)
    BY <1>3 DEF Holders
  <2> QED
    BY <1>3, <2>1 DEF FamiliesInv, OneHolder, Holders
<1> QED
    BY <1>1, <1>2, <1>4, <1>5 DEF FamiliesInv
-----------------------------------------------------------------------------
LEMMA BeginRegistrationStep ==
    ASSUME FamiliesInv, NEW w \in Indexer, NEW d \in Crawl, NEW new \in BOOLEAN,
           NEW c \in Candidates, Families!BeginRegistration(w, d, new, c)
    PROVE  FamiliesInv'
<1> DEFINE v == [phase |-> "looked", kind |-> "register", doc |-> d,
                 version |-> newest[d] + (IF new THEN 1 ELSE 0),
                 reading |-> c, family |-> Families!Found(c.title)]
<1>1. /\ writer' = [writer EXCEPT ![w] = v] /\ UNCHANGED <<Families!tables, Families!history>>
    BY DEF Families!BeginRegistration, Families!Start
<1>2. FamiliesOK /\ newest[d] + (IF new THEN 1 ELSE 0) \in Nat
    BY DEF FamiliesInv, FamiliesOK
<1>3. WorkerHolds(v) /\ v.phase = "looked"
    BY <1>2, FoundIs DEF WorkerHolds
<1> HIDE DEF v
<1> QED
    BY <1>1, <1>3, LocalStep

LEMMA BeginExtractionStep ==
    ASSUME FamiliesInv, NEW w \in Indexer, NEW d \in Crawl, Families!BeginExtraction(w, d)
    PROVE  FamiliesInv'
<1> DEFINE v == [phase |-> "checked", kind |-> "graph", doc |-> d, version |-> newest[d]]
<1>1. /\ writer' = [writer EXCEPT ![w] = v] /\ UNCHANGED <<Families!tables, Families!history>>
    BY DEF Families!BeginExtraction, Families!Start
<1>2. newest[d] \in Nat
    BY DEF FamiliesInv, FamiliesOK
<1>3. WorkerHolds(v) /\ v.phase = "checked"
    BY <1>2 DEF WorkerHolds
<1> HIDE DEF v
<1> QED
    BY <1>1, <1>3, LocalStep

LEMMA ExtractStep ==
    ASSUME FamiliesInv, NEW w \in Indexer, NEW x \in Findings, NEW marked \in BOOLEAN,
           Families!Extract(w, x, marked)
    PROVE  FamiliesInv'
<1> DEFINE me == writer[w]
           v == [phase |-> "looked", kind |-> "graph", doc |-> me.doc, version |-> me.version,
                 reading |-> x, marked |-> marked,
                 had |-> entities \cap {me.doc, Families!Issuer},
                 before |-> assigned[me.doc],
                 family |-> IF assigned[me.doc] = 0 THEN Families!Found(x.title)
                            ELSE assigned[me.doc]]
<1>1. /\ writer' = [writer EXCEPT ![w] = v] /\ UNCHANGED <<Families!tables, Families!history>>
    BY DEF Families!Extract
<1>2. FamiliesOK /\ WorkerHolds(me) /\ me.phase = "checked"
    BY DEF FamiliesInv, Families!Extract
<1>3. me.doc \in Crawl /\ me.version \in Nat /\ assigned[me.doc] \in 0..Len(families)
    BY <1>2 DEF WorkerHolds, FamiliesOK
<1>4. WorkerHolds(v) /\ v.phase = "looked"
    BY <1>2, <1>3, FoundIs DEF WorkerHolds
<1> HIDE DEF v
<1> QED
    BY <1>1, <1>4, LocalStep

LEMMA LoseStep ==
    ASSUME FamiliesInv, NEW w \in Indexer, Families!Lose(w)
    PROVE  FamiliesInv'
<1>1. writer' = [writer EXCEPT ![w] = Families!Resting]
      /\ UNCHANGED <<Families!tables, Families!history>>
    BY DEF Families!Lose
<1>2. WorkerHolds(Families!Resting) /\ Families!Resting.phase = "idle"
    BY DEF Families!Resting, WorkerHolds
<1> QED
    BY <1>1, <1>2, LocalStep

\* Nobody who has written holds the row of one who need not wait.
LEMMA NotWaiting ==
    ASSUME NEW me, ~Families!Waits(me)
    PROVE  \A o \in Indexer : ~(writer[o].phase = "written" /\ writer[o].family # 0
                               /\ writer[o].doc = me.doc)
BY DEF Families!Waits, Families!Writers

LEMMA WriteRegistrationStep ==
    ASSUME FamiliesInv, ReadingsOK, NEW w \in Indexer, Families!WriteRegistration(w)
    PROVE  FamiliesInv'
<1> DEFINE me == writer[w]
           c == me.reading
           f == CASE c = Families!Unknown -> 0
                  [] c # Families!Unknown /\ me.family = 0 -> Families!New
                  [] OTHER -> me.family
           entry == [version |-> <<me.doc, me.version>>, family |-> f, number |-> c.number,
                   date |-> c.date, parent |-> Families!Parent(f, c.number)]
           t == IF f = Families!New THEN c.title ELSE Families!Nothing
           lt == IF f = 0 THEN <<>> ELSE Families!LatestByNumber(Families!Seen(entry), f)
           v == Families!Written(me, f, t, entry, lt, "REGISTERED")
<1>1. /\ writer' = [writer EXCEPT ![w] = v] /\ UNCHANGED <<Families!tables, Families!history>>
      /\ me.phase = "looked" /\ me.kind = "register" /\ ~Families!Waits(me)
    BY DEF Families!WriteRegistration
<1>2. FamiliesOK /\ WorkerHolds(me)
    BY DEF FamiliesInv
<1>3. /\ me.doc \in Crawl /\ me.version \in Nat /\ me.family \in 0..Len(families)
      /\ c \in Candidates \cup Findings
    BY <1>1, <1>2 DEF WorkerHolds
<1>4. c.number \in Grade /\ c.date \in Grade /\ c.title \in Title /\ Families!Nothing \in Title
    BY <1>3 DEF ReadingsOK, Title
<1>5. f \in {Families!New} \cup 0..Len(families) /\ f \in Int
    BY <1>3, <1>2, FoundIs DEF Families!New
<1> HIDE DEF f
<1>6. \/ Families!Parent(f, c.number) = 0
      \/ /\ Families!Parent(f, c.number) \in DOMAIN registry
         /\ registry[Families!Parent(f, c.number)].family = f
         /\ registry[Families!Parent(f, c.number)].number < c.number
    BY <1>2, <1>4, ParentIs DEF FamiliesOK
<1>7. Families!Parent(f, c.number) \in Nat
    BY <1>2, <1>6, RowIs DEF FamiliesOK
<1>8. entry \in RegistryRow
    BY <1>3, <1>4, <1>5, <1>7 DEF RegistryRow
<1>9. /\ v.phase = "written" /\ v.kind = me.kind /\ v.doc = me.doc /\ v.version = me.version
      /\ v.family = f /\ v.row = entry /\ v.latest = lt /\ v.title = t /\ ~v.stores
      /\ DOMAIN v = WrittenFields
    BY Zenon DEF Families!Written, WrittenFields
<1>10. /\ entry.family = f /\ entry.version = <<me.doc, me.version>>
       /\ entry.parent = Families!Parent(f, c.number) /\ entry.number = c.number
    OBVIOUS
<1> HIDE DEF entry
<1>11. t \in Title
    BY <1>4
<1> HIDE DEF t
<1>12. f # 0 => RowHolds(v)
  <2> SUFFICES ASSUME f # 0 PROVE RowHolds(v)
    OBVIOUS
  <2>1. v.latest = Families!LatestByNumber(Families!Seen(v.row), v.family)
    BY <1>9
  <2> HIDE DEF v
  <2>2. v.latest \in Crawl \X Nat /\ LatestHolds(v)
    BY <1>2, <1>8, <1>9, <1>10, <2>1, LatestFits
  <2>3. ParentHolds(v)
    BY <1>1, <1>6, <1>9, <1>10 DEF ParentHolds, Above
  <2> QED
    BY <1>8, <1>9, <1>10, <1>11, <2>2, <2>3 DEF RowHolds
<1> HIDE DEF v
<1>13. WorkerHolds(v)
    BY <1>1, <1>3, <1>5, <1>9, <1>12 DEF WorkerHolds
<1>14. \A o \in Indexer : ~(writer[o].phase = "written" /\ writer[o].family # 0
                               /\ writer[o].doc = v.doc)
    BY <1>1, <1>9, NotWaiting
<1> QED
    BY <1>1, <1>13, <1>14, LocalStep
\* The row that an extraction writes, and where its parent is from.
LEMMA GraphRowIs ==
    ASSUME FamiliesOK, ReadingsOK, NEW x \in Candidates \cup Findings,
           NEW v \in Crawl \X Nat, NEW f \in Int
    PROVE  LET r == Families!GraphRow(v, f, x)
           IN  /\ r \in RegistryRow /\ r.family = f /\ r.version = v
               /\ \/ r.parent = 0
                  \/ x.relates
                  \/ \E i \in DOMAIN registry :
                        registry[i].version = v /\ registry[i].parent = r.parent
<1> DEFINE i == Families!RowOf(v)
           entry == IF i = 0
                  THEN [version |-> v, family |-> f, number |-> x.number, date |-> x.date,
                        parent |-> 0]
                  ELSE [registry[i] EXCEPT !.family = f, !.number = x.number,
                                           !.date = IF x.date = 0 THEN @ ELSE x.date]
           p == Families!Prior(Families!Seen(entry), f, IF i = 0 THEN Len(registry) + 1 ELSE i)
<1>1. x.number \in Grade /\ x.date \in Grade
    BY DEF ReadingsOK
<1>2. i # 0 => i \in DOMAIN registry /\ registry[i].version = v /\ registry[i] \in RegistryRow
    BY RowOfIs, RowIs DEF FamiliesOK
<1>3. /\ entry \in RegistryRow /\ entry.family = f /\ entry.version = v
      /\ entry.parent = IF i = 0 THEN 0 ELSE registry[i].parent
  <2>1. CASE i = 0
    BY <1>1, <2>1 DEF RegistryRow
  <2>2. CASE i # 0
    BY <1>1, <1>2, <2>2 DEF RegistryRow
  <2> QED
    BY <2>1, <2>2
<1>4. Families!Seen(entry) \in Seq(RegistryRow)
    BY <1>3, SeenIs
<1>5. p \in Nat
  <2> HIDE DEF entry, i
  <2> QED
    BY <1>4, PriorIs
<1>6. Families!GraphRow(v, f, x) =
          IF x.relates /\ entry.parent = 0 THEN [entry EXCEPT !.parent = p] ELSE entry
    BY Zenon DEF Families!GraphRow
<1> HIDE DEF entry, p
<1>7. [entry EXCEPT !.parent = p] \in RegistryRow
      /\ [entry EXCEPT !.parent = p].family = f /\ [entry EXCEPT !.parent = p].version = v
    BY <1>3, <1>5 DEF RegistryRow
<1>8. CASE x.relates /\ entry.parent = 0
    BY <1>6, <1>7, <1>8
<1>9. CASE ~(x.relates /\ entry.parent = 0)
  <2>1. Families!GraphRow(v, f, x) = entry
    BY <1>6, <1>9
  <2> QED
    BY <1>2, <1>3, <2>1
<1> QED
    BY <1>8, <1>9

LEMMA WriteExtractionStep ==
    ASSUME FamiliesInv, ReadingsOK, NEW w \in Indexer,
           NEW o \in {"SKIPPED", "COMPLETED", "FAILED"}, NEW ends \in BOOLEAN,
           Families!WriteExtraction(w, o, ends)
    PROVE  FamiliesInv'
<1> DEFINE me == writer[w]
           x == me.reading
           u == <<me.doc, me.version>>
           names == x \notin {Families!Unknown, Families!Short}
           f == CASE ~names -> 0 [] names /\ me.family = 0 -> Families!New [] OTHER -> me.family
           better == names /\ Families!Better(me)
           t == IF f = Families!New \/ better THEN x.title ELSE Families!Nothing
           entry == Families!GraphRow(u, f, x)
           lt == IF names THEN Families!LatestByDate(Families!Seen(entry), f) ELSE <<>>
           mark == IF ends THEN o ELSE IF me.marked THEN "PROCESSING" ELSE "UNMARKED"
           full == [Families!Written(me, f, t, entry, lt, mark)
                      EXCEPT !.marked = me.marked \/ ends, !.stores = TRUE,
                             !.issues = Families!Issuer \notin me.had,
                             !.links = entry.parent # 0 /\ x.relates]
           bare == Families!Written(me, 0, Families!Nothing, [entry EXCEPT !.family = 0], <<>>,
                                    mark)
           empty == [bare EXCEPT !.marked = me.marked \/ ends]
           Full(b) == [full EXCEPT !.mirrors = b]
<1>1. /\ UNCHANGED <<Families!tables, Families!history>>
      /\ me.phase = "looked" /\ me.kind = "graph" /\ ~Families!Waits(me)
      /\ \/ o # "COMPLETED" /\ writer' = [writer EXCEPT ![w] = empty]
         \/ \E b \in BOOLEAN : writer' = [writer EXCEPT ![w] = Full(b)]
  <2>1. /\ UNCHANGED <<Families!tables, Families!history>>
        /\ me.phase = "looked" /\ me.kind = "graph" /\ ~Families!Waits(me)
    BY ZenonT(90) DEF Families!WriteExtraction
  <2>2. o = "COMPLETED" => \E b \in BOOLEAN : writer' = [writer EXCEPT ![w] = Full(b)]
    BY ZenonT(90) DEF Families!WriteExtraction
  <2>3. o # "COMPLETED" => writer' = [writer EXCEPT ![w] = empty]
    BY ZenonT(90) DEF Families!WriteExtraction
  <2> HIDE DEF empty, Full, me
  <2> QED
    BY <2>1, <2>2, <2>3, Zenon
<1>2. FamiliesOK /\ WorkerHolds(me)
    BY DEF FamiliesInv
<1>3. /\ me.doc \in Crawl /\ me.version \in Nat /\ me.family \in 0..Len(families)
      /\ x \in Candidates \cup Findings
    BY <1>1, <1>2 DEF WorkerHolds
<1>4. x.number \in Grade /\ x.date \in Grade /\ x.title \in Title /\ Families!Nothing \in Title
    BY <1>3 DEF ReadingsOK, Title
<1>5. f \in {Families!New} \cup 0..Len(families) /\ f \in Int /\ (f # 0 => names)
    BY <1>3, <1>2, FoundIs DEF Families!New
<1>6. CASE o # "COMPLETED" /\ writer' = [writer EXCEPT ![w] = empty]
  <2>0. /\ bare.phase = "written" /\ bare.kind = me.kind /\ bare.doc = me.doc
        /\ bare.version = me.version /\ bare.family = 0 /\ bare.outcome = mark
        /\ DOMAIN bare = WrittenFields
    BY DEF Families!Written, WrittenFields
  <2>9. mark # "COMPLETED"
    BY <1>6
  <2> HIDE DEF bare, mark
  <2>1. /\ empty.phase = "written" /\ empty.kind = me.kind /\ empty.doc = me.doc
        /\ empty.version = me.version /\ empty.family = 0 /\ empty.outcome = mark
        /\ DOMAIN empty = WrittenFields
    BY <2>0 DEF WrittenFields
  <2> HIDE DEF empty
  <2>2. 0 \in 0..Len(families)
    BY <1>2, FoundIs
  <2>3. WorkerHolds(empty)
    BY <1>1, <1>3, <2>1, <2>2, <2>9 DEF WorkerHolds
  <2> QED
    BY <1>1, <1>6, <2>1, <2>3, LocalStep
<1>7. ASSUME NEW b \in BOOLEAN, writer' = [writer EXCEPT ![w] = Full(b)] PROVE FamiliesInv'
  <2> DEFINE v == Full(b)
  <2>1. /\ v.phase = "written" /\ v.kind = me.kind /\ v.doc = me.doc /\ v.version = me.version
        /\ v.family = f /\ v.row = entry /\ v.latest = lt /\ v.title = t /\ v.stores
        /\ DOMAIN v = WrittenFields
        /\ v.links <=> entry.parent # 0 /\ x.relates
    <3> DEFINE l == (entry.parent # 0 /\ x.relates)
               n == Families!Written(me, f, t, entry, lt, mark)
               s == (me.marked \/ ends)
               a == (Families!Issuer \notin me.had)
    <3> HIDE DEF f, t, entry, lt, l, mark
    <3>1. /\ n.phase = "written" /\ n.kind = me.kind /\ n.doc = me.doc /\ n.version = me.version
          /\ n.family = f /\ n.row = entry /\ n.latest = lt /\ n.title = t
          /\ DOMAIN n = WrittenFields
      BY DEF Families!Written, WrittenFields
    <3>2. full = [n EXCEPT !.marked = s, !.stores = TRUE, !.issues = a, !.links = l]
      BY Zenon DEF l
    <3> HIDE DEF n, s, a
    <3>3. /\ v.phase = n.phase /\ v.kind = n.kind /\ v.doc = n.doc /\ v.version = n.version
          /\ v.family = n.family /\ v.row = n.row /\ v.latest = n.latest /\ v.title = n.title
          /\ v.stores /\ DOMAIN v = DOMAIN n
      BY <3>1, <3>2 DEF WrittenFields
    <3>4. v.links <=> l
      BY <3>1, <3>2 DEF WrittenFields
    <3> QED
      BY <3>1, <3>3, <3>4 DEF l
  <2> HIDE DEF v, Full, full
  <2>2. t \in Title
    BY <1>4
  <2>3. f # 0 => lt = Families!LatestByDate(Families!Seen(entry), f)
    BY <1>5
  <2> HIDE DEF f, t, lt
  <2>4. u \in Crawl \X Nat
    BY <1>3
  <2>5. /\ entry \in RegistryRow /\ entry.family = f /\ entry.version = u
        /\ \/ entry.parent = 0
           \/ x.relates
           \/ \E i \in DOMAIN registry :
                 registry[i].version = u /\ registry[i].parent = entry.parent
    BY <1>2, <1>3, <1>5, <2>4, GraphRowIs
  <2> HIDE DEF entry
  <2>6. f # 0 => RowHolds(v)
    <3> SUFFICES ASSUME f # 0 PROVE RowHolds(v)
      OBVIOUS
    <3>1. v.latest \in Crawl \X Nat /\ LatestHolds(v)
      BY <1>2, <2>1, <2>3, <2>5, LatestFits
    <3>2. ParentHolds(v)
      BY <1>1, <2>1, <2>5 DEF ParentHolds
    <3> QED
      BY <2>1, <2>2, <2>5, <3>1, <3>2 DEF RowHolds
  <2>7. WorkerHolds(v)
    BY <1>1, <1>3, <1>5, <2>1, <2>6 DEF WorkerHolds
  <2>8. \A a \in Indexer : ~(writer[a].phase = "written" /\ writer[a].family # 0
                                 /\ writer[a].doc = v.doc)
    BY <1>1, <2>1, NotWaiting
  <2> QED
    BY <1>1, <1>7, <2>7, <2>8, LocalStep DEF v
<1> HIDE DEF empty, Full, me
<1> QED
    BY <1>1, <1>6, <1>7, Zenon
-----------------------------------------------------------------------------
\* The family that a commit leaves its row in, and the row.
Home(me) == IF me.family = Families!New THEN Len(families) + 1 ELSE me.family

HomeRow(me) == [me.row EXCEPT !.family = Home(me)]

LEMMA HomeIs ==
    ASSUME FamiliesOK, NEW me, Moving(me),
           Families!CommitFamily(me)
    PROVE  /\ Home(me) \in Nat /\ Home(me) # 0 /\ Home(me) # Families!New
           /\ me.family = Families!New => Home(me) = Len(families) + 1
           /\ me.family # Families!New => Home(me) = me.family /\ Home(me) \in DOMAIN families
           /\ families' \in Seq(Family)
           /\ DOMAIN families' = DOMAIN families \cup {Home(me)}
           /\ families'[Home(me)].latest = me.latest
           /\ \A g \in DOMAIN families \ {Home(me)} : families'[g] = families[g]
           /\ Len(families) \in Nat /\ Len(families') \in Nat /\ Len(families) <= Len(families')
           /\ Home(me) \in 1..Len(families')
<1> USE DEF Moving
<1>1. /\ Len(families) \in Nat /\ DOMAIN families = 1..Len(families) /\ families \in Seq(Family)
      /\ \A g \in DOMAIN families : families[g] \in Family
    BY DEF FamiliesOK
<1>2. me.latest \in Crawl \X Nat /\ me.title \in Title
    BY DEF RowHolds
<1>3. CASE me.family = Families!New
  <2> DEFINE e == [title |-> me.title, latest |-> me.latest]
  <2>1. e \in Family /\ e.latest = me.latest
    BY <1>2 DEF Family
  <2>2. families' = Append(families, e)
    BY <1>3 DEF Families!CommitFamily
  <2>3. Home(me) = Len(families) + 1
    BY <1>3 DEF Home
  <2> HIDE DEF e
  <2> QED
    BY <1>1, <1>3, <2>1, <2>2, <2>3 DEF Families!New
<1>4. CASE me.family # Families!New
  <2> DEFINE f == me.family
             e == [title |-> IF me.title = Families!Nothing THEN families[f].title ELSE me.title,
                   latest |-> me.latest]
  <2>1. f \in DOMAIN families /\ Home(me) = f /\ f # 0 /\ f \in Nat
    BY <1>1, <1>4 DEF Home
  <2>2. families[f] = [title |-> families[f].title, latest |-> families[f].latest]
        /\ families[f].title \in Title
    BY <1>1, <2>1 DEF Family
  <2>4. families' = [families EXCEPT ![f] = e]
    BY <1>4 DEF Families!CommitFamily
  <2>5. e \in Family /\ e.latest = me.latest
    BY <1>2, <2>2 DEF Family
  <2> HIDE DEF e
  <2>6. families' \in Seq(Family) /\ Len(families') = Len(families)
    BY <1>1, <2>1, <2>4, <2>5
  <2> QED
    BY <1>1, <1>4, <2>1, <2>4, <2>5, <2>6 DEF Families!New
<1> QED
    BY <1>3, <1>4

LEMMA RowsAre ==
    ASSUME FamiliesOK, NEW me, Moving(me),
           Families!CommitFamily(me)
    PROVE  LET k == Place(me.row.version)
           IN  /\ registry' \in Seq(RegistryRow)
               /\ k \in Nat /\ k # 0
               /\ DOMAIN registry' = DOMAIN registry \cup {k}
               /\ registry'[k].family = Home(me) /\ registry'[k].number = me.row.number
               /\ registry'[k].date = me.row.date /\ registry'[k].parent = me.row.parent
               /\ registry'[k].version = me.row.version
               /\ \A j \in DOMAIN registry \ {k} :
                     registry'[j] = registry[j] /\ registry[j].version # me.row.version
               /\ k \in DOMAIN registry =>
                     k = Families!RowOf(me.row.version) /\ registry[k].version = me.row.version
               /\ k \notin DOMAIN registry => Families!RowOf(me.row.version) = 0
                    /\ k = Len(registry) + 1
<1> USE DEF Moving
<1> DEFINE entry == HomeRow(me)
<1>1. Home(me) \in Int
  <2>1. Home(me) \in Nat
    BY HomeIs, Zenon
  <2> QED
    BY <2>1
<1>2. /\ entry \in RegistryRow /\ entry.version = me.row.version /\ entry.family = Home(me)
      /\ entry.number = me.row.number /\ entry.date = me.row.date /\ entry.parent = me.row.parent
    BY <1>1 DEF RowHolds, RegistryRow, HomeRow
<1>3. registry' = Families!Seen(entry)
    BY Zenon DEF Families!CommitFamily, HomeRow, Home
<1> HIDE DEF entry
<1>4. 0 \notin DOMAIN registry
    BY RowIs DEF FamiliesOK
<1> DEFINE k == Place(me.row.version)
<1>5. /\ Families!Seen(entry) \in Seq(RegistryRow)
      /\ k \in Nat /\ k # 0
      /\ DOMAIN Families!Seen(entry) = DOMAIN registry \cup {k}
      /\ Families!Seen(entry)[k] = entry
      /\ \A j \in DOMAIN registry \ {k} :
            Families!Seen(entry)[j] = registry[j] /\ registry[j].version # me.row.version
      /\ Families!RowOf(me.row.version) # 0 =>
            k = Families!RowOf(me.row.version) /\ k \in DOMAIN registry
            /\ registry[k].version = me.row.version
      /\ Families!RowOf(me.row.version) = 0 => k = Len(registry) + 1 /\ k \notin DOMAIN registry
  <2>1. k = Place(entry.version) /\ me.row.version = entry.version /\ entry \in RegistryRow
    BY <1>2
  <2> HIDE DEF k
  <2>2. /\ Families!Seen(entry) \in Seq(RegistryRow)
        /\ Place(entry.version) \in Nat /\ Place(entry.version) # 0
        /\ DOMAIN Families!Seen(entry) = DOMAIN registry \cup {Place(entry.version)}
        /\ Families!Seen(entry)[Place(entry.version)] = entry
        /\ \A j \in DOMAIN registry \ {Place(entry.version)} :
              Families!Seen(entry)[j] = registry[j] /\ registry[j].version # entry.version
        /\ Families!RowOf(entry.version) # 0 =>
              Place(entry.version) = Families!RowOf(entry.version)
              /\ Place(entry.version) \in DOMAIN registry
              /\ registry[Place(entry.version)].version = entry.version
        /\ Families!RowOf(entry.version) = 0 =>
              Place(entry.version) = Len(registry) + 1
              /\ Place(entry.version) \notin DOMAIN registry
    BY <2>1, SeenIs, Zenon
  <2> QED
    BY <2>1, <2>2, Zenon
<1> HIDE DEF k
<1>6. /\ registry' \in Seq(RegistryRow)
      /\ DOMAIN registry' = DOMAIN registry \cup {k}
      /\ registry'[k] = entry
      /\ \A j \in DOMAIN registry \ {k} :
            registry'[j] = registry[j] /\ registry[j].version # me.row.version
    BY <1>3, <1>5
<1> QED
    BY <1>2, <1>5, <1>6 DEF k

\* What a commit leaves of the histories and of the others' records.
From(me) ==
    IF Families!RowOf(me.row.version) = 0
            THEN 0 ELSE registry[Families!RowOf(me.row.version)].family

LEMMA AftermathIs ==
    ASSUME FamiliesOK, NEW me, Moving(me),
           Families!CommitFamily(me)
    PROVE  LET k == Place(me.row.version)
           IN  /\ stale' = (stale \ {Home(me)}) \cup (IF me.behind THEN {Home(me)} ELSE {})
                            \cup (IF From(me) \in {0, Home(me)} THEN {} ELSE {From(me)})
               /\ rewritten \subseteq rewritten'
               /\ \/ k \in rewritten' \/ k \notin DOMAIN registry
                  \/ registry[k].family = Home(me) /\ registry[k].number = me.row.number
               /\ me.links => k \in rewritten'
               /\ \A o \in Indexer :
                     writer'[o] = IF writer[o] = me THEN Families!Resting
                                  ELSE IF o \in Families!Writers
                                          /\ writer[o].family \in {Home(me), From(me)} \ {0}
                                  THEN [writer[o] EXCEPT !.behind = TRUE] ELSE writer[o]
               /\ DOMAIN writer' = Indexer
<1> USE DEF Moving
<1> DEFINE entry == HomeRow(me)
           i == Families!RowOf(me.row.version)
           k == Place(me.row.version)
<1>1. Home(me) \in Int
  <2>1. Home(me) \in Nat
    BY HomeIs, Zenon
  <2> QED
    BY <2>1
<1>2. entry.version = me.row.version /\ entry.number = me.row.number
    BY <1>1 DEF RowHolds, RegistryRow, HomeRow
<1>3. Families!Aftermath(me, Home(me), i, entry)
  <2>1. Families!Aftermath(me, Home(me), Families!RowOf(entry.version), entry)
    BY Zenon DEF Families!CommitFamily, HomeRow, Home
  <2> QED
    BY <1>2, <2>1
<1>4. k = IF i = 0 THEN Len(registry) + 1 ELSE i
    BY DEF Place
<1>5. From(me) = IF i = 0 THEN 0 ELSE registry[i].family
    BY DEF From
<1> HIDE DEF entry, i, k
<1>6. k \in DOMAIN registry => i # 0
  <2>1. Len(registry) \in Nat /\ DOMAIN registry = 1..Len(registry)
    BY RowIs DEF FamiliesOK
  <2> QED
    BY <1>4, <2>1
<1>7. /\ stale' = (stale \ {Home(me)}) \cup (IF me.behind THEN {Home(me)} ELSE {})
                            \cup (IF From(me) \in {0, Home(me)} THEN {} ELSE {From(me)})
    BY <1>3, <1>5 DEF Families!Aftermath
<1>8. /\ rewritten' = rewritten
                \cup (IF i # 0 /\ (From(me) # Home(me) \/ registry[i].number # entry.number)
                      THEN {i} ELSE {})
                \cup (IF me.links THEN {k} ELSE {})
    BY <1>3, <1>4, <1>5 DEF Families!Aftermath
<1>9. writer' = [o \in Indexer |->
                IF writer[o] = me THEN Families!Resting
                ELSE IF o \in Families!Writers /\ writer[o].family \in {Home(me), From(me)} \ {0}
                     THEN [writer[o] EXCEPT !.behind = TRUE] ELSE writer[o]]
    BY <1>3, <1>5, Zenon DEF Families!Aftermath
<1>10. /\ rewritten \subseteq rewritten'
       /\ me.links => k \in rewritten'
    BY <1>8
<1>11. k \in DOMAIN registry => k = i /\ From(me) = registry[i].family
    BY <1>4, <1>5, <1>6
<1>12. \/ k \in rewritten' \/ k \notin DOMAIN registry
       \/ registry[k].family = Home(me) /\ registry[k].number = me.row.number
    BY <1>2, <1>6, <1>8, <1>11
<1> QED
    BY <1>7, <1>9, <1>10, <1>12 DEF k
\* What a worker holds that has written goes on to hold when another commits: who is
\* at the same family falls behind, and nobody else's row is touched.
LEMMA OthersHold ==
    ASSUME FamiliesOK, NEW CONSTANT me, Moving(me),
           Families!CommitFamily(me),
           NEW CONSTANT m, RowHolds(m), m.doc # me.doc, m.family # 0,
           m.family \in {Families!New} \cup 0..Len(families),
           m.behind \/ m.family \notin {Home(me), From(me)}
    PROVE  RowHolds(m)'
<1> USE DEF Moving
<1>0. PICK k : k = Place(me.row.version)
    OBVIOUS
<1>1. /\ DOMAIN registry' = DOMAIN registry \cup {k}
      /\ registry'[k].family = Home(me) /\ registry'[k].number = me.row.number
      /\ registry'[k].version = me.row.version
      /\ \A j \in DOMAIN registry \ {k} :
            registry'[j] = registry[j] /\ registry[j].version # me.row.version
      /\ k \in DOMAIN registry => k = Families!RowOf(me.row.version)
           /\ registry[k].version = me.row.version
      /\ k # 0
    BY <1>0, RowsAre
<1>2. /\ rewritten \subseteq rewritten'
      /\ \/ k \in rewritten' \/ k \notin DOMAIN registry
         \/ registry[k].family = Home(me) /\ registry[k].number = me.row.number
    BY <1>0, AftermathIs
<1>3. m.row.version # me.row.version
    BY DEF RowHolds
<1>4. k \in DOMAIN registry => From(me) = registry[k].family
    BY <1>1 DEF From
<1>5. ASSUME m.family \notin {Home(me), From(me)}, LatestHolds(m) PROVE LatestHolds(m)'
  <2>1. Kin(m)' = Kin(m)
    <3>1. \A j \in DOMAIN registry \ {k} : j \in Kin(m) <=> (j \in Kin(m))'
      BY <1>1 DEF Kin, Families!Members
    <3>2. k \notin Kin(m)
      BY <1>4, <1>5 DEF Kin, Families!Members
    <3>3. ~(k \in Kin(m))'
      BY <1>1, <1>5 DEF Kin, Families!Members
    <3>4. Kin(m) \subseteq DOMAIN registry /\ Kin(m)' \subseteq DOMAIN registry'
      BY DEF Kin, Families!Members
    <3>5. PICK A, B : A = Kin(m) /\ B = Kin(m)'
      OBVIOUS
    <3>6. \A j : j \in A <=> j \in B
      BY <1>1, <3>1, <3>2, <3>3, <3>4, <3>5
    <3> QED
      BY <3>5, <3>6
  <2>2. \A j \in Kin(m) : registry'[j] = registry[j]
    <3>1. k \notin Kin(m) /\ Kin(m) \subseteq DOMAIN registry
      BY <1>4, <1>5 DEF Kin, Families!Members
    <3> QED
      BY <1>1, <3>1
  <2> QED
    BY <1>5, <2>1, <2>2 DEF LatestHolds
<1>6. ParentHolds(m)'
  <2> DEFINE p == m.row.parent
  <2>1. CASE p = 0
    BY <2>1 DEF ParentHolds
  <2>2. CASE m.kind = "register" /\ Above(p, m.family, m.row.number)
    <3>1. p \in DOMAIN registry'
      BY <1>1, <2>2 DEF Above
    <3>2. ASSUME p \notin rewritten'
          PROVE  registry'[p].family = m.family /\ registry'[p].number < m.row.number
      <4>1. registry[p].family = m.family /\ registry[p].number < m.row.number
            /\ p \in DOMAIN registry
        BY <1>2, <2>2, <3>2 DEF Above
      <4>2. CASE p = k
        BY <1>1, <1>2, <3>2, <4>1, <4>2
      <4>3. CASE p # k
        BY <1>1, <4>1, <4>3
      <4> QED
        BY <4>2, <4>3
    <3> QED
      BY <2>2, <3>1, <3>2 DEF ParentHolds, Above
  <2>3. CASE m.kind = "graph" /\ m.links
    BY <2>3 DEF ParentHolds
  <2>4. ASSUME m.kind = "graph", NEW i \in DOMAIN registry,
               registry[i].version = m.row.version, registry[i].parent = p
        PROVE  ParentHolds(m)'
    <3>1. i # k
      BY <1>1, <1>3, <2>4
    <3>2. i \in DOMAIN registry' /\ registry'[i] = registry[i]
      BY <1>1, <3>1
    <3> QED
      BY <2>4, <3>2 DEF ParentHolds
  <2> QED
    BY <2>1, <2>2, <2>3, <2>4 DEF RowHolds, ParentHolds
<1> QED
    BY <1>5, <1>6 DEF RowHolds

LEMMA OtherWorkerHolds ==
    ASSUME FamiliesOK, NEW CONSTANT me, Moving(me),
           Families!CommitFamily(me),
           NEW CONSTANT m, WorkerHolds(m),
           m.phase = "written" /\ m.family # 0 => m.doc # me.doc,
           NEW CONSTANT n,
           n = IF m.phase = "written" /\ m.family \in {Home(me), From(me)} \ {0}
               THEN [m EXCEPT !.behind = TRUE] ELSE m
    PROVE  /\ WorkerHolds(n)'
           /\ n.phase = m.phase
           /\ n.phase = "written" => n.family = m.family /\ n.doc = m.doc
<1> USE DEF Moving
<1>1. Len(families) \in Nat /\ Len(families') \in Nat /\ Len(families) <= Len(families')
    BY HomeIs
<1>2. 0..Len(families) \subseteq 0..Len(families')
    BY <1>1
<1>3. CASE m.phase # "written"
    BY <1>2, <1>3 DEF WorkerHolds
<1>4. CASE m.phase = "written"
  <2>1. DOMAIN m = WrittenFields /\ m.family \in {Families!New} \cup 0..Len(families)
    BY <1>4 DEF WorkerHolds
  <2>2. /\ n.phase = m.phase /\ n.kind = m.kind /\ n.doc = m.doc /\ n.version = m.version
        /\ n.family = m.family /\ n.row = m.row /\ n.latest = m.latest /\ n.title = m.title
        /\ n.outcome = m.outcome /\ n.stores = m.stores /\ n.links = m.links
        /\ DOMAIN n = WrittenFields
        /\ n.behind = m.behind \/ n.behind
    BY <2>1 DEF WrittenFields
  <2>3. m.family # 0 => n.behind \/ m.family \notin {Home(me), From(me)}
    BY <1>4, <2>1 DEF WrittenFields
  <2>4. m.family # 0 => RowHolds(m)
    BY <1>4 DEF WorkerHolds
  <2>5. m.family # 0 => RowHolds(n)
    BY <2>2, <2>4 DEF RowHolds, LatestHolds, ParentHolds, Kin
  <2>6. m.family # 0 => RowHolds(n)'
    <3> SUFFICES ASSUME m.family # 0 PROVE RowHolds(n)'
      OBVIOUS
    <3>1. n.doc # me.doc /\ n.family # 0 /\ n.family \in {Families!New} \cup 0..Len(families)
          /\ (n.behind \/ n.family \notin {Home(me), From(me)}) /\ RowHolds(n)
      BY <1>4, <2>1, <2>2, <2>3, <2>5
    <3> QED
      BY <3>1, OthersHold
  <2> QED
    BY <1>2, <1>4, <2>1, <2>2, <2>6 DEF WorkerHolds
<1> QED
    BY <1>3, <1>4
-----------------------------------------------------------------------------
\* A commit that moves a row leaves the tables, the families' latest versions and the
\* lineage as they should be.
LEMMA CommitTables ==
    ASSUME FamiliesOK, NEW CONSTANT me, Moving(me),
           Families!CommitFamily(me), me.doc \in Crawl, me.version \in Nat,
           newest' = newest \/ newest' = [newest EXCEPT ![me.doc] = me.version],
           deposited' = Families!GraphWith(me), audit' = Families!AuditWith(me)
    PROVE  FamiliesOK'
<1> USE DEF Moving
<1>0. PICK k, f : k = Place(me.row.version) /\ f = Home(me)
    OBVIOUS
<1>1. /\ registry' \in Seq(RegistryRow)
      /\ DOMAIN registry' = DOMAIN registry \cup {k}
      /\ registry'[k].family = f
      /\ registry'[k].version = me.row.version
      /\ \A j \in DOMAIN registry \ {k} :
            registry'[j] = registry[j] /\ registry[j].version # me.row.version
    BY <1>0, RowsAre
<1>2. /\ families' \in Seq(Family) /\ f \in 1..Len(families')
      /\ Len(families) \in Nat /\ Len(families') \in Nat /\ Len(families) <= Len(families')
    BY <1>0, HomeIs
<1>3. /\ newest \in [Crawl -> Nat] /\ deposited \in [Crawl -> Nat]
      /\ assigned \in [Crawl -> 0..Len(families)]
      /\ \A i \in DOMAIN registry : registry[i].family \in 1..Len(families)
      /\ \A i, j \in DOMAIN registry : registry[i].version = registry[j].version => i = j
      /\ DOMAIN audit = Crawl
    BY DEF FamiliesOK
<1>4. newest' \in [Crawl -> Nat]
    BY <1>3
<1>5. deposited' \in [Crawl -> Nat]
    BY <1>3 DEF Families!GraphWith
<1>6. DOMAIN audit' = Crawl
    BY <1>3 DEF Families!AuditWith
<1>7. assigned' \in [Crawl -> 0..Len(families')]
  <2>1. assigned' = [assigned EXCEPT ![me.doc] = f]
    BY <1>0 DEF Families!CommitFamily, Home
  <2>2. \A d \in Crawl : assigned[d] \in 0..Len(families')
    BY <1>2, <1>3
  <2>3. f \in 0..Len(families')
    BY <1>2
  <2> QED
    BY <1>3, <2>1, <2>2, <2>3
<1>8. \A i \in DOMAIN registry' : registry'[i].family \in 1..Len(families')
  <2>1. \A i \in DOMAIN registry : registry[i].family \in 1..Len(families')
    BY <1>2, <1>3
  <2> QED
    BY <1>1, <1>2, <2>1
<1>9. \A i, j \in DOMAIN registry' : registry'[i].version = registry'[j].version => i = j
    BY <1>1, <1>3
<1>10. DOMAIN writer' = Indexer
    BY AftermathIs
<1> QED
    BY <1>1, <1>2, <1>4, <1>5, <1>6, <1>7, <1>8, <1>9, <1>10 DEF FamiliesOK

LEMMA CommitLatest ==
    ASSUME FamiliesOK, Families!LatestIsNewest, NEW CONSTANT me, Moving(me),
           Families!CommitFamily(me)
    PROVE  Families!LatestIsNewest'
<1> USE DEF Moving
<1>0. PICK k, f : k = Place(me.row.version) /\ f = Home(me)
    OBVIOUS
<1>1. /\ DOMAIN registry' = DOMAIN registry \cup {k}
      /\ registry'[k].family = f /\ registry'[k].date = me.row.date
      /\ registry'[k].version = me.row.version
      /\ \A j \in DOMAIN registry \ {k} :
            registry'[j] = registry[j] /\ registry[j].version # me.row.version
      /\ k \in DOMAIN registry => k = Families!RowOf(me.row.version)
           /\ registry[k].version = me.row.version
      /\ k # 0
    BY <1>0, RowsAre
<1>2. /\ f \in Nat /\ f # 0 /\ (me.family = Families!New => f = Len(families) + 1)
      /\ (me.family # Families!New => f = me.family)
      /\ DOMAIN families' = DOMAIN families \cup {f}
      /\ families'[f].latest = me.latest
      /\ \A g \in DOMAIN families \ {f} : families'[g] = families[g]
      /\ Len(families) \in Nat
    BY <1>0, HomeIs
<1>3. stale' = (stale \ {f}) \cup (IF me.behind THEN {f} ELSE {})
                    \cup (IF From(me) \in {0, f} THEN {} ELSE {From(me)})
    BY <1>0, AftermathIs
<1>4. k \in DOMAIN registry => From(me) = registry[k].family
    BY <1>1 DEF From
<1>5. \A i \in DOMAIN registry :
          registry[i].family \in 1..Len(families) /\ registry[i].date \in Grade
    BY RowIs DEF FamiliesOK
<1>6. me.row.date \in Grade
    BY DEF RowHolds, RegistryRow
<1>7. ASSUME f \notin stale'
      PROVE  \E i \in Families!Members(registry, f)' :
                /\ families'[f].latest = registry'[i].version
                /\ \A j \in Families!Members(registry, f)' : registry'[j].date <= registry'[i].date
  <2>1. LatestHolds(me)
    BY <1>3, <1>7 DEF RowHolds
  <2>2. PICK S : S = Families!Members(registry, f)'
    OBVIOUS
  <2>3. k \in S /\ S = {j \in DOMAIN registry' : registry'[j].family = f}
    BY <1>1, <2>2 DEF Families!Members
  <2>4. CASE me.family = Families!New
    <3>1. me.latest = me.row.version
      BY <1>2, <1>5, <2>1, <2>4 DEF LatestHolds, Kin, Families!Members, Families!New
    <3>2. S = {k}
      BY <1>1, <1>2, <1>5, <2>3, <2>4
    <3>3. me.row.date <= me.row.date
      BY <1>6 DEF Grade
    <3> QED
      BY <1>1, <1>2, <2>2, <3>1, <3>2, <3>3
  <2>5. CASE me.family # Families!New
    <3>1. Kin(me) = S \ {k}
      <4>1. \A j \in DOMAIN registry : j \in Kin(me) <=> j \in S \ {k}
        BY <1>1, <1>2, <2>3, <2>5 DEF Kin, Families!Members
      <4>2. Kin(me) \subseteq DOMAIN registry /\ S \ {k} \subseteq DOMAIN registry
        BY <1>1, <2>3 DEF Kin, Families!Members
      <4>3. PICK A : A = Kin(me)
        OBVIOUS
      <4>4. \A j : j \in A <=> j \in S \ {k}
        BY <4>1, <4>2, <4>3
      <4> QED
        BY <4>3, <4>4
    <3>2. \A j \in S \ {k} : registry'[j] = registry[j]
      BY <1>1, <2>3
    <3>3. me.row.date <= me.row.date
      BY <1>6 DEF Grade
    <3>4. CASE /\ me.latest = me.row.version
               /\ \A j \in Kin(me) : registry[j].date <= me.row.date
      <4>1. \A j \in S : registry'[j].date <= registry'[k].date
        BY <1>1, <3>1, <3>2, <3>3, <3>4
      <4> QED
        BY <1>1, <1>2, <2>2, <2>3, <3>4, <4>1
    <3>5. ASSUME NEW i \in Kin(me), me.latest = registry[i].version,
                 me.row.date <= registry[i].date,
                 \A j \in Kin(me) : registry[j].date <= registry[i].date
          PROVE  \E n \in S :
                    /\ families'[f].latest = registry'[n].version
                    /\ \A j \in S : registry'[j].date <= registry'[n].date
      <4>1. i \in S /\ registry'[i] = registry[i]
        BY <3>1, <3>2
      <4>2. \A j \in S : registry'[j].date <= registry'[i].date
        BY <1>1, <3>1, <3>2, <3>5, <4>1
      <4> QED
        BY <1>2, <3>5, <4>1, <4>2
    <3> QED
      BY <2>1, <2>2, <3>4, <3>5 DEF LatestHolds
  <2> QED
    BY <2>4, <2>5
<1>8. ASSUME NEW g \in DOMAIN families', g # f, g \notin stale'
      PROVE  \E i \in Families!Members(registry, g)' :
                /\ families'[g].latest = registry'[i].version
                /\ \A j \in Families!Members(registry, g)' : registry'[j].date <= registry'[i].date
  <2>1. g \in DOMAIN families \ stale /\ families'[g] = families[g] /\ From(me) # g
    <3>1. g \in DOMAIN families /\ families'[g] = families[g]
      BY <1>2, <1>8
    <3>2. 0 \notin DOMAIN families
      BY DEF FamiliesOK
    <3>3. From(me) # g
      BY <1>3, <1>8, <3>1, <3>2
    <3> QED
      BY <1>3, <1>8, <3>1, <3>3
  <2>2. PICK S, T : S = Families!Members(registry, g)' /\ T = Families!Members(registry, g)
    OBVIOUS
  <2>3. S = {j \in DOMAIN registry' : registry'[j].family = g}
        /\ T = {j \in DOMAIN registry : registry[j].family = g}
    BY <2>2 DEF Families!Members
  <2>4. k \notin S /\ k \notin T
    BY <1>1, <1>4, <1>8, <2>1, <2>3
  <2>5. \A j : j \in S <=> j \in T
    BY <1>1, <2>3, <2>4
  <2>6. S = T
    BY <2>5
  <2>7. \A j \in S : registry'[j] = registry[j]
    BY <1>1, <2>3, <2>4, <2>6
  <2>8. \E i \in T : /\ families[g].latest = registry[i].version
                     /\ \A j \in T : registry[j].date <= registry[i].date
    BY <2>1, <2>2 DEF Families!LatestIsNewest
  <2> QED
    BY <2>1, <2>2, <2>6, <2>7, <2>8
<1>9. ASSUME NEW g \in (DOMAIN families \ stale)'
      PROVE  (\E i \in Families!Members(registry, g) :
                /\ families[g].latest = registry[i].version
                /\ \A j \in Families!Members(registry, g) : registry[j].date <= registry[i].date)'
  <2>1. CASE g = f
    BY <1>7, <1>9, <2>1
  <2>2. CASE g # f
    BY <1>8, <1>9, <2>2
  <2> QED
    BY <2>1, <2>2
<1> QED
    BY <1>9 DEF Families!LatestIsNewest

LEMMA CommitLineage ==
    ASSUME FamiliesOK, LineageHolds, NEW CONSTANT me, Moving(me),
           Families!CommitFamily(me)
    PROVE  LineageHolds'
<1> USE DEF Moving
<1>0. PICK k, f : k = Place(me.row.version) /\ f = Home(me)
    OBVIOUS
<1>1. /\ DOMAIN registry' = DOMAIN registry \cup {k}
      /\ registry'[k].family = f /\ registry'[k].number = me.row.number
      /\ registry'[k].parent = me.row.parent
      /\ \A j \in DOMAIN registry \ {k} :
            registry'[j] = registry[j] /\ registry[j].version # me.row.version
      /\ k \in DOMAIN registry => k = Families!RowOf(me.row.version)
           /\ registry[k].version = me.row.version
    BY <1>0, RowsAre
<1>2. /\ me.family = Families!New => f = Len(families) + 1
      /\ me.family # Families!New => f = me.family
      /\ Len(families) \in Nat
    BY <1>0, HomeIs
<1>3. /\ rewritten \subseteq rewritten'
      /\ \/ k \in rewritten' \/ k \notin DOMAIN registry
         \/ registry[k].family = f /\ registry[k].number = me.row.number
      /\ me.links => k \in rewritten'
    BY <1>0, AftermathIs
<1>4. \A i \in DOMAIN registry : registry[i].family \in 1..Len(families)
    BY DEF FamiliesOK
<1>5. ASSUME NEW p, NEW g, NEW n, Above(p, g, n) PROVE Above(p, g, n)'
  <2>1. p \in DOMAIN registry'
    BY <1>1, <1>5 DEF Above
  <2>2. ASSUME p \notin rewritten' PROVE registry'[p].family = g /\ registry'[p].number < n
    <3>1. registry[p].family = g /\ registry[p].number < n /\ p \in DOMAIN registry
      BY <1>3, <1>5, <2>2 DEF Above
    <3>2. CASE p = k
      BY <1>1, <1>3, <2>2, <3>1, <3>2
    <3>3. CASE p # k
      BY <1>1, <3>1, <3>3
    <3> QED
      BY <3>2, <3>3
  <2> QED
    BY <2>1, <2>2 DEF Above
<1>6. ASSUME k \notin rewritten', me.row.parent # 0
      PROVE  Above(me.row.parent, f, me.row.number)'
  <2>1. PICK p, n : p = me.row.parent /\ n = me.row.number
    OBVIOUS
  <2>2. CASE Above(p, me.family, n)
    <3>1. CASE me.family = Families!New /\ p \notin rewritten
      BY <1>4, <2>2, <3>1 DEF Above, Families!New
    <3>2. CASE me.family = Families!New /\ p \in rewritten
      BY <1>1, <1>3, <2>1, <2>2, <3>2 DEF Above
    <3>3. CASE me.family # Families!New
      BY <1>2, <1>5, <2>1, <2>2, <3>3
    <3> QED
      BY <3>1, <3>2, <3>3
  <2>3. ASSUME NEW i \in DOMAIN registry, registry[i].version = me.row.version,
               registry[i].parent = p
        PROVE  Above(me.row.parent, f, me.row.number)'
    <3>1. i = k
      BY <1>1, <2>3
    <3>2. registry[k].family = f /\ registry[k].number = n /\ k \notin rewritten
      BY <1>3, <1>6, <2>1, <2>3, <3>1
    <3>3. Above(p, f, n)
      BY <1>6, <2>1, <2>3, <3>1, <3>2 DEF LineageHolds
    <3> QED
      BY <1>5, <2>1, <3>3
  <2> QED
    BY <1>3, <1>6, <2>1, <2>2, <2>3 DEF RowHolds, ParentHolds
<1>7. ASSUME NEW i \in DOMAIN registry', i \notin rewritten', registry'[i].parent # 0
      PROVE  Above(registry[i].parent, registry[i].family, registry[i].number)'
  <2>1. CASE i = k
    <3>1. Above(me.row.parent, f, me.row.number)'
      BY <1>1, <1>6, <1>7, <2>1
    <3> QED
      BY <1>1, <2>1, <3>1 DEF Above
  <2>2. CASE i # k
    <3>1. i \in DOMAIN registry \ rewritten /\ registry'[i] = registry[i]
      BY <1>1, <1>3, <1>7, <2>2
    <3>2. PICK p, g, n : p = registry[i].parent /\ g = registry[i].family
          /\ n = registry[i].number
      OBVIOUS
    <3>3. Above(p, g, n)
      BY <1>7, <3>1, <3>2 DEF LineageHolds
    <3>4. Above(p, g, n)'
      BY <1>5, <3>3
    <3> QED
      BY <3>1, <3>2, <3>4 DEF Above
  <2> QED
    BY <2>1, <2>2
<1> QED
    BY <1>7 DEF LineageHolds, Above
\* What is stored of a document's graph and what is recorded of it are one commit's.
LEMMA CommitGraph ==
    ASSUME FamiliesOK, Families!GraphIsTruthful, NEW CONSTANT me, WorkerHolds(me),
           me.phase = "written",
           audit' = Families!AuditWith(me), deposited' = Families!GraphWith(me),
           entities' = Families!EntitiesWith(me), catalog' = Families!CatalogWith(me),
           unmarked' = Families!UnmarkedWith(me)
    PROVE  Families!GraphIsTruthful'
<1>1. /\ me.doc \in Crawl /\ me.kind \in {"register", "graph"}
      /\ me.kind = "graph" /\ me.outcome = "COMPLETED" => me.stores
      /\ me.kind = "register" => ~me.stores
    BY DEF WorkerHolds
<1>2. DOMAIN audit = Crawl /\ deposited \in [Crawl -> Nat]
    BY DEF FamiliesOK
<1>3. catalog' \subseteq entities' /\ entities \subseteq entities'
    BY DEF Families!GraphIsTruthful, Families!EntitiesWith, Families!CatalogWith
<1>4. ASSUME NEW d \in Crawl, audit'[d].status = "COMPLETED"
      PROVE  d \in entities' /\ (d \notin unmarked' => deposited'[d] = audit'[d].version)
  <2>1. CASE ~me.stores /\ (me.kind = "register" \/ me.outcome = "UNMARKED")
    <3>1. audit' = audit /\ deposited' = deposited /\ unmarked' = unmarked
      BY <2>1 DEF Families!AuditWith, Families!GraphWith, Families!UnmarkedWith
    <3> QED
      BY <1>3, <1>4, <3>1 DEF Families!GraphIsTruthful
  <2>2. CASE me.stores /\ me.kind = "graph" /\ me.outcome = "UNMARKED"
    <3>1. audit' = audit /\ unmarked' = unmarked \cup {me.doc}
      BY <2>2 DEF Families!AuditWith, Families!UnmarkedWith
    <3>2. d # me.doc => deposited'[d] = deposited[d]
      BY <1>2, <2>2 DEF Families!GraphWith
    <3> QED
      BY <1>3, <1>4, <3>1, <3>2 DEF Families!GraphIsTruthful
  <2>3. CASE me.kind = "graph" /\ me.outcome # "UNMARKED" /\ d = me.doc
    <3>1. audit'[d] = [status |-> me.outcome, version |-> me.version]
      BY <1>2, <2>3 DEF Families!AuditWith
    <3>2. me.stores
      BY <1>1, <1>4, <2>3, <3>1
    <3> QED
      BY <1>2, <2>3, <3>1, <3>2 DEF Families!GraphWith, Families!EntitiesWith
  <2>4. CASE me.kind = "graph" /\ me.outcome # "UNMARKED" /\ d # me.doc
    <3>1. audit'[d] = audit[d] /\ deposited'[d] = deposited[d]
      BY <1>2, <2>4 DEF Families!AuditWith, Families!GraphWith
    <3>2. d \in unmarked => d \in unmarked'
      BY <2>4 DEF Families!UnmarkedWith
    <3> QED
      BY <1>3, <1>4, <3>1, <3>2 DEF Families!GraphIsTruthful
  <2> QED
    BY <1>1, <2>1, <2>2, <2>3, <2>4
<1> QED
    BY <1>3, <1>4 DEF Families!GraphIsTruthful

LEMMA CommitFamilyStep ==
    ASSUME FamiliesInv, NEW w \in Indexer, Families!Commit(w), writer[w].family # 0
    PROVE  FamiliesInv'
<1>0. PICK me : me = writer[w]
    OBVIOUS
<1>1. /\ me.phase = "written" /\ Families!CommitFamily(me)
      /\ newest' = newest \/ newest' = [newest EXCEPT ![me.doc] = me.version]
      /\ audit' = Families!AuditWith(me) /\ deposited' = Families!GraphWith(me)
      /\ entities' = Families!EntitiesWith(me) /\ catalog' = Families!CatalogWith(me)
      /\ unmarked' = Families!UnmarkedWith(me)
    BY <1>0 DEF Families!Commit
<1>2. FamiliesOK /\ WorkerHolds(me)
    BY <1>0 DEF FamiliesInv
<1>3. Moving(me) /\ me.family # 0 /\ me.doc \in Crawl /\ me.version \in Nat
    BY <1>0, <1>1, <1>2 DEF WorkerHolds, Moving
<1>4. FamiliesOK'
    BY <1>1, <1>2, <1>3, CommitTables
<1>5. Families!LatestIsNewest'
    BY <1>1, <1>2, <1>3, CommitLatest DEF FamiliesInv
<1>6. LineageHolds'
    BY <1>1, <1>2, <1>3, CommitLineage DEF FamiliesInv
<1>7. Families!GraphIsTruthful'
    BY <1>1, <1>2, CommitGraph DEF FamiliesInv
<1>8. \A o \in Indexer :
          writer'[o] = IF writer[o] = me THEN Families!Resting
                       ELSE IF o \in Families!Writers
                       /\ writer[o].family \in {Home(me), From(me)} \ {0}
                       THEN [writer[o] EXCEPT !.behind = TRUE] ELSE writer[o]
    BY <1>1, <1>2, <1>3, AftermathIs
<1>9. ASSUME NEW o \in Indexer
      PROVE  /\ WorkerHolds(writer[o])'
             /\ writer'[o].phase = "written" =>
                   /\ writer[o].phase = "written"
                   /\ writer'[o].family = writer[o].family /\ writer'[o].doc = writer[o].doc
  <2>0. PICK m, n : m = writer[o] /\ n = writer'[o]
    OBVIOUS
  <2>1. CASE m = me
    <3>1. n = Families!Resting
      BY <1>8, <2>0, <2>1
    <3>2. WorkerHolds(n)'
      BY <3>1 DEF Families!Resting, WorkerHolds
    <3>3. WorkerHolds(writer[o])'
      BY <2>0, <3>2 DEF WorkerHolds, RowHolds, LatestHolds, ParentHolds, Above, Kin,
                        Families!Members
    <3> QED
      BY <2>0, <3>1, <3>3 DEF Families!Resting
  <2>2. CASE m # me
    <3>1. m.phase = "written" /\ m.family # 0 => m.doc # me.doc
      <4> SUFFICES ASSUME m.phase = "written", m.family # 0, m.doc = me.doc PROVE FALSE
        OBVIOUS
      <4>1. o \in Holders(me.doc) /\ w \in Holders(me.doc)
        BY <1>0, <1>1, <1>3, <2>0 DEF Holders
      <4> QED
        BY <1>0, <1>3, <2>0, <2>2, <4>1 DEF FamiliesInv, OneHolder
    <3>2. WorkerHolds(m)
      BY <2>0 DEF FamiliesInv
    <3>3. n = IF m.phase = "written" /\ m.family \in {Home(me), From(me)} \ {0}
              THEN [m EXCEPT !.behind = TRUE] ELSE m
      BY <1>8, <2>0, <2>2 DEF Families!Writers
    <3>4. /\ WorkerHolds(n)' /\ n.phase = m.phase
          /\ n.phase = "written" => n.family = m.family /\ n.doc = m.doc
      BY <1>1, <1>2, <1>3, <3>1, <3>2, <3>3, OtherWorkerHolds
    <3>5. WorkerHolds(writer[o])'
      BY <2>0, <3>4 DEF WorkerHolds, RowHolds, LatestHolds, ParentHolds, Above, Kin,
                        Families!Members
    <3> QED
      BY <2>0, <3>4, <3>5
  <2> QED
    BY <2>1, <2>2
<1>10. OneHolder'
  <2>1. \A o \in Indexer : \A d \in Crawl : (o \in Holders(d))' => o \in Holders(d)
    BY <1>9 DEF Holders
  <2> QED
    BY <2>1 DEF FamiliesInv, OneHolder
<1> QED
    BY <1>4, <1>5, <1>6, <1>7, <1>9, <1>10 DEF FamiliesInv

LEMMA CommitStep ==
    ASSUME FamiliesInv, NEW w \in Indexer, Families!Commit(w)
    PROVE  FamiliesInv'
<1>1. CASE writer[w].family # 0
    BY <1>1, CommitFamilyStep
<1>2. CASE writer[w].family = 0
  <2>0. PICK me : me = writer[w]
    OBVIOUS
  <2>1. /\ me.phase = "written" /\ writer' = [writer EXCEPT ![w] = Families!Resting]
        /\ UNCHANGED <<families, registry, stale, rewritten>>
        /\ assigned' = assigned \/ assigned' = [assigned EXCEPT ![me.doc] = 0]
        /\ newest' = newest \/ newest' = [newest EXCEPT ![me.doc] = me.version]
        /\ audit' = Families!AuditWith(me) /\ deposited' = Families!GraphWith(me)
        /\ entities' = Families!EntitiesWith(me) /\ catalog' = Families!CatalogWith(me)
        /\ unmarked' = Families!UnmarkedWith(me)
    BY <1>2, <2>0 DEF Families!Commit
  <2>2. FamiliesOK /\ WorkerHolds(me)
    BY <2>0 DEF FamiliesInv
  <2>3. me.doc \in Crawl /\ me.version \in Nat
    BY <2>1, <2>2 DEF WorkerHolds
  <2>4. FamiliesOK'
    <3>1. newest' \in [Crawl -> Nat] /\ deposited' \in [Crawl -> Nat]
          /\ DOMAIN audit' = Crawl /\ DOMAIN writer' = Indexer
      BY <2>1, <2>2, <2>3 DEF FamiliesOK, Families!GraphWith, Families!AuditWith
    <3>2. assigned' \in [Crawl -> 0..Len(families)]
      <4>1. assigned \in [Crawl -> 0..Len(families)] /\ 0 \in 0..Len(families)
        BY <2>2, FoundIs DEF FamiliesOK
      <4> QED
        BY <2>1, <2>3, <4>1
    <3>3. families' = families /\ registry' = registry /\ Len(families') = Len(families)
      BY <2>1
    <3> QED
      BY <2>2, <3>1, <3>2, <3>3 DEF FamiliesOK
  <2>5. Families!LatestIsNewest' /\ LineageHolds'
    BY <2>1 DEF FamiliesInv, Families!LatestIsNewest, LineageHolds, Families!Members, Above
  <2>6. Families!GraphIsTruthful'
    BY <2>1, <2>2, CommitGraph DEF FamiliesInv
  <2>7. writer'[w] = Families!Resting /\ \A o \in Indexer \ {w} : writer'[o] = writer[o]
    BY <2>1, <2>2 DEF FamiliesOK
  <2>8. ASSUME NEW o \in Indexer PROVE WorkerHolds(writer[o])'
    <3>1. PICK n : n = writer'[o]
      OBVIOUS
    <3>2. WorkerHolds(n)
      BY <2>7, <3>1 DEF FamiliesInv, Families!Resting, WorkerHolds
    <3>3. WorkerHolds(n)'
      BY <2>1, <3>2, SameHolds
    <3> QED
      BY <3>1, <3>3 DEF WorkerHolds, RowHolds, LatestHolds, ParentHolds, Above, Kin,
                        Families!Members
  <2>9. OneHolder'
    <3>1. \A o \in Indexer : \A d \in Crawl : (o \in Holders(d))' => o \in Holders(d)
      BY <2>7 DEF Holders, Families!Resting
    <3> QED
      BY <3>1 DEF FamiliesInv, OneHolder
  <2> QED
    BY <2>4, <2>5, <2>6, <2>8, <2>9 DEF FamiliesInv
<1> QED
    BY <1>1, <1>2

LEMMA FamiliesInit == Families!Init => FamiliesInv
<1> SUFFICES ASSUME Families!Init PROVE FamiliesInv
    OBVIOUS
<1>1. FamiliesOK
    BY DEF Families!Init, FamiliesOK
<1>2. \A w \in Indexer : writer[w] = Families!Resting
    BY DEF Families!Init
<1>3. /\ \A w \in Indexer : WorkerHolds(writer[w])
      /\ OneHolder
    BY <1>2 DEF Families!Resting, WorkerHolds, OneHolder, Holders
<1>4. Families!LatestIsNewest /\ LineageHolds
    BY DEF Families!Init, Families!LatestIsNewest, LineageHolds
<1>5. Families!GraphIsTruthful
    BY DEF Families!Init, Families!GraphIsTruthful
<1> QED
    BY <1>1, <1>3, <1>4, <1>5 DEF FamiliesInv

LEMMA FamiliesStep ==
    ASSUME ReadingsOK, FamiliesInv, [Families!Next]_(Families!vars)
    PROVE  FamiliesInv'
<1>1. CASE UNCHANGED Families!vars
  <2>1. UNCHANGED <<Families!tables, Families!history, writer>>
    BY <1>1 DEF Families!vars
  <2>2. FamiliesOK' /\ OneHolder'
    BY <2>1 DEF FamiliesInv, FamiliesOK, Families!tables, OneHolder, Holders
  <2>3. Families!LatestIsNewest' /\ LineageHolds' /\ Families!GraphIsTruthful'
    BY <2>1 DEF FamiliesInv, Families!LatestIsNewest, LineageHolds, Families!GraphIsTruthful,
                Families!Members, Above, Families!tables,
                Families!history
  <2>4. \A w \in Indexer : WorkerHolds(writer[w])'
    BY <2>1 DEF FamiliesInv, WorkerHolds, RowHolds, LatestHolds, ParentHolds, Above, Kin,
                Families!Members, Families!tables, Families!history
  <2> QED
    BY <2>2, <2>3, <2>4 DEF FamiliesInv
<1>2. ASSUME NEW w \in Indexer, NEW d \in Crawl, NEW new \in BOOLEAN, NEW c \in Candidates,
             Families!BeginRegistration(w, d, new, c)
      PROVE  FamiliesInv'
    BY <1>2, BeginRegistrationStep
<1>3. ASSUME NEW w \in Indexer, NEW d \in Crawl, Families!BeginExtraction(w, d) PROVE FamiliesInv'
    BY <1>3, BeginExtractionStep
<1>4. ASSUME NEW w \in Indexer, NEW x \in Findings, NEW marked \in BOOLEAN,
             Families!Extract(w, x, marked)
      PROVE  FamiliesInv'
    BY <1>4, ExtractStep
<1>5. ASSUME NEW w \in Indexer, Families!WriteRegistration(w) PROVE FamiliesInv'
    BY <1>5, WriteRegistrationStep
<1>6. ASSUME NEW w \in Indexer, NEW o \in {"SKIPPED", "COMPLETED", "FAILED"},
             NEW ends \in BOOLEAN, Families!WriteExtraction(w, o, ends)
      PROVE  FamiliesInv'
    BY <1>6, WriteExtractionStep
<1>7. ASSUME NEW w \in Indexer, Families!Commit(w) PROVE FamiliesInv'
    BY <1>7, CommitStep
<1>8. ASSUME NEW w \in Indexer, Families!Lose(w) PROVE FamiliesInv'
    BY <1>8, LoseStep
<1> QED
    BY <1>1, <1>2, <1>3, <1>4, <1>5, <1>6, <1>7, <1>8, Zenon DEF Families!Next

LEMMA FamiliesCohere == FamiliesInv => Families!RegistryIsCoherent
BY DEF FamiliesInv, Families!RegistryIsCoherent, LineageHolds, Families!LineageDescends, Above

-----------------------------------------------------------------------------
(* The indexing queue.  The difficulty is the job without a version, which *)
(* indexes whatever is the latest version when it loads: it may delete the *)
(* chunks of a version whose own job is COMPLETED, and then fail or be     *)
(* killed.  Repaired says that whenever the index of such a version is     *)
(* missing, that job is still open and whoever is at it restores the index *)
(* or leaves the job FAILED.                                               *)

\* What the theorems assume of the constants.
IndexSetting ==
    /\ Queue!NoWorker \notin Indexer
    /\ MaxVersion \in Nat /\ MaxCrawls \in Nat /\ MaxIndexFaults \in Nat

\* Nothing is enqueued, recorded or worked on before there is a version.
Shaped ==
    /\ \A c \in Crawl : crawl[c].at = "enqueue" => latest > 0
    /\ job[Queue!NoVersion] # "NONE" => latest > 0
    /\ \A w \in Indexer : Queue!Live(w) => latest > 0 /\ indexer[w].job <= latest

AtWork == {"replace", "chunked", "embedding", "upsert"}

\* A worker at the job of a version is at that version; it writes chunks of a
\* version with text only; its outcome is RAG_READY only after it embedded what
\* it had inserted, and unless it met another there the embeddings are there.
WorkerSound(w) ==
    /\ indexer[w].job # Queue!NoVersion => indexer[w].version = indexer[w].job
    /\ indexer[w].at = "load" => indexer[w].version = indexer[w].job
    /\ indexer[w].at \in AtWork =>
          indexer[w].version # Queue!NoVersion /\ indexer[w].version \notin blank
    /\ indexer[w].at \in {"idle", "load"} \cup AtWork => indexer[w].outcome = "FAILED"
    /\ indexer[w].outcome = "SKIPPED" => indexer[w].version = indexer[w].job
    /\ indexer[w].outcome = "RAG_READY" =>
          /\ indexer[w].version # Queue!NoVersion /\ indexer[w].version \notin blank
          /\ chunks[indexer[w].version] # Queue!NoWorker
          /\ indexer[w].version \in shared \cup embedded

WorkersSound == \A w \in Indexer : WorkerSound(w)

\* The job and the version a live worker is at.
Holds(w) == IF Queue!Live(w) THEN {indexer[w].job, indexer[w].version} ELSE {}

\* What two live workers are at together is on record.
MeetingsKnown ==
    \A w, u \in Indexer : w # u => Holds(w) \cap Holds(u) \subseteq shared

OpenJob == {"PENDING", "PROCESSING", "STALE"}

\* The job of a live worker has no outcome, unless a second one recorded it.
WorkIsOpen ==
    \A w \in Indexer :
        Queue!Live(w) => job[indexer[w].job] \in OpenJob \/ indexer[w].job \in shared

\* A version without text is skipped, never completed.
BlankNotCompleted == \A v \in Queue!Version \cap blank : job[v] # "COMPLETED"

\* A worker at the job without a version, from which v gets its index back or
\* the job the outcome FAILED.
WillRedo(w, v) ==
    \/ indexer[w].at = "load"
    \/ indexer[w].version = v
    \/ indexer[w].at \in {"status", "job"} /\ indexer[w].outcome = "FAILED"

\* Where nobody met and v is the version the job without a version would be at,
\* the index of a COMPLETED v is missing only while that job is to be done again.
Repaired ==
    \A v \in Queue!Version :
        /\ job[v] = "COMPLETED" /\ {v, Queue!NoVersion} \cap shared = {}
        /\ job[Queue!NoVersion] = "NONE" \/ v = latest
        /\ v \notin embedded
        => /\ job[Queue!NoVersion] \in OpenJob \cup {"FAILED"}
           /\ \A w \in Indexer :
                 Queue!Live(w) /\ indexer[w].job = Queue!NoVersion => WillRedo(w, v)

IndexInv ==
    /\ Queue!TypeOK /\ Shaped /\ WorkersSound /\ MeetingsKnown /\ WorkIsOpen
    /\ BlankNotCompleted /\ Repaired /\ Queue!ReadyWasChunked

-----------------------------------------------------------------------------
Holding == [at : Queue!Place, job : Queue!Job, version : 0..latest, outcome : Queue!Outcome]

\* Versions are numbers, and job numbers are those and zero.
LEMMA Counting ==
    ASSUME IndexSetting, Queue!TypeOK
    PROVE  /\ latest \in Nat /\ latest <= MaxVersion /\ Queue!Job = 0..MaxVersion
           /\ 0..latest \subseteq Queue!Job /\ latest \in Queue!Job
BY DEF IndexSetting, Queue!TypeOK, Queue!Job, Queue!Version, Queue!NoVersion

-----------------------------------------------------------------------------
(* The steps of crawls, of time and of the operator on the queue.         *)

\* The empty tables of a new document.
LEMMA IndexInit ==
    ASSUME IndexSetting, Queue!Init
    PROVE  IndexInv
<1>1. Queue!TypeOK
  BY DEF IndexSetting, Queue!Init, Queue!TypeOK, Queue!Job, Queue!Version, Queue!NoVersion,
         Queue!JobStatus, Queue!DocStatus,
         Queue!Outcome, Queue!Place, Queue!Idle
<1>2. Shaped
  BY DEF Queue!Init, Shaped, Queue!Live, Queue!Idle, Queue!Job
<1>3. WorkersSound
  BY DEF Queue!Init, WorkersSound, WorkerSound, Queue!Idle, AtWork
<1>4. MeetingsKnown
  BY DEF Queue!Init, MeetingsKnown, Holds, Queue!Live, Queue!Idle
<1>5. WorkIsOpen /\ BlankNotCompleted /\ Repaired /\ Queue!ReadyWasChunked
  BY DEF Queue!Init, WorkIsOpen, BlankNotCompleted, Repaired, Queue!ReadyWasChunked, Queue!Live,
         Queue!Idle, Queue!Job, Queue!Version
<1> QED BY <1>1, <1>2, <1>3, <1>4, <1>5 DEF IndexInv

\* Session A reads the latest version.
LEMMA ReadLatestKeeps ==
    ASSUME IndexSetting, IndexInv, NEW c \in Crawl, Queue!ReadLatest(c)
    PROVE  IndexInv'
<1> USE DEF Queue!ReadLatest, Queue!indexVars
<1>1. Queue!TypeOK'
  BY Counting DEF IndexInv, Queue!TypeOK, IndexSetting
<1>2. Shaped'
  BY DEF IndexInv, Queue!TypeOK, Shaped, Queue!Live
<1>3. /\ WorkersSound' /\ MeetingsKnown' /\ WorkIsOpen'
      /\ BlankNotCompleted' /\ Repaired' /\ Queue!ReadyWasChunked'
  BY DEF IndexInv, WorkersSound, WorkerSound, MeetingsKnown, Holds, Queue!Live,
         WorkIsOpen, BlankNotCompleted, Repaired, Queue!ReadyWasChunked, WillRedo
<1> QED BY <1>1, <1>2, <1>3 DEF IndexInv

\* A new version: its job does not exist yet, so nothing is claimed of it.
LEMMA PersistNewKeeps ==
    ASSUME IndexSetting, IndexInv, NEW c \in Crawl, Queue!PersistNew(c)
    PROVE  IndexInv'
<1> USE DEF Queue!PersistNew, Queue!indexVars
<1>0. /\ latest \in Nat /\ latest' \in Nat /\ latest' \in Queue!Version
      /\ latest' = latest + 1 /\ latest' \notin blank
      /\ blank' \subseteq blank \cup {latest'} /\ blank \subseteq blank'
  <2>1. latest \in Nat /\ latest <= MaxVersion /\ blank \subseteq 1..latest /\ MaxVersion \in Nat
    BY Counting DEF IndexInv, Queue!TypeOK, IndexSetting
  <2>2. latest < MaxVersion /\ latest' = latest + 1
    BY DEF Queue!PersistNew
  <2>3. /\ blank' \subseteq blank \cup {latest'} /\ blank \subseteq blank'
    BY DEF Queue!PersistNew
  <2> QED BY <2>1, <2>2, <2>3 DEF Queue!Version
<1>1. Queue!TypeOK'
  <2>1. blank' \subseteq 1..latest'
    BY <1>0 DEF IndexInv, Queue!TypeOK
  <2>2. /\ 0..latest \subseteq 0..latest' /\ 1..latest \subseteq 1..latest'
        /\ latest' \in 0..latest'
    BY <1>0
  <2>3. crawl' \in [Crawl -> [at : {"idle", "persist", "enqueue"},
                           version : 0..latest']]
    BY <2>2 DEF IndexInv, Queue!TypeOK
  <2>4. indexer' \in [Indexer -> [at : Queue!Place, job : Queue!Job, version : 0..latest',
                              outcome : Queue!Outcome]]
    BY <2>2 DEF IndexInv, Queue!TypeOK
  <2> QED BY <1>0, <2>1, <2>2, <2>3, <2>4 DEF IndexInv, Queue!TypeOK, Queue!Job
<1>2. Shaped'
  <2>1. \A w \in Indexer : indexer[w].job \in Nat
    BY Counting DEF IndexInv, Queue!TypeOK, IndexSetting
  <2> QED BY <1>0, <2>1 DEF IndexInv, Shaped, Queue!Live
<1>3. WorkersSound'
  BY <1>0 DEF IndexInv, Queue!TypeOK, WorkersSound, WorkerSound, AtWork, Queue!NoVersion
<1>4. BlankNotCompleted' /\ Repaired'
  <2>1. job[latest'] = "NONE"
    BY <1>0 DEF IndexInv, Queue!TypeOK
  <2> QED BY <1>0, <2>1
    DEF IndexInv, BlankNotCompleted, Repaired, WillRedo, Queue!Live
<1>5. MeetingsKnown' /\ WorkIsOpen' /\ Queue!ReadyWasChunked'
  BY DEF IndexInv, MeetingsKnown, Holds, Queue!Live, WorkIsOpen, Queue!ReadyWasChunked
<1> QED BY <1>1, <1>2, <1>3, <1>4, <1>5 DEF IndexInv

\* A file seen before.
LEMMA PersistSeenKeeps ==
    ASSUME IndexSetting, IndexInv, NEW c \in Crawl, Queue!PersistSeen(c)
    PROVE  IndexInv'
<1> USE DEF Queue!PersistSeen, Queue!indexVars
<1>1. Queue!TypeOK'
  BY Counting DEF IndexInv, Queue!TypeOK, IndexSetting
<1>2. Shaped'
  BY Counting DEF IndexInv, Queue!TypeOK, Shaped, Queue!Live, Queue!NoVersion
<1>3. /\ WorkersSound' /\ MeetingsKnown' /\ WorkIsOpen'
      /\ BlankNotCompleted' /\ Repaired' /\ Queue!ReadyWasChunked'
  BY DEF IndexInv, WorkersSound, WorkerSound, MeetingsKnown, Holds, Queue!Live,
         WorkIsOpen, BlankNotCompleted, Repaired, Queue!ReadyWasChunked, WillRedo
<1> QED BY <1>1, <1>2, <1>3 DEF IndexInv

\* enqueue_rag_index_job: a COMPLETED job stays so, any other is PENDING.
LEMMA EnqueueKeeps ==
    ASSUME IndexSetting, IndexInv, NEW c \in Crawl, Queue!Enqueue(c)
    PROVE  IndexInv'
<1> DEFINE x == crawl[c].version
<1> USE DEF Queue!Enqueue, Queue!indexVars
<1>0. /\ x \in 0..latest /\ x \in Queue!Job /\ latest > 0
      /\ job'[x] = Queue!EnqueuedJob(job[x])
      /\ \A j \in Queue!Job \ {x} : job'[j] = job[j]
      /\ job' \in [Queue!Job -> Queue!JobStatus]
  BY Counting DEF IndexInv, Queue!TypeOK, Shaped, Queue!EnqueuedJob, Queue!JobStatus
<1>1. Queue!TypeOK'
  <2>1. doc' \in [version : 0..latest, status : Queue!DocStatus]
    BY <1>0 DEF IndexInv, Queue!TypeOK, Queue!EnqueuedDoc, Queue!DocStatus
  <2>2. crawl' \in [Crawl -> [at : {"idle", "persist", "enqueue"},
                           version : 0..latest]]
    BY Counting DEF IndexInv, Queue!TypeOK, Queue!NoVersion
  <2>3. \A v \in Queue!Version : v > latest => job'[v] = "NONE"
    <3> SUFFICES ASSUME NEW v \in Queue!Version, v > latest PROVE job'[v] = "NONE"
      OBVIOUS
    <3>1. v # x /\ v \in Queue!Job
      BY <1>0, Counting DEF Queue!Job, Queue!Version, IndexSetting, IndexInv
    <3>2. job[v] = "NONE"
      BY DEF IndexInv, Queue!TypeOK
    <3> QED BY <1>0, <3>1, <3>2
  <2> QED BY <1>0, <2>1, <2>2, <2>3 DEF IndexInv, Queue!TypeOK
<1>2. Shaped'
  BY <1>0 DEF IndexInv, Queue!TypeOK, Shaped, Queue!Live
<1>3. WorkersSound' /\ MeetingsKnown'
  BY DEF IndexInv, WorkersSound, WorkerSound, MeetingsKnown, Holds, Queue!Live
<1>4. WorkIsOpen'
  BY <1>0 DEF IndexInv, Queue!TypeOK, WorkIsOpen, OpenJob, Queue!EnqueuedJob, Queue!Live
<1>5. BlankNotCompleted'
  BY <1>0 DEF IndexInv, BlankNotCompleted, Queue!EnqueuedJob, Queue!Job
<1>6. Repaired'
  BY <1>0
     DEF IndexInv, Repaired, Queue!EnqueuedJob, OpenJob, Queue!Job, Queue!NoVersion, WillRedo,
         Queue!Live
<1>7. Queue!ReadyWasChunked'
  BY DEF IndexInv, Queue!ReadyWasChunked, Queue!EnqueuedDoc
<1> QED BY <1>1, <1>2, <1>3, <1>4, <1>5, <1>6, <1>7 DEF IndexInv

\* Session B is rolled back.
LEMMA LoseEnqueueKeeps ==
    ASSUME IndexSetting, IndexInv, NEW c \in Crawl, Queue!LoseEnqueue(c)
    PROVE  IndexInv'
<1> USE DEF Queue!LoseEnqueue, Queue!indexVars
<1>1. Queue!TypeOK'
  <2>1. /\ Queue!TypeOK /\ Queue!NoVersion = 0 /\ 0 \in 0..latest
    BY Counting DEF IndexInv, Queue!NoVersion
  <2>2. crawl' \in [Crawl -> [at : {"idle", "persist", "enqueue"}, version : 0..latest]]
    BY <2>1 DEF Queue!TypeOK
  <2>3. indexFaults' \in 0..MaxIndexFaults
    BY <2>1 DEF Queue!TypeOK, IndexSetting
  <2> QED BY <2>1, <2>2, <2>3 DEF Queue!TypeOK
<1>2. Shaped'
  BY DEF IndexInv, Queue!TypeOK, Shaped, Queue!Live
<1>3. /\ WorkersSound' /\ MeetingsKnown' /\ WorkIsOpen'
      /\ BlankNotCompleted' /\ Repaired' /\ Queue!ReadyWasChunked'
  BY DEF IndexInv, WorkersSound, WorkerSound, MeetingsKnown, Holds, Queue!Live,
         WorkIsOpen, BlankNotCompleted, Repaired, Queue!ReadyWasChunked, WillRedo
<1> QED BY <1>1, <1>2, <1>3 DEF IndexInv

\* A job in work grows stale.
LEMMA AgeKeeps ==
    ASSUME IndexSetting, IndexInv, NEW j \in Queue!Job, Queue!Age(j)
    PROVE  IndexInv'
<1> USE DEF Queue!Age, Queue!indexVars, Queue!crawlVars
<1>0. /\ job' \in [Queue!Job -> Queue!JobStatus] /\ job'[j] = "STALE"
      /\ \A i \in Queue!Job \ {j} : job'[i] = job[i]
  BY DEF IndexInv, Queue!TypeOK, Queue!JobStatus
<1>1. Queue!TypeOK'
  BY <1>0 DEF IndexInv, Queue!TypeOK, Queue!Job
<1>2. Shaped'
  BY <1>0 DEF IndexInv, Queue!TypeOK, Shaped, Queue!Live, Queue!Job
<1>3. WorkersSound' /\ MeetingsKnown' /\ Queue!ReadyWasChunked'
  BY DEF IndexInv, WorkersSound, WorkerSound, MeetingsKnown, Holds, Queue!Live,
         Queue!ReadyWasChunked
<1>4. WorkIsOpen'
  BY <1>0 DEF IndexInv, Queue!TypeOK, WorkIsOpen, OpenJob, Queue!Live
<1>5. BlankNotCompleted' /\ Repaired'
  BY <1>0
     DEF IndexInv, BlankNotCompleted, Repaired, OpenJob, Queue!Job, WillRedo, Queue!Live
<1> QED BY <1>1, <1>2, <1>3, <1>4, <1>5 DEF IndexInv

\* requeue_processing_jobs.
LEMMA RequeueKeeps ==
    ASSUME IndexSetting, IndexInv, Queue!Requeue
    PROVE  IndexInv'
<1> USE DEF Queue!Requeue, Queue!indexVars, Queue!crawlVars
<1>0. PICK back \in SUBSET {j \in Queue!Job : job[j] = "STALE"} :
          job' = [j \in Queue!Job |-> IF j \in back THEN "PENDING" ELSE job[j]]
  BY DEF Queue!Requeue
<1>a. /\ job' \in [Queue!Job -> Queue!JobStatus]
      /\ \A j \in Queue!Job : job'[j] = job[j] \/ (job[j] = "STALE" /\ job'[j] = "PENDING")
  BY <1>0 DEF IndexInv, Queue!TypeOK, Queue!JobStatus
<1>1. Queue!TypeOK'
  BY <1>a DEF IndexInv, Queue!TypeOK, Queue!Job
<1>2. Shaped'
  BY <1>a DEF IndexInv, Queue!TypeOK, Shaped, Queue!Live, Queue!Job
<1>3. WorkersSound' /\ MeetingsKnown' /\ Queue!ReadyWasChunked'
  BY DEF IndexInv, WorkersSound, WorkerSound, MeetingsKnown, Holds, Queue!Live,
         Queue!ReadyWasChunked
<1>4. WorkIsOpen'
  BY <1>a DEF IndexInv, Queue!TypeOK, WorkIsOpen, OpenJob, Queue!Live
<1>5. BlankNotCompleted' /\ Repaired'
  BY <1>a
     DEF IndexInv, BlankNotCompleted, Repaired, OpenJob, Queue!Job, WillRedo, Queue!Live
<1> QED BY <1>1, <1>2, <1>3, <1>4, <1>5 DEF IndexInv

\* The fields of what a worker holds.
LEMMA IndexerFields ==
    ASSUME IndexSetting, IndexInv, NEW w \in Indexer
    PROVE  /\ indexer[w].at \in Queue!Place /\ indexer[w].job \in Queue!Job
           /\ indexer[w].version \in 0..latest /\ indexer[w].outcome \in Queue!Outcome
           /\ indexer[w].version \in Queue!Job
           /\ indexer[w].job \in Nat /\ indexer[w].version \in Nat
<1>1. /\ indexer[w].at \in Queue!Place /\ indexer[w].job \in Queue!Job
      /\ indexer[w].version \in 0..latest /\ indexer[w].outcome \in Queue!Outcome
  BY DEF IndexInv, Queue!TypeOK
<1>2. Queue!TypeOK
  BY DEF IndexInv
<1> QED BY <1>1, <1>2, Counting DEF IndexSetting

\* w is now at a, with that job, version and outcome; the others stay.
Moves(w, a, j, v, o) ==
    /\ indexer' \in [Indexer -> Holding]
    /\ indexer'[w].at = a /\ indexer'[w].job = j /\ indexer'[w].version = v
    /\ indexer'[w].outcome = o
    /\ \A u \in Indexer \ {w} : indexer'[u] = indexer[u]

\* What replacing the record of one worker means.
LEMMA PutMoves ==
    ASSUME NEW w \in Indexer, indexer \in [Indexer -> Holding], NEW r \in Holding,
           indexer' = [indexer EXCEPT ![w] = r]
    PROVE  Moves(w, r.at, r.job, r.version, r.outcome)
BY DEF Moves

\* Whoever holds no more than before meets nobody.
LEMMA MeetsNobody ==
    ASSUME IndexInv, NEW w \in Indexer, shared' = shared,
           \A u \in Indexer \ {w} : indexer'[u] = indexer[u],
           Holds(w)' \subseteq Holds(w)
    PROVE  MeetingsKnown'
BY DEF IndexInv, MeetingsKnown, Holds, Queue!Live

\* A step that may bring a worker to others puts whom it meets on record.
LEMMA MeetsOnRecord ==
    ASSUME IndexSetting, Queue!TypeOK, indexer' \in [Indexer -> Holding],
           shared' = shared \cup Queue!Meeting
    PROVE  MeetingsKnown' /\ shared' \subseteq Queue!Job
<1>1. \A u \in Indexer : Holds(u)' \subseteq Queue!Job
  BY Counting DEF Holds, Queue!Live, Holding
<1>2. shared' \subseteq Queue!Job
  BY DEF Queue!TypeOK, Queue!Meeting
<1>3. MeetingsKnown'
  BY <1>1 DEF MeetingsKnown, Holds, Queue!Live, Queue!Meeting
<1> QED BY <1>2, <1>3

-----------------------------------------------------------------------------
(* The steps of indexing workers.                                          *)

\* _claim_jobs: a claimed job has no outcome that counts.
LEMMA ClaimKeeps ==
    ASSUME IndexSetting, IndexInv, NEW w \in Indexer, NEW j \in Queue!Job, Queue!Claim(w, j)
    PROVE  IndexInv'
<1> USE DEF Queue!Claim, Queue!indexVars, Queue!crawlVars
<1>0. /\ job' \in [Queue!Job -> Queue!JobStatus] /\ job'[j] = "PROCESSING"
      /\ \A i \in Queue!Job \ {j} : job'[i] = job[i]
      /\ job[j] \in {"PENDING", "STALE", "FAILED"}
  BY DEF IndexInv, Queue!TypeOK, Queue!JobStatus, Queue!Claimable
<1>b. latest > 0 /\ j \in 0..latest
  <2>1. Queue!TypeOK /\ Shaped
    BY DEF IndexInv
  <2>2. j = Queue!NoVersion \/ (j \in Queue!Version /\ ~(j > latest))
    BY <1>0, <2>1 DEF Queue!TypeOK, Queue!Job
  <2> QED BY <1>0, <2>1, <2>2, Counting DEF Shaped, Queue!Version, IndexSetting, Queue!NoVersion
<1>a. Moves(w, "load", j, j, "FAILED")
  BY <1>b DEF IndexInv, Queue!TypeOK, Holding, Moves, Queue!Idle, Queue!Place, Queue!Outcome
<1>1. Queue!TypeOK'
  <2>1. \A v \in Queue!Version : v > latest => job'[v] = "NONE"
    BY <1>0 DEF IndexInv, Queue!TypeOK, Queue!Job
  <2>2. shared' \subseteq Queue!Job
    BY <1>a, MeetsOnRecord DEF IndexInv, Moves
  <2> QED BY <1>0, <1>a, <2>1, <2>2 DEF IndexInv, Queue!TypeOK, Holding, Moves
<1>2. Shaped'
  BY <1>0, <1>a, <1>b DEF IndexInv, Shaped, Queue!Live, Moves, Queue!TypeOK
<1>3. WorkersSound'
  BY <1>a DEF IndexInv, WorkersSound, WorkerSound, Moves, AtWork
<1>4. MeetingsKnown'
  BY <1>a, MeetsOnRecord DEF IndexInv, Moves
<1>5. WorkIsOpen'
  BY <1>0, <1>a, IndexerFields DEF IndexInv, WorkIsOpen, OpenJob, Queue!Live, Moves
<1>6. BlankNotCompleted'
  BY <1>0 DEF IndexInv, BlankNotCompleted, Queue!Job
<1>7. Repaired'
  BY <1>0, <1>a DEF IndexInv, Repaired, OpenJob, Queue!Job, WillRedo, Queue!Live, Moves
<1>8. Queue!ReadyWasChunked'
  BY DEF IndexInv, Queue!ReadyWasChunked
<1> QED BY <1>1, <1>2, <1>3, <1>4, <1>5, <1>6, <1>7, <1>8 DEF IndexInv

\* The text is loaded: the job without a version takes the latest one.
LEMMA LoadKeeps ==
    ASSUME IndexSetting, IndexInv, NEW w \in Indexer, Queue!Load(w)
    PROVE  IndexInv'
<1> DEFINE j == indexer[w].job
           v == IF j = Queue!NoVersion THEN latest ELSE j
<1> USE DEF Queue!Load, Queue!indexVars, Queue!crawlVars
<1>b. /\ latest > 0 /\ j \in 0..latest /\ v \in 1..latest
      /\ indexer[w].outcome = "FAILED"
  <2>1. Queue!TypeOK /\ latest > 0 /\ j <= latest
    BY DEF IndexInv, Shaped, Queue!Live
  <2>2. indexer[w].outcome = "FAILED"
    BY DEF IndexInv, WorkersSound, WorkerSound
  <2>3. j \in Nat
    BY IndexerFields
  <2> QED BY <2>1, <2>2, <2>3, Counting DEF Queue!NoVersion
<1>c. \/ v \in blank /\ Moves(w, "status", j, indexer[w].version, "SKIPPED")
      \/ v \notin blank /\ Moves(w, "replace", j, v, "FAILED")
  <2>1. indexer \in [Indexer -> Holding]
    BY DEF IndexInv, Queue!TypeOK, Holding
  <2>2. v \in 0..latest
    BY <1>b, Counting DEF IndexInv
  <2>3. CASE v \in blank
    <3>1. indexer' = [indexer EXCEPT ![w] =
                       [@ EXCEPT !.at = "status", !.outcome = "SKIPPED"]]
      BY <2>3
    <3> DEFINE r == [indexer[w] EXCEPT !.at = "status", !.outcome = "SKIPPED"]
    <3>2. /\ r \in Holding
          /\ r.at = "status" /\ r.job = j
          /\ r.version = indexer[w].version /\ r.outcome = "SKIPPED"
      BY <2>1 DEF Holding, Queue!Place, Queue!Outcome
    <3>3. indexer' = [indexer EXCEPT ![w] = r]
      BY <3>1
    <3> HIDE DEF r
    <3>4. Moves(w, "status", j, indexer[w].version, "SKIPPED")
      BY ONLY <2>1, <3>2, <3>3, PutMoves
    <3> QED BY <2>3, <3>4
  <2>4. CASE v \notin blank
    <3>1. indexer' = [indexer EXCEPT ![w] =
                       [@ EXCEPT !.at = "replace", !.version = v]]
      BY <2>4
    <3> HIDE DEF v
    <3> DEFINE r == [indexer[w] EXCEPT !.at = "replace", !.version = v]
    <3>2. /\ r \in Holding
          /\ r.at = "replace" /\ r.job = j /\ r.version = v /\ r.outcome = "FAILED"
      BY <1>b, <2>1, <2>2 DEF Holding, Queue!Place
    <3>3. indexer' = [indexer EXCEPT ![w] = r]
      BY <3>1
    <3> HIDE DEF r
    <3>4. Moves(w, "replace", j, v, "FAILED")
      BY ONLY <2>1, <3>2, <3>3, PutMoves
    <3> QED BY <2>4, <3>4
  <2> QED BY <2>3, <2>4
<1>d. v \in Queue!Version /\ (j # Queue!NoVersion => indexer[w].version = j)
  <2>1. v \in Queue!Version
    BY <1>b, Counting DEF Queue!Version, IndexSetting, IndexInv
  <2> QED BY <2>1 DEF IndexInv, WorkersSound, WorkerSound
<1>1. Queue!TypeOK'
  <2>2. shared' \subseteq Queue!Job
    BY <1>c, MeetsOnRecord DEF IndexInv, Moves
  <2> QED BY <1>c, <2>2 DEF IndexInv, Queue!TypeOK, Holding, Moves
<1>2. Shaped'
  BY <1>c, <1>b DEF IndexInv, Shaped, Queue!Live, Moves
<1>3. WorkersSound'
  <2>2. indexer[w].version = j
    BY DEF IndexInv, WorkersSound, WorkerSound
  <2> QED BY <1>b, <1>c, <2>2
    DEF IndexInv, WorkersSound, WorkerSound, Moves, AtWork, Queue!NoVersion
<1>4. MeetingsKnown'
  BY <1>c, MeetsOnRecord DEF IndexInv, Moves
<1>5. WorkIsOpen'
  BY <1>c, IndexerFields DEF IndexInv, WorkIsOpen, OpenJob, Queue!Live, Moves
<1>6. BlankNotCompleted' /\ Queue!ReadyWasChunked'
  BY DEF IndexInv, BlankNotCompleted, Queue!ReadyWasChunked
<1>7. Repaired'
  BY <1>c, <1>d
     DEF IndexInv, Repaired, BlankNotCompleted, OpenJob, Queue!Job, WillRedo, Queue!Live,
         Moves
<1> QED BY <1>1, <1>2, <1>3, <1>4, <1>5, <1>6, <1>7 DEF IndexInv

\* _replace_chunks: only the job without a version can delete the index of a
\* COMPLETED one, and then its worker stands at that version.
LEMMA ReplaceKeeps ==
    ASSUME IndexSetting, IndexInv, NEW w \in Indexer, Queue!Replace(w)
    PROVE  IndexInv'
<1> DEFINE x == indexer[w].version
<1> USE DEF Queue!Replace, Queue!WorkerAt, Queue!indexVars, Queue!crawlVars
<1>b. /\ x \in Queue!Version /\ x \in 1..latest /\ x \notin blank
      /\ indexer[w].outcome = "FAILED"
      /\ (indexer[w].job # Queue!NoVersion => x = indexer[w].job) /\ Queue!Live(w)
  BY IndexerFields, Counting
     DEF IndexInv, WorkersSound, WorkerSound, AtWork, Queue!NoVersion, Queue!Version,
         IndexSetting, Queue!Live
<1>c. Moves(w, "chunked", indexer[w].job, x, "FAILED")
  BY <1>b DEF IndexInv, Queue!TypeOK, Holding, Moves, Queue!Place
<1>d. chunks' \in [Queue!Version -> Indexer \cup {Queue!NoWorker}] /\ chunks'[x] = w
      /\ \A v \in Queue!Version \ {x} : chunks'[v] = chunks[v]
  BY <1>b DEF IndexInv, Queue!TypeOK
<1>1. Queue!TypeOK'
  <2>1. embedded' \subseteq {v \in 1..latest : chunks'[v] # Queue!NoWorker}
    BY <1>d, Counting DEF IndexInv, Queue!TypeOK, Queue!Version, IndexSetting
  <2> QED BY <1>c, <1>d, <2>1 DEF IndexInv, Queue!TypeOK, Holding, Moves
<1>2. Shaped'
  BY <1>c DEF IndexInv, Shaped, Queue!Live, Moves
<1>e. \A u \in Indexer \ {w} :
         indexer[u].outcome = "RAG_READY" /\ indexer[u].version = x
           => x \in shared
  BY <1>b DEF IndexInv, MeetingsKnown, Holds, Queue!Live, WorkersSound, WorkerSound
<1>3. WorkersSound'
  <2>1. \A u \in Indexer : indexer[u].outcome = "RAG_READY" =>
           indexer[u].version \in Queue!Version
    BY IndexerFields, Counting
       DEF IndexInv, WorkersSound, WorkerSound, Queue!Version, Queue!NoVersion, IndexSetting
  <2>2. \A u \in Indexer : indexer[u].outcome = "RAG_READY" =>
           chunks'[indexer[u].version] # Queue!NoWorker
    BY <1>d, <2>1 DEF IndexInv, WorkersSound, WorkerSound, IndexSetting
  <2>3. \A u \in Indexer \ {w} : indexer[u].outcome = "RAG_READY" =>
           indexer[u].version \in shared \/ indexer[u].version \in embedded'
    BY <1>e DEF IndexInv, WorkersSound, WorkerSound
  <2> QED BY <1>b, <1>c, <2>2, <2>3
    DEF IndexInv, WorkersSound, WorkerSound, Moves, AtWork, Queue!NoVersion
<1>4. MeetingsKnown'
  BY <1>b, <1>c, MeetsNobody DEF Moves, Holds, Queue!Live
<1>5. WorkIsOpen'
  BY <1>c, <1>b, IndexerFields DEF IndexInv, WorkIsOpen, OpenJob, Queue!Live, Moves
<1>6. BlankNotCompleted'
  BY DEF IndexInv, BlankNotCompleted
<1>7. Repaired'
  <2> SUFFICES ASSUME NEW v \in Queue!Version, job[v] = "COMPLETED",
                      v \notin shared, Queue!NoVersion \notin shared,
                      job[Queue!NoVersion] = "NONE" \/ v = latest, v \notin embedded'
               PROVE  /\ job[Queue!NoVersion] \in OpenJob \cup {"FAILED"}
                      /\ \A u \in Indexer :
                            Queue!Live(u)' /\ indexer'[u].job = Queue!NoVersion
                              => WillRedo(u, v)'
    BY DEF Repaired
  <2>1. CASE x # v
    BY <2>1, <1>c DEF IndexInv, Repaired, WillRedo, Queue!Live, Moves
  <2>2. CASE x = v
    <3>1. indexer[w].job = Queue!NoVersion /\ job[Queue!NoVersion] \in OpenJob
      BY <1>b, <2>2 DEF IndexInv, WorkIsOpen, OpenJob
    <3>2. \A u \in Indexer \ {w} : Queue!Live(u) => indexer[u].job # Queue!NoVersion
      BY <3>1, <1>b DEF IndexInv, MeetingsKnown, Holds
    <3> QED BY <3>1, <3>2, <1>c, <2>2 DEF WillRedo, Queue!Live, Moves
  <2> QED BY <2>1, <2>2
<1>8. Queue!ReadyWasChunked'
  BY <1>d DEF IndexInv, Queue!ReadyWasChunked, IndexSetting
<1> QED BY <1>1, <1>2, <1>3, <1>4, <1>5, <1>6, <1>7, <1>8 DEF IndexInv

\* The three updates of document_rag_status.
LEMMA UpdateStatusKeeps ==
    ASSUME IndexSetting, IndexInv, NEW w \in Indexer, NEW at,
           NEW status \in Queue!DocStatus, NEW next,
           Queue!UpdateStatus(w, at, status, next),
           \/ at = "chunked" /\ status = "CHUNKED" /\ next = "embedding"
           \/ at = "embedding" /\ status = "EMBEDDING" /\ next = "upsert"
           \/ at = "status" /\ status = indexer[w].outcome /\ next = "job"
    PROVE  IndexInv'
<1> DEFINE x == indexer[w].version
           o == indexer[w].outcome
<1> USE DEF Queue!UpdateStatus, Queue!WorkerAt, Queue!indexVars, Queue!crawlVars
<1>b. Queue!Live(w) /\ next # "idle" /\ next # "load"
  BY DEF Queue!Live
<1>c. Moves(w, next, indexer[w].job, x, o)
  BY DEF IndexInv, Queue!TypeOK, Holding, Moves, Queue!Place
<1>d. doc'.version = x /\ doc'.status = status
  OBVIOUS
<1>1. Queue!TypeOK'
  <2>1. doc' \in [version : 0..latest, status : Queue!DocStatus]
    BY IndexerFields
  <2> QED BY <1>c, <2>1 DEF IndexInv, Queue!TypeOK, Holding, Moves
<1>2. Shaped'
  BY <1>b, <1>c DEF IndexInv, Shaped, Queue!Live, Moves
<1>3. WorkersSound'
  BY <1>c DEF IndexInv, WorkersSound, WorkerSound, Moves, AtWork
<1>4. MeetingsKnown'
  BY <1>b, <1>c, MeetsNobody DEF Moves, Holds, Queue!Live
<1>5. WorkIsOpen'
  BY <1>b, <1>c DEF IndexInv, WorkIsOpen, Queue!Live, Moves
<1>6. BlankNotCompleted'
  BY DEF IndexInv, BlankNotCompleted
<1>7. Repaired'
  BY <1>b, <1>c DEF IndexInv, Repaired, WillRedo, Queue!Live, Moves
<1>8. Queue!ReadyWasChunked'
  <2> SUFFICES ASSUME status = "RAG_READY"
               PROVE  x \in Queue!Version /\ chunks[x] # Queue!NoWorker
    BY <1>d DEF Queue!ReadyWasChunked
  <2>1. x # Queue!NoVersion /\ chunks[x] # Queue!NoWorker
    BY DEF IndexInv, WorkersSound, WorkerSound
  <2>2. x \in Queue!Job
    BY IndexerFields
  <2> QED BY <2>1, <2>2 DEF Queue!Job
<1> QED BY <1>1, <1>2, <1>3, <1>4, <1>5, <1>6, <1>7, <1>8 DEF IndexInv

\* Embeddings are stored, or the insert raises.
LEMMA EmbedKeeps ==
    ASSUME IndexSetting, IndexInv, NEW w \in Indexer, Queue!Embed(w)
    PROVE  IndexInv'
<1> DEFINE x == indexer[w].version
           j == indexer[w].job
<1> USE DEF Queue!Embed, Queue!indexVars, Queue!crawlVars
<1>b. /\ x \in Queue!Version /\ x \in 1..latest /\ x \notin blank
      /\ indexer[w].outcome = "FAILED" /\ Queue!Live(w)
  <2>1. x # Queue!NoVersion /\ x \notin blank /\ indexer[w].outcome = "FAILED"
    BY DEF IndexInv, WorkersSound, WorkerSound, AtWork
  <2>2. x \in 0..latest /\ x \in Queue!Job
    BY IndexerFields
  <2>3. x \in 1..latest
    BY <2>1, <2>2, Counting DEF IndexInv, Queue!NoVersion
  <2> QED BY <2>1, <2>2, <2>3 DEF Queue!Job, Queue!Live
<1>c. \/ /\ chunks[x] = w /\ embedded' = embedded \cup {x}
         /\ Moves(w, "status", j, x, "RAG_READY")
      \/ embedded' = embedded /\ Moves(w, "status", j, j, "FAILED")
  <2>1. j \in 0..latest
    BY <1>b, IndexerFields, Counting DEF IndexInv, Shaped
  <2> QED BY <1>b, <2>1 DEF IndexInv, Queue!TypeOK, Holding, Moves, Queue!Place, Queue!Outcome
<1>d. w # Queue!NoWorker
  BY DEF IndexSetting
<1>1. Queue!TypeOK'
  BY <1>b, <1>c, <1>d DEF IndexInv, Queue!TypeOK, Holding, Moves
<1>2. Shaped'
  BY <1>b, <1>c DEF IndexInv, Shaped, Queue!Live, Moves
<1>3. WorkersSound'
  BY <1>b, <1>c, <1>d
     DEF IndexInv, WorkersSound, WorkerSound, Moves, AtWork, Queue!NoVersion
<1>4. MeetingsKnown'
  BY <1>b, <1>c, MeetsNobody DEF Moves, Holds, Queue!Live
<1>5. WorkIsOpen'
  BY <1>b, <1>c DEF IndexInv, WorkIsOpen, Queue!Live, Moves
<1>6. BlankNotCompleted' /\ Queue!ReadyWasChunked'
  BY DEF IndexInv, BlankNotCompleted, Queue!ReadyWasChunked
<1>7. Repaired'
  BY <1>b, <1>c DEF IndexInv, Repaired, WillRedo, Queue!Live, Moves
<1> QED BY <1>1, <1>2, <1>3, <1>4, <1>5, <1>6, <1>7 DEF IndexInv

\* The outcome of a job is recorded.  For the job without a version this is where
\* Repaired is needed: whoever records COMPLETED or SKIPPED has not left a gap.
LEMMA RecordJobKeeps ==
    ASSUME IndexSetting, IndexInv, NEW w \in Indexer, Queue!RecordJob(w)
    PROVE  IndexInv'
<1> DEFINE x == indexer[w].version
           j == indexer[w].job
           o == indexer[w].outcome
<1> USE DEF Queue!RecordJob, Queue!indexVars, Queue!crawlVars
<1>b. /\ j \in Queue!Job /\ o \in Queue!Outcome /\ Queue!Live(w)
      /\ latest > 0 /\ j \in Nat /\ j <= latest
  BY IndexerFields DEF Queue!Live, IndexInv, Shaped
<1>c. Moves(w, "idle", Queue!NoVersion, Queue!NoVersion, "FAILED")
  BY Counting
     DEF IndexInv, Queue!TypeOK, Holding, Moves, Queue!Place, Queue!Outcome, Queue!Idle,
         Queue!Job, Queue!NoVersion
<1>d. /\ job' \in [Queue!Job -> Queue!JobStatus] /\ job'[j] = Queue!JobStatusOf(o)
      /\ job'[j] \in {"COMPLETED", "FAILED", "SKIPPED"}
      /\ \A i \in Queue!Job \ {j} : job'[i] = job[i]
  BY <1>b DEF IndexInv, Queue!TypeOK, Queue!JobStatusOf, Queue!Outcome, Queue!JobStatus
<1>e. job'[j] = "COMPLETED" =>
         /\ o = "RAG_READY" /\ x # Queue!NoVersion /\ x \notin blank
         /\ x \in shared \/ x \in embedded
  BY <1>b, <1>d DEF IndexInv, WorkersSound, WorkerSound, Queue!JobStatusOf, Queue!Outcome
<1>f. \A u \in Indexer \ {w} : Queue!Live(u) /\ indexer[u].job = j => j \in shared
  BY <1>b DEF IndexInv, MeetingsKnown, Holds
<1>g. j # Queue!NoVersion => x = j
  BY DEF IndexInv, WorkersSound, WorkerSound
<1>1. Queue!TypeOK'
  <2>1. \A v \in Queue!Version : v > latest => job'[v] = "NONE"
    <3> SUFFICES ASSUME NEW v \in Queue!Version, v > latest PROVE job'[v] = "NONE"
      OBVIOUS
    <3>1. v # j /\ v \in Queue!Job
      BY <1>b, Counting DEF Queue!Job, Queue!Version, IndexSetting, IndexInv
    <3>2. job[v] = "NONE"
      BY DEF IndexInv, Queue!TypeOK
    <3> QED BY <1>d, <3>1, <3>2
  <2> QED BY <1>c, <1>d, <2>1 DEF IndexInv, Queue!TypeOK, Holding, Moves
<1>2. Shaped'
  BY <1>b, <1>c DEF IndexInv, Shaped, Queue!Live, Moves
<1>3. WorkersSound'
  BY <1>c DEF IndexInv, WorkersSound, WorkerSound, Moves, AtWork
<1>4. MeetingsKnown'
  BY <1>b, <1>c, MeetsNobody DEF Moves, Holds, Queue!Live
<1>5. WorkIsOpen'
  <2> SUFFICES ASSUME NEW u \in Indexer, Queue!Live(u)'
               PROVE  job'[indexer[u].job] \in OpenJob \/ indexer[u].job \in shared
    BY <1>c DEF WorkIsOpen, Moves, Queue!Live
  <2>1. u # w /\ Queue!Live(u) /\ indexer[u].job \in Queue!Job
    BY <1>c, IndexerFields DEF Moves, Queue!Live
  <2> QED BY <1>d, <1>f, <2>1 DEF IndexInv, WorkIsOpen
<1>6. BlankNotCompleted'
  <2> SUFFICES ASSUME NEW v \in Queue!Version, v \in blank PROVE job'[v] # "COMPLETED"
    BY DEF BlankNotCompleted
  <2>1. v # Queue!NoVersion /\ v \in Queue!Job
    BY DEF Queue!Version, Queue!NoVersion, Queue!Job, IndexSetting
  <2> QED BY <1>d, <1>e, <1>g, <2>1 DEF IndexInv, BlankNotCompleted
<1>7. Repaired'
  <2> SUFFICES ASSUME NEW v \in Queue!Version, job'[v] = "COMPLETED",
                      v \notin shared, Queue!NoVersion \notin shared,
                      job'[Queue!NoVersion] = "NONE" \/ v = latest, v \notin embedded
               PROVE  /\ job'[Queue!NoVersion] \in OpenJob \cup {"FAILED"}
                      /\ \A u \in Indexer :
                            Queue!Live(u)' /\ indexer'[u].job = Queue!NoVersion
                              => WillRedo(u, v)'
    BY DEF Repaired
  <2>1. v # Queue!NoVersion /\ v \in Queue!Job /\ Queue!NoVersion \in Queue!Job
    BY DEF Queue!Version, Queue!NoVersion, Queue!Job, IndexSetting
  <2>2. j # v
    BY <1>e, <1>g, <2>1
  <2>3. job[v] = "COMPLETED"
    BY <1>d, <2>1, <2>2
  <2>4. CASE j # Queue!NoVersion
    BY <1>c, <1>d, <2>1, <2>3, <2>4
       DEF IndexInv, Repaired, WillRedo, Queue!Live, Moves
  <2>5. CASE j = Queue!NoVersion
    <3>1. v = latest
      BY <1>d, <2>5
    <3>2. WillRedo(w, v)
      BY <1>b, <2>3, <2>5, <3>1 DEF IndexInv, Repaired
    <3>3. o # "RAG_READY"
      BY <3>2 DEF IndexInv, WorkersSound, WorkerSound, WillRedo
    <3>4. o # "SKIPPED"
      BY <3>2, <2>5, <2>1 DEF IndexInv, WorkersSound, WorkerSound, WillRedo
    <3>5. job'[Queue!NoVersion] = "FAILED"
      BY <1>b, <1>d, <2>5, <3>3, <3>4 DEF Queue!Outcome, Queue!JobStatusOf
    <3>6. \A u \in Indexer : ~(Queue!Live(u)' /\ indexer'[u].job = Queue!NoVersion)
      BY <1>c, <1>f, <2>5 DEF Moves, Queue!Live
    <3> QED BY <3>5, <3>6
  <2> QED BY <2>4, <2>5
<1>8. Queue!ReadyWasChunked'
  BY DEF IndexInv, Queue!ReadyWasChunked
<1> QED BY <1>1, <1>2, <1>3, <1>4, <1>5, <1>6, <1>7, <1>8 DEF IndexInv

\* A failure is on its way to be recorded.
LEMMA RaiseKeeps ==
    ASSUME IndexSetting, IndexInv, NEW w \in Indexer, Queue!Raise(w)
    PROVE  IndexInv'
<1> USE DEF Queue!Raise, Queue!indexVars, Queue!crawlVars
<1>b. indexer[w].job \in Nat /\ indexer[w].job <= latest /\ indexer[w].job \in 0..latest
  BY IndexerFields, Counting DEF IndexInv, Shaped
<1>c. Moves(w, "status", indexer[w].job, indexer[w].job, "FAILED")
  <2>1. indexer \in [Indexer -> Holding]
    BY DEF IndexInv, Queue!TypeOK, Holding
  <2> DEFINE r == [indexer[w] EXCEPT !.at = "status", !.outcome = "FAILED",
                                    !.version = indexer[w].job]
  <2>2. /\ r \in Holding
        /\ r.at = "status" /\ r.job = indexer[w].job /\ r.version = indexer[w].job
        /\ r.outcome = "FAILED"
    BY <1>b, <2>1 DEF Holding, Queue!Place, Queue!Outcome
  <2>3. indexer' = [indexer EXCEPT ![w] = r]
    OBVIOUS
  <2> HIDE DEF r
  <2>4. Moves(w, r.at, r.job, r.version, r.outcome)
    BY ONLY <2>1, <2>2, <2>3, PutMoves
  <2> QED BY ONLY <2>2, <2>4
<1>1. Queue!TypeOK'
  BY <1>c DEF IndexInv, Queue!TypeOK, Holding, Moves, IndexSetting
<1>2. Shaped'
  BY <1>c DEF IndexInv, Shaped, Queue!Live, Moves
<1>3. WorkersSound'
  BY <1>c DEF IndexInv, WorkersSound, WorkerSound, Moves, AtWork
<1>4. MeetingsKnown'
  BY <1>c, MeetsNobody DEF Moves, Holds, Queue!Live
<1>5. WorkIsOpen'
  BY <1>c DEF IndexInv, WorkIsOpen, Queue!Live, Moves
<1>6. BlankNotCompleted' /\ Queue!ReadyWasChunked'
  BY DEF IndexInv, BlankNotCompleted, Queue!ReadyWasChunked
<1>7. Repaired'
  BY <1>c DEF IndexInv, Repaired, WillRedo, Queue!Live, Moves
<1> QED BY <1>1, <1>2, <1>3, <1>4, <1>5, <1>6, <1>7 DEF IndexInv

\* A worker is killed; its job stays open.
LEMMA CrashKeeps ==
    ASSUME IndexSetting, IndexInv, NEW w \in Indexer, Queue!Crash(w)
    PROVE  IndexInv'
<1> USE DEF Queue!Crash, Queue!indexVars, Queue!crawlVars
<1>c. Moves(w, "idle", Queue!NoVersion, Queue!NoVersion, "FAILED")
  BY Counting
     DEF IndexInv, Queue!TypeOK, Holding, Moves, Queue!Place, Queue!Outcome, Queue!Idle,
         Queue!Job, Queue!NoVersion
<1>1. Queue!TypeOK'
  BY <1>c DEF IndexInv, Queue!TypeOK, Holding, Moves, IndexSetting
<1>2. Shaped'
  BY <1>c DEF IndexInv, Shaped, Queue!Live, Moves
<1>3. WorkersSound'
  BY <1>c DEF IndexInv, WorkersSound, WorkerSound, Moves, AtWork
<1>4. MeetingsKnown'
  BY <1>c, MeetsNobody DEF Moves, Holds, Queue!Live
<1>5. WorkIsOpen'
  BY <1>c DEF IndexInv, WorkIsOpen, Queue!Live, Moves
<1>6. BlankNotCompleted' /\ Queue!ReadyWasChunked'
  BY DEF IndexInv, BlankNotCompleted, Queue!ReadyWasChunked
<1>7. Repaired'
  BY <1>c DEF IndexInv, Repaired, WillRedo, Queue!Live, Moves
<1> QED BY <1>1, <1>2, <1>3, <1>4, <1>5, <1>6, <1>7 DEF IndexInv

-----------------------------------------------------------------------------
\* Nothing happens.
LEMMA StutterKeeps ==
    ASSUME IndexInv, UNCHANGED Queue!vars
    PROVE  IndexInv'
BY DEF Queue!vars, Queue!crawlVars, Queue!indexVars, IndexInv, Queue!TypeOK, Shaped, WorkersSound,
       WorkerSound, MeetingsKnown, Holds, Queue!Live,
   WorkIsOpen, BlankNotCompleted, Repaired, WillRedo, Queue!ReadyWasChunked

\* Every step keeps the invariant.
LEMMA IndexStep ==
    ASSUME IndexSetting, IndexInv, [Queue!Next]_(Queue!vars)
    PROVE  IndexInv'
<1>1. CASE \E c \in Crawl : Queue!Crawling(c)
  BY <1>1, ReadLatestKeeps, PersistNewKeeps, PersistSeenKeeps, EnqueueKeeps, LoseEnqueueKeeps
     DEF Queue!Crawling
<1>2. ASSUME NEW w \in Indexer, Queue!Work(w) PROVE IndexInv'
  <2>1. {"CHUNKED", "EMBEDDING", indexer[w].outcome} \subseteq Queue!DocStatus
    BY IndexerFields DEF Queue!DocStatus, Queue!Outcome
  <2>2. CASE Queue!UpdateStatus(w, "chunked", "CHUNKED", "embedding")
    BY <2>1, <2>2, UpdateStatusKeeps
  <2>3. CASE Queue!UpdateStatus(w, "embedding", "EMBEDDING", "upsert")
    BY <2>1, <2>3, UpdateStatusKeeps
  <2>4. CASE Queue!RecordStatus(w)
    BY <2>1, <2>4, UpdateStatusKeeps DEF Queue!RecordStatus
  <2> QED BY <1>2, <2>2, <2>3, <2>4, LoadKeeps, ReplaceKeeps, EmbedKeeps, RecordJobKeeps
    DEF Queue!Work
<1>3. CASE \E w \in Indexer : Queue!Raise(w) \/ Queue!Crash(w)
  BY <1>3, RaiseKeeps, CrashKeeps
<1>4. CASE \E w \in Indexer, j \in Queue!Job : Queue!Claim(w, j)
  BY <1>4, ClaimKeeps
<1>5. CASE (\E j \in Queue!Job : Queue!Age(j)) \/ Queue!Requeue
  BY <1>5, AgeKeeps, RequeueKeeps
<1>6. CASE UNCHANGED Queue!vars
  BY <1>6, StutterKeeps
<1> QED BY <1>1, <1>2, <1>3, <1>4, <1>5, <1>6 DEF Queue!Next

\* The inductive invariant holds of the queue, the crawls and the workers of
\* rag/indexing.py.
THEOREM IndexInvHolds ==
    ASSUME IndexSetting
    PROVE  Queue!Spec => []IndexInv
<1>1. Queue!Init => IndexInv
  BY IndexInit
<1>2. IndexInv /\ [Queue!Next]_(Queue!vars) => IndexInv'
  BY IndexStep
<1> QED BY <1>1, <1>2, PTL DEF Queue!Spec

\* When all work is done, a version whose job is COMPLETED and at which no two live
\* workers met has its embeddings, and RAG_READY names a version with chunks
\* (_replace_chunks, _update_status).
LEMMA TruthfulIndex ==
    ASSUME IndexSetting
    PROVE  Queue!Spec => []Queue!IndexIsTruthful
<1>1. IndexInv => Queue!IndexIsTruthful
  <2> SUFFICES ASSUME IndexInv, Queue!Quiet, NEW v \in Queue!Version,
                      job[v] = "COMPLETED", Queue!Undisturbed(v)
               PROVE  v \in embedded
    BY DEF IndexInv, Queue!IndexIsTruthful, Queue!CompletedIsSearchable
  <2>1. job[Queue!NoVersion] \in {"NONE", "COMPLETED", "SKIPPED"}
    BY DEF Queue!Quiet, Queue!Job
  <2> QED BY <2>1 DEF IndexInv, Repaired, Queue!Undisturbed, OpenJob
<1> QED BY <1>1, IndexInvHolds, PTL

\* Nothing but a second worker at the job records another outcome for it.
LEMMA OnlyAMeetingUndoes ==
    ASSUME IndexSetting, IndexInv, [Queue!Next]_(Queue!vars), NEW j \in Queue!Job,
           job[j] = "COMPLETED", job'[j] # "COMPLETED"
    PROVE  job'[j] \in {"FAILED", "SKIPPED"} /\ j \in shared
<1>0. job \in [Queue!Job -> Queue!JobStatus]
  BY DEF IndexInv, Queue!TypeOK
<1>1. CASE \E c \in Crawl : Queue!Enqueue(c)
  BY <1>0, <1>1 DEF Queue!Enqueue, Queue!EnqueuedJob
<1>2. ASSUME NEW w \in Indexer, Queue!RecordJob(w)
      PROVE  job'[j] \in {"FAILED", "SKIPPED"} /\ j \in shared
  <2>1. j = indexer[w].job /\ Queue!Live(w)
    BY <1>0, <1>2, IndexerFields DEF Queue!RecordJob, Queue!Live
  <2>2. j \in shared
    BY <2>1 DEF IndexInv, WorkIsOpen, OpenJob
  <2>3. job'[j] = Queue!JobStatusOf(indexer[w].outcome)
    BY <1>0, <1>2, <2>1 DEF Queue!RecordJob
  <2> QED BY <2>2, <2>3, IndexerFields DEF Queue!JobStatusOf, Queue!Outcome
<1>3. CASE \E w \in Indexer, i \in Queue!Job : Queue!Claim(w, i)
  BY <1>0, <1>3 DEF Queue!Claim, Queue!Claimable
<1>4. CASE \E i \in Queue!Job : Queue!Age(i)
  BY <1>0, <1>4 DEF Queue!Age
<1>5. CASE Queue!Requeue
  BY <1>0, <1>5 DEF Queue!Requeue
<1>6. CASE UNCHANGED job
  BY <1>6
<1>7. \/ \E c \in Crawl : Queue!Enqueue(c)
      \/ \E w \in Indexer : Queue!RecordJob(w)
      \/ \E w \in Indexer, i \in Queue!Job : Queue!Claim(w, i)
      \/ \E i \in Queue!Job : Queue!Age(i)
      \/ Queue!Requeue
      \/ UNCHANGED job
  BY DEF Queue!Next, Queue!vars, Queue!crawlVars, Queue!indexVars, Queue!Crawling, Queue!Work,
         Queue!ReadLatest, Queue!PersistNew, Queue!PersistSeen, Queue!LoseEnqueue, Queue!Load,
         Queue!Replace, Queue!UpdateStatus, Queue!Embed, Queue!RecordStatus, Queue!Raise,
         Queue!Crash
<1> QED BY <1>1, <1>2, <1>3, <1>4, <1>5, <1>6, <1>7

\* A COMPLETED job is undone only by the outcome of a second worker that was at it
\* while the first was: neither enqueue_rag_index_job nor a claim nor the requeue of
\* stale jobs touches it.
LEMMA CompletedStays ==
    ASSUME IndexSetting
    PROVE  Queue!Spec => Queue!CompletedIsFinal
<1>1. IndexInv /\ [Queue!Next]_(Queue!vars) =>
         [\A j \in Queue!Job :
             job[j] = "COMPLETED" /\ job'[j] # "COMPLETED"
               => job'[j] \in {"FAILED", "SKIPPED"} /\ j \in shared]_(Queue!vars)
  BY OnlyAMeetingUndoes
<1> QED BY <1>1, IndexInvHolds, PTL DEF Queue!Spec, Queue!CompletedIsFinal

-----------------------------------------------------------------------------
(* The composition.                                                        *)

Transaction == Crawls \/ Indexes \/ Registers \/ SignsIn
everything == <<which, vars, indexing, graphs, sessions>>

\* The queue of the composition is the queue of RagIndexing.
LEMMA QueueIsRagIndexing == TransactionsSpec => Queue!Spec
<1>1. TransactionsInit => Queue!Init
    BY DEF TransactionsInit
<1>2. [Transaction]_everything => [Queue!Next]_(Queue!vars)
    BY DEF Transaction, everything, Crawls, Indexes, Registers, SignsIn, indexing,
           Queue!vars, Queue!crawlVars, Queue!indexVars
<1> QED
    BY <1>1, <1>2, PTL DEF TransactionsSpec, Queue!Spec, Transaction, everything

\* The families of the composition are those of FamilyRegistry, and what its
\* documents are read as has grades.
LEMMA RegistersAreFamilyRegistry == TransactionsSpec => Families!Spec
<1>1. TransactionsInit => Families!Init
    BY DEF TransactionsInit
<1>2. [Transaction]_everything => [Families!Next]_(Families!vars)
    BY DEF Transaction, everything, Crawls, Indexes, Registers, SignsIn, graphs,
           Families!vars, Families!tables, Families!history
<1> QED
    BY <1>1, <1>2, PTL DEF TransactionsSpec, Families!Spec, Transaction, everything

LEMMA ReadingsAreOK == ReadingsOK
<1>1. ASSUME NEW c \in Candidates \cup Findings PROVE c.number \in Grade /\ c.date \in Grade
  <2>1. \/ c = Unread \/ c = Code \/ c = Amendment \/ c = Annexure
        \/ c = [Unread EXCEPT !.relates = TRUE]
        \/ c = [Code EXCEPT !.date = 0, !.relates = TRUE]
        \/ c = [Amendment EXCEPT !.relates = FALSE]
    BY Zenon DEF Candidates, Findings
  <2>2. CASE c = Unread
    BY <2>2 DEF Unread, Grade
  <2>3. CASE c = Code
    BY <2>3 DEF Code, Grade
  <2>4. CASE c = Amendment
    BY <2>4 DEF Amendment, Grade
  <2>5. CASE c = Annexure
    BY <2>5 DEF Annexure, Grade
  <2>6. CASE c = [Unread EXCEPT !.relates = TRUE]
    BY <2>6 DEF Unread, Grade
  <2>7. CASE c = [Code EXCEPT !.date = 0, !.relates = TRUE]
    BY <2>7 DEF Code, Grade
  <2>8. CASE c = [Amendment EXCEPT !.relates = FALSE]
    BY <2>8 DEF Amendment, Grade
  <2> QED
    BY <2>1, <2>2, <2>3, <2>4, <2>5, <2>6, <2>7, <2>8
<1> QED
    BY <1>1 DEF ReadingsOK, Title

\* The sessions of the composition are those of IdentitySessions.
LEMMA SessionsAreIdentitySessions == TransactionsSpec => Identity!Spec
<1>1. TransactionsInit => Identity!Init
    BY DEF TransactionsInit
<1>2. [Transaction]_everything => [Identity!Next]_(Identity!vars)
    BY DEF Transaction, everything, Crawls, Indexes, Registers, SignsIn, sessions,
           Identity!vars, Identity!locks
<1> QED
    BY <1>1, <1>2, PTL DEF TransactionsSpec, Identity!Spec, Transaction, everything

\* Once nobody is at work, a version recorded as COMPLETED can be searched unless
\* two live workers met at one of its jobs, and RAG_READY never names a version
\* that nobody has chunked (index_document and the workers of rag/indexing.py):
\* for any number of workers, crawls, versions and faults.
THEOREM QueueIsTruthful ==
    ASSUME IndexSetting
    PROVE  TransactionsSpec => []IndexIsTruthful
<1>1. Queue!IndexIsTruthful => IndexIsTruthful
    BY DEF IndexIsTruthful
<1> QED
    BY <1>1, TruthfulIndex, QueueIsRagIndexing, PTL

\* A COMPLETED job leaves this status only where two live workers met at it:
\* enqueueing, claiming and requeueing (rag/indexing.py) leave it alone.
THEOREM QueueCompletedStays ==
    ASSUME IndexSetting
    PROVE  TransactionsSpec => CompletedIsFinal
BY CompletedStays, QueueIsRagIndexing, PTL DEF CompletedIsFinal

\* Registration and extraction leave the families, the lineage and the graph
\* coherent (register_document_version_family, analyze_and_persist_regulatory_graph): the latest
\* version of a family has the latest date of those in it unless it was worked out
\* beside another transaction, versions descend from lower ones, and a version
\* recorded as extracted is the one whose graph is stored, unless an extraction all
\* of whose marks failed (_safe_upsert_extraction_audit) has stored its own since.
\* For any number of workers, documents, versions, transactions and failures.
THEOREM RegistryStaysCoherent == TransactionsSpec => []RegistryIsCoherent
<1>1. Families!Init => FamiliesInv
    BY FamiliesInit
<1>2. FamiliesInv /\ [Families!Next]_(Families!vars) => FamiliesInv'
    BY FamiliesStep, ReadingsAreOK
<1>3. FamiliesInv => RegistryIsCoherent
    BY FamiliesCohere DEF RegistryIsCoherent
<1> QED
    BY <1>1, <1>2, <1>3, RegistersAreFamilyRegistry, PTL DEF Families!Spec

\* No live session is of an earlier password, and a browser whose requests do
\* not overlap and whose answers arrive is never taken for a replay
\* (AuthenticationService.refresh, change_password, setup_password): for any
\* number of sessions and requests.
THEOREM SessionsStayConsistent ==
    ASSUME Identity!Setting
    PROVE  TransactionsSpec => []SessionsConsistent
<1>1. Identity!SessionsConsistent => SessionsConsistent
    BY DEF SessionsConsistent
<1> QED
    BY <1>1, Identity!SessionsAgree, SessionsAreIdentitySessions, PTL

\* Of two transactions that wait for each other one is a logout or a revocation,
\* which lock a session before their audit entry needs the account's row.
THEOREM DeadlocksNeedSessionFirst ==
    ASSUME Identity!Setting
    PROVE  TransactionsSpec => []DeadlockNeedsSessionFirst
<1>1. Identity!DeadlockNeedsSessionFirst => DeadlockNeedsSessionFirst
    BY DEF DeadlockNeedsSessionFirst
<1> QED
    BY <1>1, Identity!DeadlocksAreRare, SessionsAreIdentitySessions, PTL

\* A session that was revoked is never live again, nor of another version: also
\* when a refresh has read it before (AuthenticationService.refresh writes the
\* columns it changes alone).
THEOREM RevokedForGood ==
    ASSUME Identity!Setting
    PROVE  TransactionsSpec => RevokedIsFinal
BY Identity!RevokedStaysRevoked, SessionsAreIdentitySessions, PTL DEF RevokedIsFinal
=============================================================================
