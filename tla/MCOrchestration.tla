--------------------------- MODULE MCOrchestration ---------------------------
(***************************************************************************)
(* Work plans, answers and bindings for TLC; and beside the orchestration  *)
(* the policies that decide what an answer may say, which share no state    *)
(* with it: a behaviour is one of the part named by `which' and the others *)
(* stay where they begin.                                                  *)
(***************************************************************************)
EXTENDS CapabilityScheduler

CONSTANTS
    k1,
    Parts,         \* the parts whose behaviours are looked at
    Unit, Token, Origin, MaxDay, MaxVersion, MaxEdges, MaxDrift, MaxWeaker

VARIABLES
    which,
    lanes, claims, weaker, origins,
    family, today, bundle, admission, drifted, claim, attempt

Anything == [c \in Capability |-> Capability]

\* A composed answer and both passes of the verifier; the two composers may
\* offer the same claim.
Grounded ==
    [order      |-> <<"check", "compose", "recompose", "support">>,
     capability |-> [check     |-> "evidence_integrity",
                     compose   |-> "response_composer",
                     recompose |-> "response_composer",
                     support   |-> "claim_support"],
     role       |-> [check |-> "mandatory", compose |-> "mandatory",
                     recompose |-> "supporting", support |-> "mandatory"],
     needs      |-> [check |-> {}, compose |-> {"check"},
                     recompose |-> {"check"}, support |-> {"compose"}],
     scope      |-> [check |-> "core", compose |-> "core",
                     recompose |-> NoSection, support |-> NoSection],
     declared   |-> Anything,
     keeps      |-> Bootstrap, begins |-> [core |-> "planned"],
     sections   |-> {"core"}, required |-> {"core"}, grounded |-> {"core"}]

\* General AI stands in for the retriever; follow-ups are optional.
WithFallback ==
    [order      |-> <<"retrieve", "general", "followup">>,
     capability |-> [retrieve |-> "regulatory_retriever",
                     general  |-> "general_ai",
                     followup |-> "follow_up_generator"],
     role       |-> [retrieve |-> "mandatory", general |-> "fallback",
                     followup |-> "optional"],
     needs      |-> [retrieve |-> {}, general |-> {"retrieve"},
                     followup |-> {"general"}],
     scope      |-> [retrieve |-> "core", general |-> "core",
                     followup |-> NoSection],
     declared   |-> Anything,
     keeps      |-> Bootstrap, begins |-> [core |-> "planned"],
     sections   |-> {"core"}, required |-> {"core"}, grounded |-> {}]

\* News support an optional section; no executor is bound for them.
Live ==
    [order      |-> <<"news">>,
     capability |-> [news |-> "news_retriever"],
     role       |-> [news |-> "supporting"],
     needs      |-> [news |-> {}],
     scope      |-> [news |-> "live"],
     declared   |-> Anything,
     keeps      |-> Bootstrap, begins |-> [core |-> "planned", live |-> "planned"],
     sections   |-> {"core", "live"}, required |-> {"core"}, grounded |-> {}]

\* General AI waits for the integrity pass, which runs a phase after the first
\* one in which General AI may run.
LateChain ==
    [order      |-> <<"general", "check">>,
     capability |-> [general |-> "general_ai", check |-> "evidence_integrity"],
     role       |-> [general |-> "supporting", check |-> "mandatory"],
     needs      |-> [general |-> {"check"}, check |-> {}],
     scope      |-> [general |-> "core", check |-> "core"],
     declared   |-> Anything,
     keeps      |-> Bootstrap, begins |-> [core |-> "planned"],
     sections   |-> {"core"}, required |-> {"core"}, grounded |-> {}]

\* The composer would wait for the pass that verifies what it wrote.
Cyclic ==
    [Grounded EXCEPT !.needs["compose"] = {"check", "support"}]

\* General AI answers alone; the plan leaves the entity resolver out, and its
\* section has begun.
Alone ==
    [order      |-> <<"general">>,
     capability |-> [general |-> "general_ai"],
     role       |-> [general |-> "mandatory"],
     needs      |-> [general |-> {}],
     scope      |-> [general |-> "core"],
     declared   |-> Anything,
     keeps      |-> {"intent"}, begins |-> [core |-> "draftable"],
     sections   |-> {"core"}, required |-> {"core"}, grounded |-> {}]

MCPlans ==
    [grounded |-> Grounded, fallback |-> WithFallback, live |-> Live,
     late |-> LateChain, cyclic |-> Cyclic, alone |-> Alone]

\* The entity is always ambiguous, so that a run may end in a clarification.
MCAnswers ==
    [c \in Capability |->
        CASE c = "entity_resolver" -> {"ambiguous"}
          [] c = "regulatory_retriever" -> {"satisfied", "no_match"}
          [] OTHER -> {"satisfied"}]

MCBound == Capability \ {"news_retriever"}

MCBlocking == {"response_composer"}
-----------------------------------------------------------------------------
policies == <<lanes, claims, weaker, origins>>

\* Every dimension at its best, or a source that nobody else agrees with.
Full == [d \in {"authority", "relevance", "coverage", "agreement", "freshness", "scope"} |-> 20]

\* Reports of one event that differ in their lane, date and status; and one of
\* a second event near it.
Report == [print |-> "event", lane |-> "official", identity |-> "issuer", date |-> "monday",
           type |-> "circular", text |-> "title", status |-> "none"]

MCReports ==
    {[Report EXCEPT !.lane = l, !.date = d, !.status = s] :
        l \in {"official", "live"}, d \in {"none", "monday"},
        s \in {"none", "in_force", "repealed"}}
    \cup {[Report EXCEPT !.print = "other", !.date = "tuesday"]}

Policies == INSTANCE AnswerPolicies WITH
    Profile <- {Full, [Full EXCEPT !["authority"] = 0, !["agreement"] = 8]},
    Reports <- MCReports

publication == <<family, today, bundle, admission, drifted, claim, attempt>>

Judgment(outcome, level, ids) == [outcome |-> outcome, level |-> level, ids |-> ids]

\* Supported at either level, by one unit or both; in part; contradicted.
MCVerdicts ==
    {{Judgment("supported", l, Unit)} : l \in 2..3}
    \cup {{Judgment(o, 2, Unit)} : o \in {"partial", "contradiction"}}
    \cup {{Judgment("supported", 3, {1})},
          {Judgment("supported", 3, {1}), Judgment("partial", 1, {2})}}

Publishing == INSTANCE AnswerPublication WITH
    Verdicts <- MCVerdicts, Flaw <- {"source", "conflict"}, Rechecked <- {"source"}

\* Confidence is assessed over one pair of lanes, and events before any lane
\* settles: neither asks for the other.
DecidePolicies ==
    /\ which = "policies" /\ Policies!PoliciesNext
    /\ claims' # claims => lanes.official = "sufficient" /\ lanes.live = "credible"
                           /\ lanes.scope = "resolved" /\ origins = <<>>
    /\ origins' # origins => claims.sections = <<>> /\ ~lanes.background /\ ~lanes.explicit
                             /\ lanes.official = "pending" /\ lanes.live = "pending"
    /\ lanes' # lanes => origins = <<>> /\ claims.sections = <<>>
    /\ UNCHANGED <<which, vars, publication>>

\* Versions are observed by their number.
InTurn(v) == DOMAIN v.records = 1..Cardinality(DOMAIN v.records)

\* Families are observed at length where no answer is composed.
DecideStatus ==
    /\ which = "status"
    /\ \/ \E r \in 1..MaxVersion : Publishing!ObserveVersion(r)
       \/ \E r, x \in 1..MaxVersion : Publishing!ObserveEdge(r, x)
       \/ Publishing!NextDay
    /\ today = MaxDay => UNCHANGED today
    /\ family' # family => today = MaxDay
    /\ InTurn(family')
    /\ \A r \in DOMAIN family'.records : family'.records[r].status # "repealed"
    /\ \A e \in family'.edges : e.kind \in {"parent", "supersedes"}
    /\ UNCHANGED <<which, vars, policies>>

\* The first version in force, the second one what it may be.
Simple(v) ==
    /\ InTurn(v)
    /\ v.records # <<>> => v.records[1] = [avail |-> 0, status |-> "in_force", on |-> 0]
    /\ \A r \in DOMAIN v.records : v.records[r].on = v.records[r].avail
    /\ \A e \in v.edges : e.kind = "supersedes" /\ e.from > e.to /\ e.on = 1
    /\ v.records # <<>> /\ DOMAIN v.records # {1} => today = MaxDay

\* Units that are flawed, altered or not called what they are.
Mistaken(b) ==
    {u \in Unit :
        LET d == Publishing!EvaluatedFor(b.question)
            unit == b.units[u]
        IN \/ unit.flaw # "none" \/ drifted[u] # {}
           \/ /\ b.question.mode # "none" /\ unit.version \in Publishing!Eligible(b.view, d)
              /\ unit.label # Publishing!StatusOf(b.view, unit.version, d)}

\* Where no status was asked for and one version is known, composition and
\* verification are looked at in full; elsewhere they run as they should.
InFull ==
    bundle.question.mode = "none" /\ DOMAIN family.records = {1} /\ today = bundle.question.at

Straight ==
    /\ drifted' = drifted
    /\ claim' # claim => ~claim'.flawed /\ ~claim'.highRisk
                         /\ claim'.supports \in {admission.admitted, Unit}
    /\ ~attempt'.late /\ ~attempt'.corrected
    /\ attempt'.pc = "asking" => attempt'.released

\* And an answer over a family of this kind, in which one thing is wrong at
\* most when it is admitted.
Publish ==
    /\ which = "answer" /\ Publishing!PublicationNext
    /\ Simple(family')
    /\ bundle' # bundle =>
          /\ bundle'.coverage = "complete" /\ Cardinality(Mistaken(bundle')) <= 1
          /\ bundle'.units[1].version <= bundle'.units[2].version
    /\ bundle # Publishing!Nothing =>
          /\ UNCHANGED today \/ Mistaken(bundle) = {}
          /\ Cardinality(DOMAIN family.records) = 2 => UNCHANGED family
          /\ InFull \/ Straight
    /\ admission # Publishing!Nothing => UNCHANGED <<family, today>>
    /\ admission' # admission => admission'.asked.mode = bundle.question.mode
    /\ claim' # claim => claim'.text.tokens = Token
    /\ UNCHANGED <<which, vars, policies>>

\* The entity resolver is mandatory wherever the plan keeps it in a long run.
\* The plans of news and of a grounded answer are approved where nothing failed
\* yet; under the second, faults happen before the soft cutoff, under the first
\* none do, and its answer is drafted once the news are settled.
Orchestrate ==
    /\ which = "orchestration" /\ Next
    /\ st.entity # "mandatory" => st'.plan \in {NoPlan, "late", "alone"}
    /\ st'.plan \in {"grounded", "live"} /\ st.plan = NoPlan => faults = 0
    /\ faults' # faults => st.plan # "live" /\ (st.plan = "grounded" => clock = 0)
    /\ st'.plan = "live" =>
          \/ st'.section["core"] \in {"planned"} \cup SectionTerminal
          \/ st'.section["live"] \in SectionTerminal
    /\ UNCHANGED <<which, policies, publication>>

AnswersInit ==
    /\ which \in Parts /\ Init /\ Policies!PoliciesInit /\ Publishing!PublicationInit
    /\ which # "orchestration" => st.entity = "mandatory"
    /\ which # "policies" =>
          /\ lanes.official = "pending" /\ lanes.live = "pending" /\ lanes.scope = "resolved"
          /\ ~lanes.background

AnswersSpec ==
    AnswersInit
    /\ [][\/ Orchestrate \/ DecidePolicies
          \/ DecideStatus \/ Publish]_<<which, vars, policies, publication>>

\* The fairness of the scheduler, as its module states it.
FairAnswersSpec ==
    /\ AnswersSpec
    /\ WF_vars(which = "orchestration" /\ Waves) /\ WF_vars(which = "orchestration" /\ Tick)
-----------------------------------------------------------------------------
\* Prose that is published rests on admitted evidence, the status it asked for
\* and a judgment that sufficed.
PublishedIsGrounded == Publishing!PublishedIsGrounded

\* Announced sections stay, what makes a claim worse makes no answer surer,
\* conflicts and legal statuses stay, and no later day changes what held on an
\* earlier one.
AnswersAreStable ==
    [][policies' # policies \/ publication' # publication =>
          Policies!PoliciesAreStable /\ Publishing!AsOfIsStable]_<<policies, publication>>
==============================================================================
