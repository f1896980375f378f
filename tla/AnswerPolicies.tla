---------------------------- MODULE AnswerPolicies ----------------------------
(***************************************************************************)
(* What an answer may say while its evidence arrives: the knowledge modes  *)
(* that the official and the live lane allow (ask/knowledge_modes.py), the *)
(* confidence that its claims earn (ask/confidence.py), and the events     *)
(* that both lanes report (ask/event_reconciliation.py).  All three are    *)
(* functions of their request; what moves is the request.                  *)
(*                                                                         *)
(* Scores are kept in quarters of a point, and the dimensions in steps of  *)
(* five points, so that every weight is a whole number.                    *)
(***************************************************************************)
EXTENDS Integers, FiniteSets, Functions

CONSTANTS
    Profile,       \* the dimensions that a claim may begin with
    Origin,        \* observations of events
    Reports,       \* what an observation may say
    MaxWeaker      \* bound: how often an input of the confidence gets worse

VARIABLES
    lanes,         \* the request of select_knowledge_modes
    claims,        \* the claims of a confidence request, by their section
    weaker,
    origins        \* the observations that arrived, with what they say

policies == <<lanes, claims, weaker, origins>>

-----------------------------------------------------------------------------
(* Knowledge modes                                                         *)

Label == {"unknown", "low", "medium", "high"}
Rank(l) == CASE l = "unknown" -> 0 [] l = "low" -> 1 [] l = "medium" -> 2 [] l = "high" -> 3
Weakest(L) == CHOOSE l \in L : \A k \in L : Rank(l) <= Rank(k)

OfficialOutcome ==
    {"not_required", "pending", "sufficient", "partial", "no_match", "unavailable",
     "document_unavailable"}
LiveOutcome ==
    {"not_requested", "pending", "official", "credible", "unverified", "no_match",
     "unavailable"}
LiveFound(q) == q.live \in {"official", "credible", "unverified"}

\* KnowledgeModeRequest.validate_request
ValidRequest(q) ==
    /\ q.explicit => q.official = "not_required"
    /\ q.fallback => q.official = "unavailable"
    /\ q.official = "document_unavailable" => q.live = "not_requested" /\ ~q.background
    /\ q.official = "not_required" => q.explicit \/ q.live # "not_requested"

\* Variant: live sources cover background too, even where it was asked for.
GeneralTriggerUnlessFound(q) ==
    IF q.explicit THEN "explicit"
    ELSE IF LiveFound(q) THEN "none"
    ELSE IF q.official = "no_match" /\ (q.live # "pending" \/ q.background) THEN "no_match"
    ELSE IF q.official = "unavailable" /\ q.fallback THEN "outage"
    ELSE IF q.background /\ q.official \in {"sufficient", "partial"} THEN "background"
    ELSE "none"

\* _general_trigger
GeneralTrigger(q) ==
    LET covered == LiveFound(q) /\ ~q.background
    IN IF q.explicit THEN "explicit"
       ELSE IF q.official = "no_match"
       THEN IF covered \/ (q.live = "pending" /\ ~q.background) THEN "none" ELSE "no_match"
       ELSE IF q.official = "unavailable"
       THEN IF covered \/ ~q.fallback THEN "none" ELSE "outage"
       ELSE IF q.background /\ q.official \notin {"pending", "document_unavailable"}
       THEN "background" ELSE "none"

ScopeCeiling(q) ==
    CASE q.scope = "resolved" -> "high"
      [] q.scope = "assumed" -> "medium"
      [] q.scope = "unresolved" -> "unknown"

\* The sections of the decision with their ceilings: _official_section,
\* _live_section and _general_section under _apply_scope_ceiling.
Base(q, key) ==
    CASE key = "official" -> IF q.official = "sufficient" THEN "high" ELSE "medium"
      [] key = "live" ->
           (CASE q.live = "official" -> "high" [] q.live = "credible" -> "medium"
              [] OTHER -> "unknown")
      [] key = "general" -> IF GeneralTrigger(q) = "outage" THEN "low" ELSE "medium"

ModeSections(q) ==
    {key \in {"official", "live", "general"} :
        CASE key = "official" -> q.official \in {"sufficient", "partial"}
          [] key = "live" -> LiveFound(q)
          [] key = "general" -> GeneralTrigger(q) # "none"}

Ceiling(q, key) == Weakest({Base(q, key), ScopeCeiling(q)})

\* The state of the decision, as select_knowledge_modes derives it.
ModeState(q) ==
    IF q.official = "document_unavailable" THEN "needs_document"
    ELSE IF "pending" \in {q.official, q.live} THEN "waiting"
    ELSE IF "unavailable" \in {q.official, q.live} THEN "degraded"
    ELSE IF ModeSections(q) # {} THEN "ready" ELSE "empty"

-----------------------------------------------------------------------------
(* Confidence                                                              *)

Dimension == {"authority", "relevance", "coverage", "agreement", "freshness", "scope"}

\* The weighted sum of DIMENSION_WEIGHTS.
BaseScore(x) ==
    5 * x["authority"] + 3 * x["relevance"] + 4 * x["coverage"] + 3 * x["agreement"]
    + 3 * x["freshness"] + 2 * x["scope"]

\* PENALTY_POINTS
Points == [contradiction |-> 100, stale |-> 80, capability |-> 60, applicability |-> 40,
           single_source |-> 40, date_type |-> 20]

Penalty == DOMAIN Points

\* _calculate_claim: the score, between 0 and 100 points
Score(c) ==
    LET base == BaseScore(c.dim)
        lost == SumFunction([p \in Penalty |-> IF p \in c.penalties THEN Points[p] ELSE 0])
    IN IF lost >= base THEN 0 ELSE base - lost

\* _label_for_score of a score n/d
LabelOf(n, d) ==
    IF n >= 320 * d THEN "high"
    ELSE IF n >= 240 * d THEN "medium"
    ELSE IF n >= 140 * d THEN "low" ELSE "unknown"

\* _high_gate_failures finds none.
PassesHighGates(c) ==
    /\ c.authoritative
    /\ c.dim["coverage"] >= 17 /\ c.dim["scope"] >= 17
    /\ "contradiction" \notin c.penalties
    /\ c.fresh /\ "stale" \notin c.penalties

\* _calculate_claim: the label
ClaimLabel(q, key, c) ==
    IF c.hard THEN "unknown"
    ELSE Weakest({LabelOf(Score(c), 1), Ceiling(q, key), c.ceiling}
                 \cup IF LabelOf(Score(c), 1) = "high" /\ ~PassesHighGates(c)
                      THEN {"medium"} ELSE {})

Least(S) == CHOOSE x \in S : \A y \in S : x <= y

\* _calculate_section: the score is seven tenths of the mean of the claims,
\* weighted by their coverage, and three tenths of the least; as a fraction.
SectionScore(C) ==
    LET total == SumFunction([i \in DOMAIN C |-> C[i].dim["coverage"]])
        sum == SumFunction([i \in DOMAIN C |-> Score(C[i]) * C[i].dim["coverage"]])
        least == Least({Score(C[i]) : i \in DOMAIN C})
    IN IF total = 0 THEN [n |-> 3 * least, d |-> 10]
       ELSE [n |-> 7 * sum + 3 * least * total, d |-> 10 * total]

SectionLabel(q, key, C) ==
    Weakest({LabelOf(SectionScore(C).n, SectionScore(C).d)}
            \cup {ClaimLabel(q, key, C[i]) : i \in DOMAIN C})

\* _calculate_overall, with sections of equal importance: LabelOf the score,
\* seven tenths of the mean of the sections and three tenths of the least of
\* the critical ones.
OverallLabel(q, answer) ==
    LET keys == DOMAIN answer.sections
        s == [k \in keys |-> SectionScore(answer.sections[k])]
        d == FoldFunction(LAMBDA x, y : x * y, 1, [k \in keys |-> s[k].d])
        scaled == [k \in keys |-> s[k].n * (d \div s[k].d)]
        sum == SumFunction(scaled)
        least == Least({scaled[k] : k \in answer.critical})
        every == UNION {{ClaimLabel(q, k, answer.sections[k][i]) :
                            i \in DOMAIN answer.sections[k]} : k \in keys}
    IN Weakest(
         {LabelOf((7 * sum + 3 * least * Cardinality(keys)) \div Cardinality(keys), 10 * d)}
         \cup {SectionLabel(q, k, answer.sections[k]) : k \in answer.critical}
         \cup IF answer.strict THEN every ELSE {})

-----------------------------------------------------------------------------
(* Reconciliation of events                                                *)

Field == {"identity", "date", "type", "text", "status"}

\* Observations with one fingerprint, among those that arrived.
Group(O, f) == {o \in DOMAIN O : O[o].print = f}

\* _material_conflicts: the fields on which those who say something differ
Conflicts(O, f) ==
    {x \in Field : Cardinality({O[o][x] : o \in Group(O, f)} \ {"none"}) > 1}

Official(O, f) == {o \in Group(O, f) : O[o].lane = "official"}

\* established_legal_status; only the official lane establishes one
Established(O, f) ==
    LET said == {O[o].status : o \in Official(O, f)} \ {"none"}
    IN IF Cardinality(said) = 1 THEN CHOOSE v \in said : TRUE ELSE "none"

Alone(O, f) == Conflicts(O, f) = {} /\ Cardinality(Group(O, f)) = 1

\* _reconcile_fingerprint_group and _mark_near_duplicates
MatchKind(O, f) ==
    LET the(g) == CHOOSE o \in Group(O, g) : TRUE
        near(g) == /\ g # f /\ Alone(O, g)
                   /\ O[the(g)].identity = O[the(f)].identity
                   /\ O[the(g)].type = O[the(f)].type
    IN IF Conflicts(O, f) # {} THEN "conflict"
       ELSE IF ~Alone(O, f) THEN "exact_duplicate"
       ELSE IF \E g \in {O[o].print : o \in DOMAIN O} : near(g) THEN "near_duplicate"
       ELSE "standalone"

-----------------------------------------------------------------------------
NoClaims == [sections |-> <<>>, critical |-> {}, strict |-> FALSE]

PoliciesInit ==
    /\ lanes \in {q \in [official : {"not_required", "pending"},
                          live : {"not_requested", "pending"},
                          explicit : BOOLEAN, background : BOOLEAN, fallback : {FALSE},
                          scope : {"resolved", "assumed", "unresolved"}] : ValidRequest(q)}
    /\ claims = NoClaims
    /\ weaker = 0
    /\ origins = <<>>

\* A lane comes to its outcome, and the modes are selected again.  A caller may
\* allow General AI to stand in when the official search is down.
SettleLane ==
    /\ \/ lanes.official = "pending"
          /\ \E x \in OfficialOutcome \ {"pending", "not_required"}, f \in BOOLEAN :
                lanes' = [lanes EXCEPT !.official = x, !.fallback = f]
       \/ lanes.live = "pending"
          /\ \E x \in LiveOutcome \ {"pending", "not_requested"} :
                lanes' = [lanes EXCEPT !.live = x]
    /\ ValidRequest(lanes')
    /\ UNCHANGED <<claims, weaker, origins>>

\* The claims of the sections are there and their confidence is calculated.
Assess ==
    /\ claims = NoClaims /\ ModeState(lanes) \in {"ready", "degraded"}
    /\ Cardinality(ModeSections(lanes)) = 2
    /\ \E p \in [ModeSections(lanes) \X (1..2) -> Profile],
          C \in (SUBSET ModeSections(lanes)) \ {{}}, strict \in BOOLEAN :
          claims' = [sections |-> [k \in ModeSections(lanes) |->
                        [i \in 1..(IF k \in C THEN 1 ELSE 2) |->
                           [dim |-> p[<<k, i>>], penalties |-> {}, hard |-> FALSE,
                            authoritative |-> TRUE, fresh |-> TRUE, ceiling |-> "high"]]],
                     critical |-> C, strict |-> strict]
    /\ UNCHANGED <<lanes, weaker, origins>>

\* Something about one claim turns out to be worse.
Weaken ==
    /\ weaker < MaxWeaker
    /\ \E k \in DOMAIN claims.sections : \E i \in DOMAIN claims.sections[k] :
        LET c == claims.sections[k][i]
            become(x) == claims' = [claims EXCEPT !.sections[k][i] = x]
        IN \/ \E d \in Dimension : \E v \in {0, 16} :
                v < c.dim[d] /\ become([c EXCEPT !.dim[d] = v])
           \/ \E x \in Penalty \ c.penalties :
                become([c EXCEPT !.penalties = @ \cup {x}])
           \/ ~c.hard /\ become([c EXCEPT !.hard = TRUE])
           \/ c.authoritative /\ become([c EXCEPT !.authoritative = FALSE])
           \/ c.fresh /\ become([c EXCEPT !.fresh = FALSE])
           \/ \E l \in Label :
                Rank(l) < Rank(c.ceiling) /\ become([c EXCEPT !.ceiling = l])
    /\ weaker' = weaker + 1
    /\ UNCHANGED <<lanes, origins>>

\* One more observation of an event arrives before the cutoff.
Observe(o) ==
    /\ o \notin DOMAIN origins
    /\ \E r \in Reports :
          origins' = [x \in DOMAIN origins \cup {o} |-> IF x = o THEN r ELSE origins[x]]
    /\ UNCHANGED <<lanes, claims, weaker>>

PoliciesNext == SettleLane \/ Assess \/ Weaken \/ \E o \in Origin : Observe(o)

-----------------------------------------------------------------------------
\* When a lane settles, the sections that were announced stay with their
\* ceilings.  One is withdrawn: General AI that stood in for a search that was
\* down goes when live sources are found and background was not asked for.
SectionsStay ==
    \A k \in ModeSections(lanes) :
        \/ k \in ModeSections(lanes') /\ Ceiling(lanes', k) = Ceiling(lanes, k)
        \/ k = "general" /\ lanes.official = "unavailable" /\ LiveFound(lanes')

\* What makes one claim worse never makes the answer surer.  Coverage is the
\* exception, because it is also the weight of the claim in its section: a weak
\* claim that is covered less counts for less.
WeakerIsNotSurer ==
    claims # NoClaims /\ claims' # claims =>
        \/ Rank(OverallLabel(lanes', claims')) <= Rank(OverallLabel(lanes, claims))
        \/ \E k \in DOMAIN claims.sections : \E i \in DOMAIN claims.sections[k] :
              claims'.sections[k][i].dim["coverage"] < claims.sections[k][i].dim["coverage"]

\* Further observations settle no conflict and take no confirmation back, and a
\* legal status that is established is given up when officials differ but never
\* exchanged; what the live lane says changes it in no way.
ConflictsStay ==
    \A f \in {origins[o].print : o \in DOMAIN origins} :
        /\ Conflicts(origins, f) \subseteq Conflicts(origins', f)
        /\ MatchKind(origins, f) = "exact_duplicate" =>
              MatchKind(origins', f) \in {"exact_duplicate", "conflict"}
        /\ Established(origins', f) # Established(origins, f) =>
              Official(origins, f) # Official(origins', f)
        /\ "none" # Established(origins, f) =>
              Established(origins', f) \in {"none", Established(origins, f)}

\* The action property of all three.
PoliciesAreStable == SectionsStay /\ WeakerIsNotSurer /\ ConflictsStay
==============================================================================
