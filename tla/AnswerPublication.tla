--------------------------- MODULE AnswerPublication ---------------------------
(***************************************************************************)
(* From official evidence to prose: the legal status of the versions of a  *)
(* document family (rag/version_status.py), the admission of evidence      *)
(* (ask/evidence_admission.py) and of a claim that rests on it             *)
(* (ask/candidate_claims.py), and the verification that decides whether    *)
(* the claim is published (ask/claim_verification.py).                     *)
(*                                                                         *)
(* Versions are the natural numbers in the order in which _newest compares *)
(* versions that became available on one day.  A wording is a set of       *)
(* material tokens and whether it says them another way round.  Of the     *)
(* confidence of a judgment only the thresholds it reaches are kept:       *)
(* 0 none, 1 at least 0.80, 2 at least 0.90, 3 at least 0.95.              *)
(***************************************************************************)
EXTENDS Integers, FiniteSets, Sequences

CONSTANTS
    Unit,          \* units of evidence
    Verdicts,      \* sets of judgments that the provider may answer with
    Flaw,          \* what may be wrong with a unit
    Rechecked,     \* the flaws that verification looks for again
    Token,
    MaxDay,        \* bound: days
    MaxVersion,    \* bound: versions of the family
    MaxEdges,      \* bound: relationships between them
    MaxDrift       \* bound: units that are altered after their admission

Day == 0..MaxDay
Status == {"draft", "in_force", "superseded", "repealed", "unknown"}
Terminal == {"superseded", "repealed"}
Kind == {"parent", "amends", "supersedes", "repeals", "extends"}
Mode == {"current", "as_of", "draft"}
Nothing == [outcome |-> "none"]

VARIABLES
    family,        \* the versions and relationships that were observed
    today,
    bundle,        \* the candidates of evidence and what they were asked for
    admission,     \* what admit_official_evidence made of them
    drifted,       \* flaws that units got since
    claim,
    attempt        \* the call of execute_claim_verification

publication == <<family, today, bundle, admission, drifted, claim, attempt>>

-----------------------------------------------------------------------------
(* Version status                                                          *)

Versions(v) == DOMAIN v.records

\* _invalid_lineage_code finds something.
InvalidLineage(v) ==
    LET closed(N) == \A e \in v.edges : e.from \in N => e.to \in N
        below(r) == {x \in Versions(v) :
                        \A N \in SUBSET Versions(v) :
                            closed(N) /\ {e.to : e \in {f \in v.edges : f.from = r}} \subseteq N
                                => x \in N}
    IN \/ \E e \in v.edges : e.to \notin Versions(v)
       \/ \E e \in v.edges : e.on < v.records[e.from].avail
       \/ \E r \in Versions(v) : r \in below(r)

Eligible(v, d) == {r \in Versions(v) : v.records[r].avail <= d}

\* The declared status as of a day, in _statuses_as_of.
Declared(x, d) ==
    IF x.on <= d THEN [status |-> x.status, on |-> x.on]
    ELSE [status |-> IF x.status \in Terminal THEN "in_force" ELSE "unknown",
          on |-> x.avail]

\* What happened to a version until a day; the newest of it counts.
Events(v, r, d) ==
    {Declared(v.records[r], d)} \cup
    {[status |-> IF e.kind = "repeals" THEN "repealed" ELSE "superseded", on |-> e.on] :
        e \in {f \in v.edges : f.to = r /\ f.on <= d /\ f.kind \in {"supersedes", "repeals"}}}

NewestStatuses(v, r, d) ==
    LET all == Events(v, r, d)
    IN {e.status : e \in {x \in all : \A y \in all : y.on <= x.on}}

StatusOf(v, r, d) == CHOOSE s \in NewestStatuses(v, r, d) : TRUE

With(v, d, S) == {r \in Eligible(v, d) : StatusOf(v, r, d) \in S}

Newest(v, R) ==
    CHOOSE r \in R : \A x \in R :
        v.records[x].avail < v.records[r].avail
        \/ (v.records[x].avail = v.records[r].avail /\ x <= r)

\* _has_active_lineage_path
ActivePath(v, r, x, d) ==
    \A N \in SUBSET Versions(v) :
        /\ r \in N
        /\ \A e \in v.edges : e.on <= d /\ e.kind \in {"parent", "amends", "extends"}
                                 /\ e.from \in N => e.to \in N
        => x \in N

Decision(outcome, selected) == [outcome |-> outcome, selected |-> selected]

Validated(mode) ==
    CASE mode = "current" -> "validated_current"
      [] mode = "as_of" -> "validated_historical"
      [] mode = "draft" -> "validated_draft"

\* resolve_version_status
Resolve(v, coverage, mode, d) ==
    LET active == With(v, d, {"in_force"})
        unknown == With(v, d, {"unknown"})
        ended == With(v, d, Terminal)
        drafts == With(v, d, {"draft"})
        newest == Newest(v, active)
    IN IF coverage # "complete" THEN Decision("unknown", {})
       ELSE IF InvalidLineage(v) THEN Decision("invalid_lineage", {})
       ELSE IF \E r \in Eligible(v, d) : Cardinality(NewestStatuses(v, r, d)) > 1
       THEN Decision("contradictory", {})
       ELSE IF mode = "draft"
       THEN IF drafts = {} THEN Decision("no_match", {})
            ELSE Decision(Validated(mode), {Newest(v, drafts)})
       ELSE IF active = {}
       THEN IF unknown # {} THEN Decision("unknown", {})
            ELSE IF ended = {} THEN Decision("no_match", {})
            ELSE Decision(Validated(mode), {Newest(v, ended)})
       ELSE IF \E r \in unknown : v.records[r].avail >= v.records[newest].avail
       THEN Decision("unknown", {})
       ELSE IF \E r \in active : ~ActivePath(v, newest, r, d)
       THEN Decision("contradictory", {})
       ELSE Decision(Validated(mode), active)

\* The day that a question is about.
EvaluatedFor(q) == IF q.mode = "as_of" THEN q.as_of ELSE q.at

-----------------------------------------------------------------------------
(* Admission                                                               *)

\* Variant: a unit of the family will do, selected or not.
StatusAcceptedUnselected(b, asked, u) ==
    LET q == b.question
        now == Resolve(b.view, b.coverage, q.mode, EvaluatedFor(q))
    IN IF q.mode = "none" THEN asked.mode = "none"
       ELSE q = asked /\ now = b.decision /\ now.outcome = Validated(asked.mode)

\* _status_rejection lets a unit pass.
StatusAccepted(b, asked, u) ==
    LET q == b.question
        unit == b.units[u]
        d == EvaluatedFor(q)
        now == Resolve(b.view, b.coverage, q.mode, d)
    IN IF q.mode = "none" THEN asked.mode = "none" /\ unit.label = "none"
       ELSE /\ q = asked
            /\ now = b.decision
            /\ now.outcome = Validated(asked.mode)
            /\ unit.version \in Versions(b.view)
            /\ unit.version \in now.selected
            /\ unit.label = StatusOf(b.view, unit.version, d)

\* _integrity_rejection finds nothing, and then _status_rejection.
Admissible(b, asked, u) == b.units[u].flaw = "none" /\ StatusAccepted(b, asked, u)

-----------------------------------------------------------------------------
(* Verification                                                            *)

\* A claim that admit_candidate_claims accepts, over evidence that
\* _revalidated_evidence finds as it was admitted: all that was admitted
\* supports the claim, nothing else does, and none of it was altered.
Verifiable ==
    /\ ~claim.flawed
    /\ claim.supports # {} /\ claim.supports = admission.admitted
    /\ \A u \in claim.supports : drifted[u] \cap Rechecked = {}

\* _normalized_outcome: a judgment below its threshold is unknown
Normalized(j) ==
    LET least == CASE j.outcome = "supported" -> IF claim.highRisk THEN 3 ELSE 2
                   [] j.outcome = "partial" -> 1
                   [] j.outcome = "contradiction" -> 2
                   [] j.outcome = "unknown" -> 0
    IN IF j.level < least THEN "unknown" ELSE j.outcome

\* _weakest_outcome
WeakestOutcome(J) ==
    LET all == {Normalized(j) : j \in J}
    IN IF "contradiction" \in all THEN "contradiction"
       ELSE IF "unknown" \in all THEN "unknown"
       ELSE IF "partial" \in all THEN "partial"
       ELSE "supported"

NoCorrection == [text |-> [tokens |-> {}, twisted |-> FALSE], ids |-> {}]

\* _valid_correction: other words, but no material token and no evidence that
\* was not there.
ValidCorrection(c) ==
    /\ c.text # attempt.text
    /\ c.ids \subseteq attempt.ids
    /\ c.text.tokens # {} /\ c.text.tokens \subseteq attempt.text.tokens

Wording == [tokens : SUBSET Token, twisted : BOOLEAN]

Result(state, outcome, mode, text) ==
    [state |-> state, outcome |-> outcome, mode |-> mode, text |-> text]

\* _failure_result.  ClaimVerificationResult asks for two attempts exactly when
\* there is a correction (validate_release_state), so that a second pass that
\* fails before its attempt is recorded raises instead.
Fail(state, a) ==
    attempt' = [a EXCEPT !.pc = "ended",
                  !.result = IF a.corrected /\ Len(a.tries) # 2
                             THEN Result("raised", "unknown", "none", claim.text)
                             ELSE Result(state, "unknown", "evidence_only", claim.text)]

\* _success_result: prose only under a matching release and within the budget.
Succeed(a) ==
    attempt' = [a EXCEPT !.pc = "ended",
                  !.result = Result("satisfied", "supported",
                                    IF a.released /\ ~a.late THEN "prose" ELSE "evidence_only",
                                    a.text)]

-----------------------------------------------------------------------------
NoAttempt ==
    [pc |-> "none", text |-> NoCorrection.text, ids |-> {}, tries |-> <<>>,
     corrected |-> FALSE, late |-> FALSE, released |-> FALSE, result |-> Nothing]

PublicationInit ==
    /\ family = [records |-> <<>>, edges |-> {}]
    /\ today = 0
    /\ bundle = Nothing
    /\ admission = Nothing
    /\ drifted = [u \in Unit |-> {}]
    /\ claim = Nothing
    /\ attempt = NoAttempt

\* A version of the family is observed; it may have been published before, and
\* its status may begin later.
ObserveVersion(r) ==
    /\ r \notin Versions(family)
    /\ \E a \in 0..today, s \in Status, on \in Day :
          family' = [family EXCEPT !.records =
                        [x \in DOMAIN @ \cup {r} |->
                           IF x = r THEN [avail |-> a, status |-> s, on |-> on] ELSE @[x]]]
    /\ UNCHANGED <<today, bundle, admission, drifted, claim, attempt>>

ObserveEdge(r, x) ==
    /\ r # x /\ r \in Versions(family) /\ Cardinality(family.edges) < MaxEdges
    /\ \E k \in Kind, on \in Day :
          /\ \A e \in family.edges : <<e.from, e.to, e.kind>> # <<r, x, k>>
          /\ family' = [family EXCEPT !.edges =
                            @ \cup {[from |-> r, to |-> x, kind |-> k, on |-> on]}]
    /\ UNCHANGED <<today, bundle, admission, drifted, claim, attempt>>

NextDay ==
    /\ today < MaxDay
    /\ today' = today + 1
    /\ UNCHANGED <<family, bundle, admission, drifted, claim, attempt>>

\* The caller retrieves units of evidence and has their status decided.
Collect ==
    /\ bundle = Nothing
    /\ \E mode \in Mode \cup {"none"}, d \in 0..today, coverage \in {"complete", "partial"},
          version \in [Unit -> Versions(family)], flawed \in SUBSET Unit, f \in Flaw,
          mislabelled \in SUBSET Unit :
        LET q == [mode |-> mode, as_of |-> IF mode = "as_of" THEN d ELSE 0, at |-> today]
            says(u) == IF mode = "none" THEN "none"
                       ELSE IF u \in mislabelled THEN "in_force"
                       ELSE IF version[u] \in Eligible(family, EvaluatedFor(q))
                       THEN StatusOf(family, version[u], EvaluatedFor(q)) ELSE "none"
        IN bundle' = [question |-> q, view |-> family, coverage |-> coverage,
                      decision |-> IF mode = "none" THEN Nothing
                                   ELSE Resolve(family, coverage, mode, EvaluatedFor(q)),
                      units |-> [u \in Unit |->
                         [version |-> version[u], label |-> says(u),
                          flaw |-> IF u \in flawed THEN f ELSE "none"]]]
    /\ UNCHANGED <<family, today, admission, drifted, claim, attempt>>

\* The request of the status is read again, and its decision kept.
Reread ==
    /\ bundle # Nothing /\ admission = Nothing
    /\ bundle' = [bundle EXCEPT !.view = family]
    /\ UNCHANGED <<family, today, admission, drifted, claim, attempt>>

\* admit_official_evidence, for what the caller asks now
Admit ==
    /\ bundle # Nothing /\ admission = Nothing
    /\ \E mode \in {bundle.question.mode, "current", "none"} :
        LET asked == [mode |-> mode,
                      as_of |-> IF mode = "as_of" THEN bundle.question.as_of ELSE 0,
                      at |-> today]
        IN admission' = [asked |-> asked,
                         admitted |-> {u \in Unit : Admissible(bundle, asked, u)}]
    /\ UNCHANGED <<family, today, bundle, drifted, claim, attempt>>

\* A unit is altered between its admission and the verification.
Drift(u) ==
    /\ admission # Nothing /\ claim = Nothing
    /\ Cardinality({x \in Unit : drifted[x] # {}}) < MaxDrift
    /\ \E f \in Flaw : drifted' = [drifted EXCEPT ![u] = @ \cup {f}]
    /\ UNCHANGED <<family, today, bundle, admission, claim, attempt>>

\* The composer writes a claim and says what supports it.
Compose ==
    /\ admission # Nothing /\ claim = Nothing
    /\ \E text \in Wording, S \in SUBSET Unit, flawed, highRisk \in BOOLEAN :
        /\ text.tokens # {} /\ ~text.twisted
        /\ claim' = [text |-> text, supports |-> S, flawed |-> flawed, highRisk |-> highRisk]
    /\ UNCHANGED <<family, today, bundle, admission, drifted, attempt>>

\* execute_claim_verification up to the first call of the provider
Begin ==
    /\ claim # Nothing /\ attempt.pc = "none"
    /\ IF ~Verifiable THEN Fail("invalid_output", NoAttempt)
       ELSE \/ Fail("unavailable", NoAttempt)
            \/ \E released \in BOOLEAN :
                  attempt' = [NoAttempt EXCEPT !.pc = "asking", !.released = released,
                                 !.text = claim.text, !.ids = claim.supports]
    /\ UNCHANGED <<family, today, bundle, admission, drifted, claim>>

\* The attempt once an answer was recorded.
Evidence(J) == UNION {j.ids : j \in J}
Recorded(J, late) ==
    [attempt EXCEPT !.late = @ \/ late,
                    !.tries = Append(@, [text |-> attempt.text, ids |-> Evidence(J),
                                         outcome |-> WeakestOutcome(J)])]

\* What follows from judgments and the correction c that came with them.
Judged(J, c, a) ==
    /\ Evidence(J) \subseteq attempt.ids
    /\ (\A j \in J : j.outcome = "supported") => c = NoCorrection
    /\ IF WeakestOutcome(J) = "supported" THEN Succeed(a)
       ELSE IF attempt.corrected \/ c = NoCorrection
       THEN attempt' = [a EXCEPT !.pc = "ended",
                          !.result = Result("satisfied", WeakestOutcome(J),
                                            "evidence_only", a.text)]
       ELSE IF ~ValidCorrection(c) THEN Fail("invalid_output", a)
       ELSE attempt' = [a EXCEPT !.corrected = TRUE, !.text = c.text, !.ids = c.ids]

\* The provider answers in the contract.
Answer ==
    /\ attempt.pc = "asking"
    /\ \E J \in Verdicts, late \in BOOLEAN,
          c \in {NoCorrection} \cup [text : Wording, ids : (SUBSET Unit) \ {{}}] :
          Judged(J, c, Recorded(J, late))
    /\ UNCHANGED <<family, today, bundle, admission, drifted, claim>>

\* It does not: it times out, raises, or answers out of the contract.
NoAnswer ==
    /\ attempt.pc = "asking"
    /\ \E state \in {"timed_out", "unavailable", "invalid_output"} : Fail(state, attempt)
    /\ UNCHANGED <<family, today, bundle, admission, drifted, claim>>

PublicationNext ==
    \/ \E r \in 1..MaxVersion : ObserveVersion(r)
    \/ \E r, x \in 1..MaxVersion : ObserveEdge(r, x)
    \/ NextDay \/ Collect \/ Reread \/ Admit
    \/ \E u \in Unit : Drift(u)
    \/ Compose \/ Begin \/ Answer \/ NoAnswer

-----------------------------------------------------------------------------
\* Prose that was published says no more than the composer's claim, rests only
\* on evidence that was admitted for what was asked and is as it was admitted,
\* and was judged supported at the level its risk asks for, by a released
\* verifier in time, in at most two passes.  Where a legal status was asked for,
\* the version behind every unit is in force on the day in question, or is one
\* that ended when none is, and is called what it is.
PublishedIsGrounded ==
    attempt.pc = "ended" /\ attempt.result.mode = "prose" =>
        LET last == attempt.tries[Len(attempt.tries)]
            q == admission.asked
            d == EvaluatedFor(q)
            v == bundle.view
        IN /\ attempt.result.text.tokens \subseteq claim.text.tokens
           /\ attempt.result.text.tokens # {}
           /\ last.text = attempt.result.text /\ last.outcome = "supported"
           /\ Len(attempt.tries) <= 2 /\ attempt.released /\ ~attempt.late
           /\ last.ids # {} /\ last.ids \subseteq claim.supports
           /\ claim.supports \subseteq admission.admitted
           /\ \A u \in claim.supports :
                /\ bundle.units[u].flaw = "none" /\ drifted[u] \cap Rechecked = {}
                /\ q.mode \in {"current", "as_of"} =>
                     /\ q.at = bundle.question.at
                     /\ {bundle.units[u].label} = NewestStatuses(v, bundle.units[u].version, d)
                     /\ bundle.units[u].label \in {"in_force"} \cup Terminal
                     /\ bundle.units[u].label \in Terminal => With(v, d, {"in_force"}) = {}
                /\ q.mode = "draft" => bundle.units[u].label = "draft"

\* What is observed later about later days does not change what held on a day:
\* a version that became available after it, or a relationship that takes
\* effect after it.
AsOfIsStable ==
    \A d \in Day, mode \in Mode :
        /\ ~InvalidLineage(family) /\ ~InvalidLineage(family')
        /\ \A r \in DOMAIN family'.records \ Versions(family) : family'.records[r].avail > d
        /\ \A e \in family'.edges \ family.edges : e.on > d
        => Resolve(family', "complete", mode, d) = Resolve(family, "complete", mode, d)
==============================================================================
