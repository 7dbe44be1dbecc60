---------------------------- MODULE GateVerdict ----------------------------
(***************************************************************************)
(* The verdict of the deployment gate (backend/app/services/               *)
(* deployment_gate/evidence.py, metrics.py, regression.py, policy.py and   *)
(* evaluator.py): which stored results count, the metrics over them, the   *)
(* rules of a policy and the verdict they lead to, while runs complete,    *)
(* or fail, results are revised and reviewed, cases retired and baselines  *)
(* promoted.                                                               *)
(*                                                                         *)
(* Scores and thresholds are in tenths.  Of the metrics that share a       *)
(* formula one stands for all.  DeploymentGate has the transactions.       *)
(***************************************************************************)
EXTENDS Integers, Sequences, FiniteSets, SequencesExt

CONSTANTS
    Cases,       \* evaluation cases of the suite
    Critical,    \* those with criticality "critical"
    Runs,        \* benchmark runs of the configuration
    Synthetic,   \* the runs whose data_source is synthetic_demo
    Contents,    \* what a result may hold, of type StoredResult
    NoValue,     \* None
    Scores,      \* scores a review may give
    GatePolicies,   \* policies: [rules, allow_conditional]
    MaxRows,     \* bound of the model on stored results
    MaxPromotions   \* bound of the model on promotions

StoredResult ==
    [outcome: {"valid", "invalid", "oom"}, quality: (0..10) \cup {NoValue}, latency: Nat]

\* The metrics by the direction of their definitions.
HigherIsBetter ==
    {"mean_quality_score", "json_validity_rate", "real_case_count", "critical_case_count",
     "quality_regression_vs_baseline"}

LowerIsBetter ==
    {"p95_end_to_end_latency_ms", "oom_rate", "critical_case_failure_rate",
     "latency_regression_vs_baseline"}

ASSUME VerdictAssumption ==
    /\ IsFiniteSet(Cases) /\ Critical \subseteq Cases
    /\ IsFiniteSet(Runs) /\ Synthetic \subseteq Runs
    /\ Scores \subseteq 0..10
    /\ {MaxRows, MaxPromotions} \subseteq Nat
    /\ Contents \subseteq StoredResult
    /\ \A p \in GatePolicies :
          /\ p.allow_conditional \in BOOLEAN
          /\ \A r \in p.rules : /\ r.metric \in HigherIsBetter \cup LowerIsBetter
                                /\ r.operator \in {"gte", "lte", "eq", "gt", "lt"}
                                /\ r.threshold \in Int /\ r.minimum \in Nat
                                /\ r.severity \in {"blocker", "warning"}

VARIABLES
    revisions,  \* revisions[s]: the result of sample s and its revisions, in order
    aborted,    \* the runs with status "failed"
    active,     \* the cases with is_active
    scorecard,  \* scorecard[p]: the metrics of p's active baseline, or <<>>
    promotions

verdictVars == <<revisions, aborted, active, scorecard, promotions>>

-----------------------------------------------------------------------------
(* collect_evidence *)

\* The samples of a run are those of the cases it covers.
Samples == Runs \X Cases

\* Results of completed runs for active cases.  A revision has a run of its own,
\* which is completed, also when the run it revises had failed.
Selected ==
    {s \in Samples : /\ s[2] \in active
                     /\ Len(revisions[s]) > IF s[1] \in aborted THEN 1 ELSE 0}

\* Mutant of Latest: the original hides its revisions.
LatestIsFirst(s) == Head(revisions[s])

\* _latest_result_revisions
Latest(s) == Last(revisions[s])

Real(s) == s[1] \notin Synthetic

MandatoryEvidenceMissing == active = {} \/ Selected = {}

OnlySynthetic == Selected # {} /\ \A s \in Selected : ~Real(s)

-----------------------------------------------------------------------------
(* calculate_metrics: a metric is a fraction value / of over size samples,  *)
(* or has of = 0 where the code has None.                                   *)

Missing == [value |-> 0, of |-> 0, size |-> 0]

Fraction(value, of) == [value |-> value, of |-> of, size |-> of]

Count(n) == [value |-> n, of |-> 1, size |-> n]

Scored == {s \in Selected : Latest(s).quality # NoValue}

\* _mean
MeanQuality ==
    Fraction(SumFunction([s \in Scored |-> Latest(s).quality]), Cardinality(Scored))

\* The rates over json_valid, tool_call_valid, the traces and oom_occurred.
Rate(outcomes) ==
    Fraction(10 * Cardinality({s \in Selected : Latest(s).outcome \in outcomes}),
             Cardinality(Selected))

\* The value at index ceil(0.95 * n) - 1 of the values in order (_percentile).
Rank95(n) == (95 * n + 99) \div 100

P95Latency ==
    IF Selected = {} THEN Missing
    ELSE LET upTo(v) == {s \in Selected : Latest(s).latency <= v}
             n == Cardinality(Selected)
             p95 == CHOOSE v \in {Latest(s).latency : s \in Selected} :
                       /\ Cardinality(upTo(v)) >= Rank95(n)
                       /\ Cardinality(upTo(v - 1)) < Rank95(n)
         IN  [value |-> p95, of |-> 1, size |-> n]

\* _is_critical_failure
IsCriticalFailure(s) ==
    /\ s[2] \in Critical
    /\ \/ Latest(s).outcome # "valid"
       \/ Latest(s).quality # NoValue /\ Latest(s).quality < 8

\* critical_case_outcomes
CriticalFailures == {s \in Selected : IsCriticalFailure(s)}

CriticalFailureRate ==
    Fraction(10 * Cardinality(CriticalFailures),
             Cardinality({s \in Selected : s[2] \in Critical}))

RealCases == {s[2] : s \in {x \in Selected : Real(x)}}

\* The metrics by key.
CalculatedMetric(key) ==
    CASE key = "mean_quality_score" -> MeanQuality
      [] key = "json_validity_rate" -> Rate({"valid"})
      [] key = "oom_rate" -> Rate({"oom"})
      [] key = "p95_end_to_end_latency_ms" -> P95Latency
      [] key = "critical_case_failure_rate" -> CriticalFailureRate
      [] key = "real_case_count" -> Count(Cardinality(RealCases))
      [] key = "critical_case_count" ->
            Count(Cardinality({s[2] : s \in Selected} \cap Critical))

\* The metrics a later evaluation is compared in.
Comparable == {"mean_quality_score", "p95_end_to_end_latency_ms"}

\* apply_baseline_regressions: the metric minus the baseline's.
Delta(metric, baseline) ==
    IF metric.of = 0 \/ baseline.of = 0 THEN Missing
    ELSE [value |-> metric.value * baseline.of - baseline.value * metric.of,
          of |-> metric.of * baseline.of, size |-> metric.size]

Regression(p, key) ==
    IF scorecard[p] = <<>> THEN Missing
    ELSE Delta(CalculatedMetric(key), scorecard[p][1][key])

-----------------------------------------------------------------------------
(* evaluate_policy_rules and _resolve_verdict *)

MetricOf(p, key) ==
    CASE key = "quality_regression_vs_baseline" -> Regression(p, "mean_quality_score")
      [] key = "latency_regression_vs_baseline" -> Regression(p, "p95_end_to_end_latency_ms")
      [] OTHER -> CalculatedMetric(key)

Compare(m, operator, threshold) ==
    CASE operator = "gte" -> m.value >= threshold * m.of
      [] operator = "lte" -> m.value <= threshold * m.of
      [] operator = "eq" -> m.value = threshold * m.of
      [] operator = "gt" -> m.value > threshold * m.of
      [] operator = "lt" -> m.value < threshold * m.of

\* The status of a rule over a metric.
RuleStatus(rule, m) ==
    CASE m.of = 0 \/ m.size < rule.minimum -> "insufficient"
      [] m.of # 0 /\ m.size >= rule.minimum ->
            IF Compare(m, rule.operator, rule.threshold) THEN "pass" ELSE "fail"

Having(p, status) == {r \in p.rules : RuleStatus(r, MetricOf(p, r.metric)) = status}

\* Mutant of Resolved: a failed warning rule is looked at before the critical cases.
ResolvedWarningsFirst(p) ==
    LET failed == {r.severity : r \in Having(p, "fail")}
    IN  IF "blocker" \in failed THEN "BLOCKED"
        ELSE IF "warning" \in failed
             THEN IF p.allow_conditional THEN "CONDITIONAL" ELSE "BLOCKED"
             ELSE IF CriticalFailures # {} THEN "BLOCKED" ELSE "APPROVED"

Resolved(p) ==
    LET failed == {r.severity : r \in Having(p, "fail")}
    IN  IF "blocker" \in failed \/ CriticalFailures # {} THEN "BLOCKED"
        ELSE IF "warning" \in failed
             THEN IF p.allow_conditional THEN "CONDITIONAL" ELSE "BLOCKED"
             ELSE "APPROVED"

GateVerdictOf(p) ==
    IF \/ MandatoryEvidenceMissing \/ OnlySynthetic
       \/ \E r \in Having(p, "insufficient") : r.required
    THEN "INSUFFICIENT_EVIDENCE" ELSE Resolved(p)

-----------------------------------------------------------------------------
(* What changes the evidence *)

StoredResults == SumFunction([s \in Samples |-> Len(revisions[s])])

\* Results of a run for some of the active cases.
StoreResults(run, content) ==
    /\ \A c \in Cases : revisions[<<run, c>>] = <<>>
    /\ DOMAIN content # {}
    /\ revisions' = [s \in Samples |-> IF s[1] = run /\ s[2] \in DOMAIN content
                                      THEN <<content[s[2]]>> ELSE revisions[s]]

CompleteRun(run, content) ==
    /\ StoreResults(run, content)
    /\ UNCHANGED <<aborted, active, scorecard, promotions>>

\* The run breaks off: the results of the trials before are committed with it.
FailRun(run, content) ==
    /\ StoreResults(run, content)
    /\ aborted' = aborted \cup {run}
    /\ UNCHANGED <<active, scorecard, promotions>>

\* _apply_persisted_decisions: a decision or a resume appends a revision.
Revise(s, content) ==
    /\ revisions[s] # <<>>
    /\ revisions' = [revisions EXCEPT ![s] = Append(@, content)]
    /\ UNCHANGED <<aborted, active, scorecard, promotions>>

\* A judge label is applied to a result in place, be it revised or not.
ApplyReview(s, i, score) ==
    /\ revisions' = [revisions EXCEPT ![s][i].quality = score]
    /\ UNCHANGED <<aborted, active, scorecard, promotions>>

RetireCase(c) ==
    /\ c \in active
    /\ active' = active \ {c}
    /\ UNCHANGED <<revisions, aborted, scorecard, promotions>>

\* An evaluation that approves is promoted: later ones are compared with it.
PromoteBaseline(p) ==
    /\ promotions < MaxPromotions
    /\ GateVerdictOf(p) = "APPROVED"
    /\ scorecard' = [scorecard EXCEPT ![p] = <<[key \in Comparable |-> CalculatedMetric(key)]>>]
    /\ promotions' = promotions + 1
    /\ UNCHANGED <<revisions, aborted, active>>

VerdictInit ==
    /\ revisions = [s \in Samples |-> <<>>]
    /\ aborted = {}
    /\ active = Cases
    /\ scorecard = [p \in GatePolicies |-> <<>>]
    /\ promotions = 0

VerdictNext ==
    \/ \E run \in Runs, covered \in SUBSET active : \E content \in [covered -> Contents] :
          /\ StoredResults + Cardinality(covered) <= MaxRows
          /\ CompleteRun(run, content) \/ FailRun(run, content)
    \/ \E s \in Samples, content \in Contents : StoredResults < MaxRows /\ Revise(s, content)
    \/ \E s \in Samples, score \in Scores : \E i \in DOMAIN revisions[s] :
          ApplyReview(s, i, score)
    \/ \E c \in Cases : RetireCase(c)
    \/ \E p \in GatePolicies : PromoteBaseline(p)

VerdictSpec == VerdictInit /\ [][VerdictNext]_verdictVars

-----------------------------------------------------------------------------
(* Properties *)

VerdictTypeOK ==
    /\ revisions \in [Samples -> Seq(StoredResult)]
    /\ StoredResults <= MaxRows
    /\ aborted \subseteq Runs
    /\ active \subseteq Cases
    /\ scorecard \in [GatePolicies -> Seq([Comparable -> [value: Nat, of: Nat, size: Nat]])]
    /\ \A p \in GatePolicies : Len(scorecard[p]) <= 1
    /\ promotions \in 0..MaxPromotions

\* The revision a reader of sample s sees last.
Current(s) == revisions[s][Len(revisions[s])]

\* Some version of sample s stands in a run that completed.
Stands(s) == \E i \in DOMAIN revisions[s] : i > 1 \/ s[1] \notin aborted

\* An approved evaluation rests on real evidence for a case of the suite, from a
\* run that completed; each critical case did well in its last revision in every
\* such run, synthetic ones included; a bound on the p95 latency leaves at most
\* one result in twenty above it, and a bound on the regression of the mean
\* quality against an active baseline no larger drop, if there are as many
\* results as the rule asks for.
ApprovalIsEarned ==
    LET counted == {s \in Runs \X active : Stands(s)}
        scored == {s \in counted : Current(s).quality # NoValue}
    IN  \A p \in GatePolicies : GateVerdictOf(p) = "APPROVED" =>
           /\ \E s \in counted : s[1] \notin Synthetic
           /\ \A s \in counted : s[2] \in Critical =>
                 Current(s).outcome = "valid" /\ Current(s).quality \in (8..10) \cup {NoValue}
           /\ \A r \in p.rules :
                 /\ /\ r.metric = "p95_end_to_end_latency_ms" /\ r.operator = "lte"
                    /\ Cardinality(counted) >= r.minimum
                    => 20 * Cardinality({s \in counted : Current(s).latency > r.threshold})
                          <= Cardinality(counted)
                 /\ /\ r.metric = "quality_regression_vs_baseline" /\ r.operator = "gte"
                    /\ scorecard[p] # <<>> /\ scored # {} /\ Cardinality(scored) >= r.minimum
                    => LET was == scorecard[p][1].mean_quality_score
                       IN  was.of * SumFunction([s \in scored |-> Current(s).quality - r.threshold])
                             >= was.value * Cardinality(scored)

\* What a verdict allows.
Rank == [INSUFFICIENT_EVIDENCE |-> 0, BLOCKED |-> 1, CONDITIONAL |-> 2, APPROVED |-> 3]

\* Content b is nowhere better than a, and has a score where a has one.
NoBetter(a, b) ==
    /\ b.outcome = a.outcome \/ a.outcome = "valid"
    /\ (a.quality = NoValue) = (b.quality = NoValue)
    /\ a.quality # NoValue => b.quality <= a.quality
    /\ b.latency >= a.latency

\* The rule bounds its metric on its worse side, or asks that a rate be zero.
BoundsTheWorseSide(r) ==
    \/ r.metric \in HigherIsBetter /\ r.operator \in {"gte", "gt"}
    \/ r.metric \in LowerIsBetter /\ r.operator \in {"lte", "lt"}
    \/ /\ r.metric \in {"oom_rate", "critical_case_failure_rate"}
       /\ r.operator = "eq" /\ r.threshold = 0

\* Under a policy of such rules, a revision or a review that makes evidence
\* worse never leads to a verdict that allows more: not through the order in
\* which the verdict looks at its reasons, the rounding of a percentile, a rule
\* over a regression or a revision that is not counted.
WorseNeverHelps ==
    [][ (/\ revisions' # revisions
         /\ \A s \in Samples : revisions'[s] # revisions[s] =>
               Stands(s) /\ NoBetter(Current(s), revisions'[s][Len(revisions'[s])]))
        => \A p \in GatePolicies :
              (\A r \in p.rules : BoundsTheWorseSide(r)) =>
                 Rank[GateVerdictOf(p)'] <= Rank[GateVerdictOf(p)] ]_verdictVars
=============================================================================
