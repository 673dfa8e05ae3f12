--------------------------- MODULE PairedStatistics ---------------------------
(***************************************************************************)
(* The metrics of a paired comparison (benchmarking/paired_comparison.py)  *)
(* and what their estimates may claim (benchmarking/statistics.py): pure   *)
(* functions of the executions of the same workload items in two runs.     *)
(*                                                                         *)
(* An observation is [baseline, candidate], two records of StoredEvidence  *)
(* with "accepted", TRUE or FALSE, or Undetermined without an evaluation.  *)
(* A mean difference is kept as the difference of the sums and the number  *)
(* of pairs.  The bounds of a confidence interval, which come out of a     *)
(* bootstrap, are left out: only whether there is one is kept.  Latencies  *)
(* are left out.                                                           *)
(***************************************************************************)
EXTENDS StoredEvidence, FiniteSets

CONSTANTS
  Undetermined,          \* quality_passed is None
  MinimumSamples,        \* --minimum-samples
  MinimumDiscordant      \* _MINIMUM_BINARY_DISCORDANT_PAIRS (10 in the code)

ASSUME StatisticsAssumption ==
  /\ Undetermined \notin BOOLEAN
  /\ MinimumSamples \in Nat \ {0, 1} /\ MinimumDiscordant \in Nat

-----------------------------------------------------------------------------
(* Estimates *)

\* paired_mean_difference_bca over the pairs [baseline, candidate] of numbers.
Estimate(pairs, minimumChanged) ==
  LET items == DOMAIN pairs
      difference == [i \in items |-> pairs[i].candidate - pairs[i].baseline]
      changed == {i \in items : difference[i] # 0}
      status == CASE items = {} -> "no_evidence"
                  [] items # {} /\ Cardinality(items) < MinimumSamples -> "insufficient_sample"
                  [] Cardinality(items) >= MinimumSamples
                       /\ (\/ Cardinality(Range(difference)) = 1
                           \/ Cardinality(changed) < minimumChanged) -> "insufficient_variation"
                  [] OTHER -> "sufficient"
  IN  [ status |-> status, pairs |-> Cardinality(items),
        difference |-> Total(difference), interval |-> status = "sufficient" ]

\* _metric_evidence: the items whose two values can be told, and the estimate
\* over them.
MetricEvidence(observations, IsEligible(_), Value(_), minimumChanged) ==
  LET eligible == {i \in DOMAIN observations :
                     /\ IsEligible(observations[i].baseline)
                     /\ IsEligible(observations[i].candidate)}
  IN  Estimate([i \in eligible |-> [ baseline |-> Value(observations[i].baseline),
                                     candidate |-> Value(observations[i].candidate) ]],
               minimumChanged)

-----------------------------------------------------------------------------
(* Metrics *)

Always(record) == TRUE

HasCost(record) == record.complete /\ record.cost # Unknown

CostOf(record) == record.cost

\* Mutant: a cost that is not known counts as zero.
CostOrZero(record) == IF record.cost = Unknown THEN 0 ELSE record.cost

\* Mutant: every pair is eligible.
CostEvidenceOfAll(observations) == MetricEvidence(observations, Always, CostOrZero, 0)

\* execution_cost_usd.
CostEvidence(observations) == MetricEvidence(observations, HasCost, CostOf, 0)

FailureOf(record) == IF record.error = NoError THEN 0 ELSE 1

\* failure_rate.
FailureEvidence(observations) ==
  MetricEvidence(observations, Always, FailureOf, MinimumDiscordant)

\* _request_acceptance: a failure is not accepted, whatever its evaluation.
AcceptanceIsKnown(record) == record.error # NoError \/ record.accepted # Undetermined

AcceptanceOf(record) == IF record.error = NoError /\ record.accepted THEN 1 ELSE 0

\* accepted_outcome_rate.
AcceptanceEvidence(observations) ==
  MetricEvidence(observations, AcceptanceIsKnown, AcceptanceOf, MinimumDiscordant)

AttemptsOf(record) == record.attemptCount

\* _metric_bundle: execution_cost_usd, failure_rate, accepted_outcome_rate and
\* provider_attempt_count.  The retry count follows the attempt count.
MetricBundle(observations) ==
  [ cost |-> CostEvidence(observations), failures |-> FailureEvidence(observations),
    accepted |-> AcceptanceEvidence(observations),
    attempts |-> MetricEvidence(observations, Always, AttemptsOf, 0) ]
=============================================================================
