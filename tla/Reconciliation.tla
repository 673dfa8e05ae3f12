---------------------------- MODULE Reconciliation ----------------------------
(***************************************************************************)
(* What is derived from a stored run when it is exported: the              *)
(* reconciliation of each route's estimate with the cost its execution     *)
(* observed (benchmarking/reconciliation.py) and the evidence of each      *)
(* workload segment (benchmarking/segmentation.py).  Both are pure         *)
(* functions of the rows in the ledger; they are applied here to the runs  *)
(* BenchmarkRun can store.                                                 *)
(*                                                                         *)
(* A route of this runner always carries a quote, so a route without cost  *)
(* evidence does not occur.  Models, latencies, quality and ratios of two  *)
(* derived amounts are left out.                                           *)
(***************************************************************************)
EXTENDS BenchmarkRun

CONSTANT Tags    \* the tags of each workload item: sets of << key, value >>

ASSUME TagsAssumption ==
  DOMAIN Tags = 1 .. WorkloadSize /\ \A i \in 1 .. WorkloadSize : IsFiniteSet(Tags[i])

IdSet(records) == Range(Ids(records))

\* _unique_by_request_id: the record of a request that has one.
ById(records, id) == CHOOSE record \in ToSet(records) : record.id = id

-----------------------------------------------------------------------------
(* One request *)

\* Mutant: a request that cost nothing was not executed.
NotExecutedIfFree(execution) == execution.cost = 0

NotExecuted(execution) == execution.attemptCount = 0

Status(routeRows, executions, id) ==
  LET execution == ById(executions, id)
  IN  CASE id \notin IdSet(routeRows) -> "missing_route"
        [] id \in IdSet(routeRows) /\ id \notin IdSet(executions) -> "missing_execution"
        [] id \in IdSet(routeRows) \cap IdSet(executions) ->
             CASE NotExecuted(execution) -> "not_executed"
               [] ~NotExecuted(execution) /\ ~execution.complete -> "execution_cost_incomplete"
               [] OTHER -> IF execution.error = NoError THEN "comparable_success"
                                                        ELSE "comparable_failure"

ComparableStatuses == {"comparable_success", "comparable_failure"}

\* _successful_final_attempt_cost.
FinalAttemptCost(execution) ==
  CASE execution.error # NoError -> Unknown
    [] execution.error = NoError /\ execution.attempts # << >> ->
         LET final == Last(execution.attempts)
         IN  IF final.outcome = "succeeded" THEN final.cost ELSE Unknown
    [] OTHER -> IF execution.attemptCount = 1 THEN execution.cost ELSE Unknown

\* What the attempts before the last one cost.
NonFinalCost(execution) ==
  IF FinalAttemptCost(execution) = Unknown THEN Unknown
  ELSE execution.cost - FinalAttemptCost(execution)

-----------------------------------------------------------------------------
(* A run *)

Comparable(routeRows, executions) ==
  {id \in IdSet(routeRows) \cup IdSet(executions) :
     Status(routeRows, executions, id) \in ComparableStatuses}

\* reconcile_run_costs: the totals over the comparable requests, of what their
\* routes estimated and of what their executions cost.
ReconcileRun(routeRows, executions) ==
  LET comparable == Comparable(routeRows, executions)
  IN  [ comparable |-> comparable,
        estimated |-> Total([id \in comparable |-> ById(routeRows, id).estimate]),
        observed |-> Total([id \in comparable |-> ById(executions, id).cost]) ]

-----------------------------------------------------------------------------
(* Segments *)

\* The requests of a segment: those whose workload item has the tag.
Members(ids, tag) == {id \in ids : tag \in Tags[id[2]]}

\* Mutant: a segment adds up the costs it knows.
SegmentOfKnown(executions, members) ==
  LET known == {id \in members : ById(executions, id).complete}
  IN  [ requests |-> Cardinality(members),
        attempts |-> Total([id \in members |-> ById(executions, id).attemptCount]),
        complete |-> known # {},
        cost |-> IF known # {} THEN Total([id \in known |-> ById(executions, id).cost])
                 ELSE Unknown ]

\* _summarize_segment.
Segment(executions, members) ==
  LET complete == \A id \in members : ById(executions, id).complete
  IN  [ requests |-> Cardinality(members),
        attempts |-> Total([id \in members |-> ById(executions, id).attemptCount]),
        complete |-> complete,
        cost |-> IF complete THEN Total([id \in members |-> ById(executions, id).cost])
                 ELSE Unknown ]

-----------------------------------------------------------------------------
(* Properties *)

\* The request's provider charges, from the stored history.
ChargedFor(id) == ById(stored.traces, id).charged

\* The observed total of a reconciled run is what the provider charged for the
\* comparable requests, and the cost attributed to the attempts before the
\* last of a request is what those attempts were charged.  The gaps hide no
\* spending: a request reported as not executed, or as having no route, was
\* never charged, and no route lacks its execution.
ReconciliationIsTrue ==
  stored # NoRecord =>
    LET run == ReconcileRun(stored.routes, stored.traces)
    IN  /\ run.observed = Total([id \in run.comparable |-> Total(ChargedFor(id))])
        /\ \A id \in run.comparable :
             LET nonFinal == NonFinalCost(ById(stored.traces, id))
             IN  nonFinal # Unknown => nonFinal = Total(Front(ChargedFor(id)))
        /\ \A id \in IdSet(stored.routes) \cup IdSet(stored.traces) :
             LET status == Status(stored.routes, stored.traces, id)
             IN  /\ status # "missing_execution"
                 /\ status \in {"not_executed", "missing_route"} => ChargedFor(id) = << >>

\* A segment that claims a cost claims what the provider charged for all its
\* requests, and over a tag key that every item carries the segments add up to
\* the report: requests and attempts always, cost when it is complete, which
\* it is exactly when that of every segment is.
SegmentsReconstructRun ==
  stored # NoRecord /\ stored.contexts # << >> =>
    LET ids == Range(stored.contexts)
        tagsInUse == UNION {Tags[id[2]] : id \in ids}
        segments == [tag \in tagsInUse |-> Segment(stored.traces, Members(ids, tag))]
        values(key) == {tag \in tagsInUse : tag[1] = key}
    IN  /\ \A tag \in tagsInUse : segments[tag].complete =>
             segments[tag].cost =
               Total([id \in Members(ids, tag) |-> Total(ChargedFor(id))])
        /\ \A key \in {tag[1] : tag \in tagsInUse} :
             (\A id \in ids : Cardinality(Tags[id[2]] \cap values(key)) = 1) =>
               /\ stored.report.requests = Total([tag \in values(key) |-> segments[tag].requests])
               /\ stored.report.attempts = Total([tag \in values(key) |-> segments[tag].attempts])
               /\ stored.report.complete <=> \A tag \in values(key) : segments[tag].complete
               /\ stored.report.complete =>
                    stored.report.cost = Total([tag \in values(key) |-> segments[tag].cost])
=============================================================================
