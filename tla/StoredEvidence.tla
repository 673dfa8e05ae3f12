---------------------------- MODULE StoredEvidence ----------------------------
(***************************************************************************)
(* Cost evidence as the versions of this program stored it, and what the   *)
(* present one reads out of it: a line of the request or route log         *)
(* (infrastructure/telemetry/request_log.py), a row of the trace, usage or *)
(* route table, a stored report (benchmarking/sqlite_ledger.py).           *)
(*                                                                         *)
(* A record is                                                             *)
(*   [attempts |-> sequence of [cost, proven], attemptCount, error, cost,  *)
(*    complete]                                                            *)
(* where an attempt is "proven" when it names its price record.  A column  *)
(* or key an old version did not write has the same default in both        *)
(* stores: one attempt, no retry, no attempt list, cost claimed complete.  *)
(* The retry count is max(attemptCount - 1, 0) on every path.              *)
(***************************************************************************)
EXTENDS Evidence

-----------------------------------------------------------------------------
(* Attempts *)

\* A calculated cost that does not name its price record is unknown.
NormalizedAttempt(attempt) ==
  IF CostIsKnown(attempt) /\ ~attempt.proven THEN [attempt EXCEPT !.cost = Unknown] ELSE attempt

Normalized(attempts) == [i \in DOMAIN attempts |-> NormalizedAttempt(attempts[i])]

\* An execution that failed or was retried, of which no attempt was kept.
AmbiguousLegacy(record) ==
  /\ record.attempts = << >> /\ record.attemptCount > 0
  /\ record.error # NoError \/ record.attemptCount > 1

HasUnknownAttempt(attempts) == attempts # << >> /\ ~AllCostsKnown(attempts)

-----------------------------------------------------------------------------
(* Reading a request *)

WithoutCost(record) == [record EXCEPT !.complete = FALSE, !.cost = Unknown]

\* _request_trace_from_dict: a line of the request log.
ReadLine(line) ==
  LET record == [line EXCEPT !.attempts = Normalized(@)]
  IN  IF AmbiguousLegacy(record) \/ HasUnknownAttempt(record.attempts)
        THEN WithoutCost(record) ELSE record

\* _trace_from_row and _usage_from_row.
ReadRow(row) ==
  LET record == [row EXCEPT !.attempts = Normalized(@)]
  IN  IF ~record.complete \/ HasUnknownAttempt(record.attempts)
        THEN WithoutCost(record) ELSE record

\* _downgrade_ambiguous_legacy_costs, for one row.
AmbiguityDowngraded(row) == IF AmbiguousLegacy(row) THEN WithoutCost(row) ELSE row

\* _downgrade_legacy_attempt_provenance, for one row.
ProvenanceDowngraded(row) ==
  IF Normalized(row.attempts) = row.attempts THEN row
  ELSE [WithoutCost(row) EXCEPT !.attempts = Normalized(@)]

-----------------------------------------------------------------------------
(* Reading a run *)

\* Mutant: the report is returned as it was stored.
ReportAsStored(report, rows) ==
  [complete |-> report.flag # "cleared", cost |-> report.cost]

\* get_report: the stored aggregate is suppressed when a trace of the run has
\* no known cost; a report older than the flag claims its cost only if nothing
\* failed and nothing was retried.
ReadReport(report, rows) ==
  LET unknown == \E row \in rows : ~row.complete \/ row.cost = Unknown
      complete == CASE unknown -> FALSE
                    [] ~unknown /\ report.flag = "absent" -> report.failures = 0 /\ report.retries = 0
                    [] OTHER -> report.flag = "set"
  IN  [complete |-> complete, cost |-> IF complete THEN report.cost ELSE Unknown]

\* get_provider_usage_summary, over the usage records of a run by request.
UsageSummary(usage) ==
  LET complete == \A h \in DOMAIN usage : usage[h].complete /\ usage[h].cost # Unknown
  IN  [ complete |-> complete,
        cost |-> IF complete THEN Total([h \in DOMAIN usage |-> usage[h].cost]) ELSE Unknown ]

-----------------------------------------------------------------------------
(* Routes: [cost, quote], the quote being the amount its terms give, or Unknown *)

\* RouteTrace.__post_init__, and the amount PricingQuote.__post_init__ asks for.
RouteIsValid(route) == route.cost = route.quote

\* _route_trace_from_dict: a line of the route log.
ReadRouteLine(line) ==
  CASE line.quote = Unknown -> [line EXCEPT !.cost = Unknown]
    [] line.quote # Unknown /\ line.cost = Unknown -> [line EXCEPT !.cost = line.quote]
    [] OTHER -> line

\* _route_from_row: a route row and the evidence row of the LEFT JOIN, if any.
ReadRouteRow(row) == IF row.quote = Unknown THEN [row EXCEPT !.cost = Unknown] ELSE row
=============================================================================
