-------------------------- MODULE MCLedgerMigration --------------------------
(***************************************************************************)
(* Bounded instance of LedgerMigration: two processes, and one historical  *)
(* request of each kind that the readers or the upgrade tell apart.  One   *)
(* process records a priced request, the other one that was retried.       *)
(***************************************************************************)
EXTENDS LedgerMigration, TLC

CONSTANTS p1, p2, single, failure, retried, refused, unproven, proven, partial

MCHistory == {single, failure, retried, refused, unproven, proven, partial}

MCRecord(attempts, count, error, cost) ==
  [ attempts |-> attempts, attemptCount |-> count, error |-> error, cost |-> cost,
    complete |-> cost # Unknown ]

MCPriced(cost) == [cost |-> cost, proven |-> TRUE]
MCUnpriced == [cost |-> Unknown, proven |-> FALSE]

MCRecorded ==
  single :> MCRecord(<< >>, 1, NoError, 1) @@
  failure :> MCRecord(<< >>, 1, "timeout", 0) @@
  retried :> MCRecord(<< >>, 2, NoError, 1) @@
  refused :> MCRecord(<< >>, 0, "budget_violation", 0) @@
  unproven :> MCRecord(<< [cost |-> 2, proven |-> FALSE] >>, 1, NoError, 2) @@
  proven :> MCRecord(<< MCPriced(2) >>, 1, NoError, 2) @@
  partial :> MCRecord(<< MCUnpriced, MCPriced(1) >>, 2, NoError, Unknown) @@
  p1 :> MCRecord(<< MCPriced(1) >>, 1, NoError, 1) @@
  p2 :> MCRecord(<< MCUnpriced, MCPriced(2) >>, 2, NoError, Unknown)

\* With its quote, from before quotes were kept, and without a cost.
MCRoutes ==
  { [cost |-> 1, quote |-> 1], [cost |-> 1, quote |-> Unknown],
    [cost |-> Unknown, quote |-> Unknown] }
=============================================================================
