--------------------------- MODULE MCBenchmarkRun ---------------------------
(* Bounded instances of BenchmarkRun and of what is derived from its runs. *)
EXTENDS Reconciliation

\* One transient and one permanent failure.
MCSdkErrors == {[named |-> "timeout", status |-> 0], [named |-> "other", status |-> 400]}

MCTransientError == {[named |-> "timeout", status |-> 0]}

\* No budget, one that refuses the dearer estimate, one that refuses every
\* estimate but a free one, and an invalid one.
MCBudgets == {NoBudget, 2, 0, -1}

\* A tag all items share, one that tells them apart and one only the first has.
MCTags ==
  [i \in 1 .. WorkloadSize |->
     {<< "suite", 0 >>, << "task", i >>} \cup (IF i = 1 THEN {<< "hard", 0 >>} ELSE {})]
=============================================================================
