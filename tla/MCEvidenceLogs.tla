----------------------------- MODULE MCEvidenceLogs -----------------------------
(* Bounded instance of BenchmarkRun with its log files: one kind of failure, *)
(* so that several processes, crashes and edits fit.                         *)
EXTENDS EvidenceLogs

MCTransientError == {[named |-> "timeout", status |-> 0]}

MCTags == [i \in 1 .. WorkloadSize |-> {<< "suite", 0 >>}]
=============================================================================
