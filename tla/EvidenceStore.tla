---------------------------- MODULE EvidenceStore ----------------------------
(***************************************************************************)
(* What the benchmark database promises to its readers: under each run id  *)
(* there is the evidence of at most one recording, whole, and the workload *)
(* contexts filed with it are those of that same recording, all of them,   *)
(* or none.  A recording replaces the evidence of its run id in one step,  *)
(* and only the recording a run id currently holds can add its contexts.   *)
(***************************************************************************)
CONSTANTS
  Runs,        \* run ids
  Recorders,   \* recordings: executions of a workload that end in record_run
  RunOf        \* the --run-id of each recording, [Recorders -> Runs]

VARIABLE evidence   \* what is held under each run id: a set of at most one
                    \* [by: recording, contexts: recordings] record

StoreInit == evidence = [r \in Runs |-> {}]

\* The evidence of recording w replaces whatever its run id held.
Publish(w) ==
  evidence' = [evidence EXCEPT ![RunOf[w]] = {[by |-> w, contexts |-> {}]}]

\* Recording w, still the current one, adds its contexts.
Segment(w) ==
  /\ \E e \in evidence[RunOf[w]] : e.by = w
  /\ evidence' = [evidence EXCEPT ![RunOf[w]] = {[by |-> w, contexts |-> {w}]}]

StoreNext == \E w \in Recorders : Publish(w) \/ Segment(w)

StoreSpec == StoreInit /\ [][StoreNext]_evidence
=============================================================================
