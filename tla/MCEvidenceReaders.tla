-------------------------- MODULE MCEvidenceReaders --------------------------
(***************************************************************************)
(* Bounded instance of EvidenceReaders: the baseline run is recorded       *)
(* twice, by processes that may overlap, the second time from an edited    *)
(* workload (same items, another hash) and without a cost for one item;    *)
(* the candidate is recorded once.  A tag of all items, one that tells two *)
(* of them from the third, and one that only the third has.                *)
(***************************************************************************)
EXTENDS EvidenceReaders, TLC

CONSTANTS b, c, w1, w2, w3

MCItems == {1, 2, 3}

MCRunOf == w1 :> b @@ w2 :> b @@ w3 :> c
MCItemsOf == [w \in Recorders |-> MCItems]
MCShaOf == w1 :> "sha1" @@ w2 :> "sha2" @@ w3 :> "sha1"
MCTagsOf == [w \in Recorders |-> [i \in MCItems |-> 
  {<< "suite", 0 >>, << "task", i % 2 >>} \cup (IF i = 3 THEN {<< "hard", 0 >>} ELSE {})]]
MCRoutedBy == w1 :> MCItems @@ w2 :> {1, 2} @@ w3 :> MCItems

MCPaid(cost, accepted) ==
  [ attempts |-> << [cost |-> cost, proven |-> TRUE] >>, attemptCount |-> 1, error |-> NoError,
    cost |-> cost, complete |-> TRUE, accepted |-> accepted, charged |-> cost ]

\* A request that failed, for which the provider charged all the same.
MCFailed(charged) ==
  [ attempts |-> << [cost |-> Unknown, proven |-> FALSE] >>, attemptCount |-> 1,
    error |-> "timeout", cost |-> Unknown, complete |-> FALSE, accepted |-> Undetermined,
    charged |-> charged ]

MCOutcome ==
  w1 :> << MCPaid(1, TRUE), MCPaid(1, FALSE), MCPaid(2, TRUE) >> @@
  w2 :> << MCPaid(2, TRUE), MCFailed(1), MCPaid(1, Undetermined) >> @@
  w3 :> << MCPaid(2, TRUE), MCPaid(2, TRUE), MCPaid(4, TRUE) >>
=============================================================================
