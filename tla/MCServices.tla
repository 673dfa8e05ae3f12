------------------------------ MODULE MCServices ------------------------------
(***************************************************************************)
(* Bounded instance of Services.  Caches of texts of which one begins with *)
(* another, and of requests two of which share a key and a third differs   *)
(* from them in a parameter of the key.  Routers over no model at all, and *)
(* over two models with the combinations of two values of each attribute   *)
(* and a third, standard one in the middle.  Two sweeps over a pool of up  *)
(* to two models, which may be emptied and filled again under one of them; *)
(* three coroutines; attributions with a net cost below zero.              *)
(***************************************************************************)
EXTENDS Services

MCContent == [a |-> << 1 >>, ab |-> << 1, 2 >>, b |-> << 2 >>]

MCRequests ==
  { [text |-> "a", keyed |-> 1, ignored |-> 1], [text |-> "a", keyed |-> 1, ignored |-> 2],
    [text |-> "a", keyed |-> 2, ignored |-> 1], [text |-> "ab", keyed |-> 1, ignored |-> 1] }

MCModels(loads, contexts) ==
  [ tier : {"economy", "premium"}, up : {TRUE}, load : loads, context : contexts,
    latency : {1, 3}, inputRate : {1, 3}, outputRate : {2} ]

MCMiddle ==
  [ tier |-> "standard", up |-> TRUE, load |-> 20, context |-> 6,
    latency |-> 2, inputRate |-> 2, outputRate |-> 1 ]

MCFleets ==
  {<< first, MCMiddle, last >> :
     first \in MCModels({0, 95}, {4, 8}), last \in MCModels({10, 90}, {8})} \cup {<< >>}

MCShapes == {<< 1, 2 >>, << 3, 2 >>, << 2, 6 >>}

MCConfigs ==
  [ floor : {NoLimit, 70}, slo : {NoLimit, 2}, budget : {NoLimit, 7},
    costWeight : {55}, latencyWeight : {25}, qualityWeight : {20} ]

MCLimits == {-1, 0, 1, 2}

MCNetCosts == {-1, 2}
=============================================================================
