------------------------------- MODULE Routing --------------------------------
(***************************************************************************)
(* The routers of domain/routing, fed by the quotes of domain/cost: given  *)
(* a request, which model runs it and on what grounds.  `router` says      *)
(* which of them a behaviour is about; a step is one call of route.        *)
(*                                                                         *)
(* Models are numbered in the order of their ids, in which they are also   *)
(* listed; two models have two ids.  Loads, qualities and weights are in   *)
(* hundredths, amounts in millionths; scores are compared exactly, by      *)
(* multiplying out the spans the code divides by.  The single-model mode   *)
(* of BaselineRouter chooses nothing and is left out.                      *)
(***************************************************************************)
EXTENDS Integers, Sequences, SequencesExt

CONSTANTS
  Fleets,         \* sets of models to route over: functions from ids to models
  Shapes,         \* token counts of requests: << input, maximal output >>
  Configs,        \* PolicyRouterConfig
  CostWeight,     \* cost_weight of the cost-aware router
  MaxRoutes       \* bound: requests routed

NoLimit == -1

Rank == [economy |-> 1, standard |-> 2, premium |-> 3]

\* ModelConfig, with the rates of the pricing table; only the rates are checked.
ModelConfigs ==
  [ tier : DOMAIN Rank, up : BOOLEAN, load : Int, context : Int, latency : Int,
    inputRate : Nat, outputRate : Nat ]

\* PolicyRouterConfig, whose __post_init__ refuses a negative weight.
PolicyConfigs ==
  [ floor : Int, slo : Int, budget : Int,
    costWeight : Nat, latencyWeight : Nat, qualityWeight : Nat ]

ASSUME RoutingAssumption ==
  /\ \A fleet \in Fleets :
       /\ DOMAIN fleet \subseteq Nat /\ IsFiniteSet(DOMAIN fleet)
       /\ \A id \in DOMAIN fleet : fleet[id] \in ModelConfigs
  /\ Shapes # {} /\ Shapes \subseteq Nat \X Nat
  /\ Configs # {} /\ Configs \subseteq PolicyConfigs
  /\ CostWeight \in 0 .. 100

Routers == {"policy", "rule_based", "cost_aware", "round_robin"}

VARIABLES
  router,
  models,         \* id -> ModelConfig and its rates
  config,         \* of the policy router
  request,        \* the last request
  decision,       \* on it
  currentIndex,   \* of the load-balanced router
  turns           \* history: selections since its eligible models last changed

routingVars == << router, models, config, request, decision, currentIndex, turns >>

Ids == DOMAIN models

RoutableRequests == [shape : Shapes, tier : DOMAIN Rank, preferred : Ids \cup {NoLimit}]

\* Before a route, and after one that raised.
NoDecision == [selected |-> NoLimit]

-----------------------------------------------------------------------------
(* Eligibility and quotes *)

IsAvailable(id) == models[id].up /\ models[id].load < 95

SupportsContext(id, req) == req.shape[1] + req.shape[2] <= models[id].context

Eligible(req) == {id \in Ids : IsAvailable(id) /\ SupportsContext(id, req)}

\* PricingTable.quote; no input is cached before execution.
Cost(id, req) == req.shape[1] * models[id].inputRate + req.shape[2] * models[id].outputRate

-----------------------------------------------------------------------------
(* Selection *)

\* Tuples in the order of Python.
Precedes(s, t) ==
  \E i \in DOMAIN s : s[i] < t[i] /\ \A j \in 1 .. i - 1 : s[j] = t[j]

\* The model with the least key, of those that have one.
Least(key) ==
  CHOOSE id \in DOMAIN key : \A other \in DOMAIN key \ {id} : Precedes(key[id], key[other])

\* sorted(..., key): each model that has a key once, in the order of the keys.
SortedBy(key) ==
  CHOOSE list \in [1 .. Cardinality(DOMAIN key) -> DOMAIN key] :
    \A i, j \in DOMAIN list : i < j => Precedes(key[list[i]], key[list[j]])

InIdOrder(ids) == SortedBy([id \in ids |-> << id >>])

\* A value that _normalize maps to x / SpanOf(values).
Above(x, values) == x - Min(values)

SpanOf(values) == Max({1, Max(values) - Min(values)})

\* The first three of the others, the cheapest first.
Fallbacks(candidates, selected, req) ==
  LET others == SortedBy([id \in candidates \ {selected} |->
                            << Cost(id, req), models[id].latency, id >>])
  IN  SubSeq(others, 1, Min({3, Len(others)}))

\* The quality of a tier, adjusted when it is not the recommended one.
Adjusted(base, tier, req, penalty, bonus) ==
  CASE Rank[tier] < Rank[req.tier] -> Max({0, base - penalty})
    [] Rank[tier] > Rank[req.tier] -> Min({100, base + bonus})
    [] OTHER -> base

-----------------------------------------------------------------------------
(* The policy router *)

Quality(id, req) ==
  Adjusted([economy |-> 45, standard |-> 72, premium |-> 92][models[id].tier],
           models[id].tier, req, 22, 5)

MeetsFloor(id, req) == config.floor # NoLimit => Quality(id, req) >= config.floor

MeetsSlo(id) == config.slo # NoLimit => models[id].latency <= config.slo

MeetsBudget(id, req) == config.budget # NoLimit => Cost(id, req) <= config.budget

MeetsConstraints(id, req) == MeetsFloor(id, req) /\ MeetsSlo(id) /\ MeetsBudget(id, req)

\* Mutant: each filter is applied if it leaves somebody, whatever the others left.
ConstrainedLeniently(req) ==
  LET candidates == Eligible(req)
      cheap == {id \in candidates : MeetsBudget(id, req)}
  IN  IF cheap = {} THEN [ids |-> candidates, reason |-> "no_candidate_within_budget"]
      ELSE [ids |-> cheap, reason |-> "cost_within_budget"]

\* _apply_constraints: floor, objective and budget in turn; the first that
\* nobody meets ends the filtering, and the ones after it are not applied.
Constrained(req) ==
  LET candidates == Eligible(req)
      good == {id \in candidates : MeetsFloor(id, req)}
      fast == {id \in good : MeetsSlo(id)}
      cheap == {id \in fast : MeetsBudget(id, req)}
  IN  CASE good = {} ->
             [ids |-> candidates, reason |-> "no_candidate_meets_quality_floor"]
        [] good # {} /\ fast = {} ->
             [ids |-> good, reason |-> "no_candidate_within_latency_slo"]
        [] fast # {} /\ cheap = {} ->
             [ids |-> fast, reason |-> "no_candidate_within_budget"]
        [] OTHER ->
             [ids |-> cheap,
              reason |-> CASE config.budget # NoLimit -> "cost_within_budget"
                           [] config.budget = NoLimit /\ config.slo # NoLimit -> "latency_within_slo"
                           [] config.budget = NoLimit /\ config.slo = NoLimit
                              /\ config.floor # NoLimit -> "quality_floor"
                           [] OTHER -> "balanced_score"]

SelectBest(ids, req) ==
  LET costs == {Cost(id, req) : id \in ids}
      latencies == {models[id].latency : id \in ids}
      WeightedScore(id) ==
          100 * config.costWeight * Above(Cost(id, req), costs) * SpanOf(latencies)
        + 100 * config.latencyWeight * Above(models[id].latency, latencies) * SpanOf(costs)
        + (config.qualityWeight * (100 - Quality(id, req)) + 10 * models[id].load)
            * SpanOf(costs) * SpanOf(latencies)
  IN  Least([id \in ids |-> << WeightedScore(id), Cost(id, req), models[id].latency, id >>])

PolicyDecision(selected, reason, req) ==
  [ selected |-> selected, reason |-> reason,
    fallbacks |-> Fallbacks(Eligible(req), selected, req) ]

RoutePolicy(req) ==
  LET constrained == Constrained(req)
      preferred == {id \in Eligible(req) : id = req.preferred /\ MeetsConstraints(id, req)}
  IN  CASE Eligible(req) = {} -> NoDecision
        [] preferred # {} -> PolicyDecision(req.preferred, "preferred_model", req)
        [] OTHER ->
             PolicyDecision(SelectBest(constrained.ids, req), constrained.reason, req)

-----------------------------------------------------------------------------
(* The other routers *)

\* _rule_based_decision: the cheapest at or above the recommended tier; of
\* equally cheap ones the first.
RouteRuleBased(req) ==
  LET candidates == {id \in Eligible(req) : Rank[models[id].tier] >= Rank[req.tier]}
      selected == Least([id \in candidates |-> << Cost(id, req), id >>])
  IN  IF candidates = {} THEN NoDecision
      ELSE [ selected |-> selected, reason |-> "rule_based",
             fallbacks |-> InIdOrder(Eligible(req) \ {selected}) ]

\* _can_handle_request.
CanHandle(id, req) == ~(req.tier = "premium" /\ models[id].tier = "economy")

RouteCostAware(req) ==
  LET candidates == {id \in Eligible(req) : CanHandle(id, req)}
      costs == {Cost(id, req) : id \in candidates}
      Expected(id) ==
        Adjusted([economy |-> 40, standard |-> 70, premium |-> 100][models[id].tier],
                 models[id].tier, req, 20, 10)
      Score(id) ==
          100 * CostWeight * Above(Cost(id, req), costs)
        + ((100 - CostWeight) * (100 - Expected(id)) + 20 * models[id].load) * SpanOf(costs)
      selected == Least([id \in candidates |-> << Score(id), id >>])
  IN  IF candidates = {} THEN NoDecision
      ELSE [ selected |-> selected, reason |-> "cost_aware",
             fallbacks |-> Fallbacks(candidates, selected, req) ]

\* Mutant: the index counts the models, not the eligible ones.
NthOfAll(ids, n) ==
  LET nth == InIdOrder(Ids)[(n % Cardinality(Ids)) + 1]
  IN  IF nth \in ids THEN nth ELSE Min(ids)

\* The model whose turn it is.
Nth(ids, n) == InIdOrder(ids)[(n % Cardinality(ids)) + 1]

RouteRoundRobin(req) ==
  LET eligible == Eligible(req)
  IN  IF eligible = {} THEN NoDecision
      ELSE [ selected |-> Nth(eligible, currentIndex), reason |-> "round_robin",
             fallbacks |-> << >> ]

-----------------------------------------------------------------------------
NoTurns == [id \in {} |-> 0]

RoutingInit ==
  /\ router \in Routers
  /\ models \in Fleets
  /\ config \in Configs
  /\ router # "policy" => config = CHOOSE c \in Configs : TRUE
  /\ request = [shape |-> CHOOSE shape \in Shapes : TRUE, tier |-> "economy", preferred |-> NoLimit]
  /\ decision = NoDecision
  /\ currentIndex = 0
  /\ turns = NoTurns

\* route of a router without state: any call is like the first.
Route ==
  /\ router # "round_robin" /\ decision = NoDecision
  /\ request' \in RoutableRequests
  /\ decision' = CASE router = "policy" -> RoutePolicy(request')
                   [] router = "rule_based" -> RouteRuleBased(request')
                   [] router = "cost_aware" -> RouteCostAware(request')
  /\ UNCHANGED << router, models, config, currentIndex, turns >>

\* LoadBalancedRouter.route; a call that raises does not count.
RouteNext ==
  /\ router = "round_robin" /\ currentIndex < MaxRoutes
  /\ \E shape \in Shapes : request' = [request EXCEPT !.shape = shape]
  /\ decision' = RouteRoundRobin(request')
  /\ currentIndex' = currentIndex + (IF decision' = NoDecision THEN 0 ELSE 1)
  /\ turns' = CASE decision' = NoDecision -> turns
                [] OTHER ->
                     LET eligible == Eligible(request')
                         kept == IF DOMAIN turns = eligible THEN turns
                                 ELSE [id \in eligible |-> 0]
                     IN  [kept EXCEPT ![decision'.selected] = @ + 1]
  /\ UNCHANGED << router, models, config >>

RoutingNext == Route \/ RouteNext

RoutingSpec == RoutingInit /\ [][RoutingNext]_routingVars

-----------------------------------------------------------------------------
(* Properties *)

Reasons == {"preferred_model", "cost_within_budget", "latency_within_slo", "quality_floor",
            "balanced_score"}

IsDecided == decision # NoDecision

Selected == decision.selected

Admissible == {id \in Eligible(request) : MeetsConstraints(id, request)}

\* `a` is the worse choice by every criterion of the policy.
IsWorse(a, b) ==
  /\ Cost(a, request) > Cost(b, request) /\ models[a].latency > models[b].latency
  /\ Quality(a, request) < Quality(b, request) /\ models[a].load > models[b].load

\* The policy router keeps all its constraints whenever some model does, says
\* so exactly then, and never takes the model that is worse than another one
\* allowed in every respect unless the request asks for it.
PolicyIsJustified ==
  /\ decision.reason \in Reasons <=> Admissible # {}
  /\ Admissible # {} => Selected \in Admissible
  /\ request.preferred \in Admissible <=> decision.reason = "preferred_model"
  /\ decision.reason = "preferred_model" => Selected = request.preferred
  /\ decision.reason \in Reasons \ {"preferred_model"} =>
       \A other \in Admissible : ~IsWorse(Selected, other)

\* The rule-based router takes a sufficient tier and no cheaper one offers it.
RuleBasedIsJustified ==
  /\ Rank[models[Selected].tier] >= Rank[request.tier]
  /\ \A id \in Eligible(request) :
       Rank[models[id].tier] >= Rank[request.tier] => Cost(Selected, request) <= Cost(id, request)

\* The cost-aware router gives no demanding request to an economy model,
\* however cheap, nor lists one as its fallback.
CostAwareIsJustified ==
  request.tier = "premium" =>
    \A id \in {Selected} \cup ToSet(decision.fallbacks) : models[id].tier # "economy"

\* A decision is for a model that can run the request, with fallbacks that
\* can, and is justified by its router's policy.
SelectionIsJustified ==
  IsDecided =>
    /\ {Selected} \cup ToSet(decision.fallbacks) \subseteq Eligible(request)
    /\ Selected \notin ToSet(decision.fallbacks)
    /\ router = "policy" => PolicyIsJustified
    /\ router = "rule_based" => RuleBasedIsJustified
    /\ router = "cost_aware" => CostAwareIsJustified

\* As long as the eligible models stay the same they take turns: none is
\* selected twice more than another, wherever the index stood before.
RoundRobinTakesTurns ==
  \A a, b \in DOMAIN turns : turns[a] <= turns[b] + 1
=============================================================================
