------------------------------- MODULE Services -------------------------------
(***************************************************************************)
(* The services of one process that share nothing with each other: the     *)
(* caches, the routers, and three that nothing in the repository calls     *)
(* yet, the model pool, the bounded gather and the cost attributor.  A     *)
(* behaviour is about one of them, so that one run covers what each does   *)
(* alone.                                                                  *)
(***************************************************************************)
EXTENDS Caching, Routing, ModelPool, BoundedGather, CostAttribution

VARIABLE service   \* the one that the behaviour is about

serviceVars ==
  << service, cachingVars, routingVars, poolVars, gatherVars, attributionVars >>

\* A router that is not looked at is one of those there are.
SomeRouter ==
  /\ router = "rule_based"
  /\ models = CHOOSE fleet \in Fleets : TRUE

ServicesInit ==
  /\ service \in {"caches", "routers", "pool", "gather", "attributor"}
  /\ CachingInit /\ RoutingInit /\ PoolInit /\ GatherInit /\ AttributionInit
  /\ service # "caches" => object = "service"
  /\ service # "routers" => SomeRouter

CacheStep ==
  /\ service = "caches" /\ CachingNext
  /\ UNCHANGED << service, routingVars, poolVars, gatherVars, attributionVars >>

RouterStep ==
  /\ service = "routers" /\ RoutingNext
  /\ UNCHANGED << service, cachingVars, poolVars, gatherVars, attributionVars >>

PoolStep ==
  /\ service = "pool" /\ PoolNext
  /\ UNCHANGED << service, cachingVars, routingVars, gatherVars, attributionVars >>

GatherRuns ==
  /\ service = "gather" /\ JobStep
  /\ UNCHANGED << service, cachingVars, routingVars, poolVars, attributionVars >>

GatherStep ==
  /\ service = "gather" /\ GatherNext
  /\ UNCHANGED << service, cachingVars, routingVars, poolVars, attributionVars >>

AttributorStep ==
  /\ service = "attributor" /\ AttributionNext
  /\ UNCHANGED << service, cachingVars, routingVars, poolVars, gatherVars >>

ServicesNext == CacheStep \/ RouterStep \/ PoolStep \/ GatherStep \/ AttributorStep

\* The event loop runs the tasks of a gather, and their coroutines end.
ServicesSpec ==
  /\ ServicesInit /\ [][ServicesNext]_serviceVars
  /\ WF_serviceVars(GatherRuns)

-----------------------------------------------------------------------------
(* Properties *)

\* A bounded gather with a positive limit brings every coroutine to its end,
\* also after another one raised and the caller has its exception, and always
\* answers its caller.  (With a limit of zero all of them wait for ever.)
EveryJobEnds ==
  outcome = "pending" /\ limit > 0 ~>
    /\ ToSet(results) \cup failed = 1 .. jobs
    /\ outcome \in {"returned", "raised"}
=============================================================================
