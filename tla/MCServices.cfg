CONSTANTS
  Content <- MCContent
  Requests <- MCRequests
  Answers = {x, y}
  MaxAge = 1
  MaxEntries = 2
  MaxPrefixes = 2
  MaxEmbeddings = 2
  MaxUses = 1
  Fleets <- MCFleets
  Shapes <- MCShapes
  Configs <- MCConfigs
  CostWeight = 70
  MaxRoutes = 5
  ModelIds = {"m1", "m2"}
  Sweepers = {"t1", "t2"}
  MaxRegistrations = 4
  MaxJobs = 3
  Limits <- MCLimits
  Users = {"alice", "bob"}
  Features = {"chat"}
  NoName = "none"
  NetCosts <- MCNetCosts
  MaxAttributions = 3
SPECIFICATION ServicesSpec
INVARIANTS
  SweepsAreWhole
  GatherKeepsItsPromise
  CostsAreFiledOnce
  CachingTypeOK
  HitsAreCurrent
  RecentlyUsedIsKept
  SelectionIsJustified
  RoundRobinTakesTurns
PROPERTIES
  EveryJobEnds
  UsedPrefixesStay
CHECK_DEADLOCK FALSE
