CONSTANTS
  MinBatch = 2
  MaxBatch = 3
  MaxWait = 1
  ExpressBatch = 2
  Window = 2
  SeedLength = 2
  Content <- MCContent
  MaxRequests = 4

SPECIFICATION BatchingSpec

INVARIANTS
  BatchingTypeOK
  RequestsAreServedInOrder

PROPERTIES
  NothingMoreUrgentIsLeft
  EveryRequestIsCollected

CHECK_DEADLOCK FALSE
