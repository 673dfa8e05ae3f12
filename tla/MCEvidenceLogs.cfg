CONSTANTS
  Unknown = Unknown
  MaxAttempts = 2
  Charges = {1}
  SdkErrors <- MCTransientError
  Pricings = {"listed"}
  WorkloadSize = 2
  Estimates = {1}
  Budgets = {0, 2}
  NoBudget = NoBudget
  NoRecord = NoRecord
  Tags <- MCTags
  MaxStarts = 2
  MaxEdits = 0
SPECIFICATION LogSpec
INVARIANTS
  LogsAreReadWholeOrNotAtAll
  AtMostOneUnloggedCall
  StoredRunIsOneWholeIncarnation
PROPERTY RunEnds
CHECK_DEADLOCK FALSE
