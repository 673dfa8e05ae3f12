CONSTANTS
  Unknown = Unknown
  MaxAttempts = 2
  Charges = {1}
  SdkErrors <- MCTransientError
  Pricings = {"listed"}
  WorkloadSize = 2
  Estimates = {1}
  Budgets = {2}
  NoBudget = NoBudget
  NoRecord = NoRecord
  Tags <- MCTags
  MaxStarts = 1
  MaxEdits = 1
SPECIFICATION Spec
INVARIANT HashIsOfExecutedWorkload
CHECK_DEADLOCK FALSE
