CONSTANTS
  Unknown = Unknown
  MaxAttempts = 2
  Charges = {0, 1, 2}
  SdkErrors <- MCSdkErrors
  Pricings = {"none", "unlisted", "listed"}
  WorkloadSize = 2
  Estimates = {1, 3}
  Budgets <- MCBudgets
  NoBudget = NoBudget
  NoRecord = NoRecord
  Tags <- MCTags
  MaxStarts = 1
  MaxEdits = 1
SPECIFICATION Spec
INVARIANTS
  TypeOK
  CompleteCostIsTrueCost
  ReportedCostIsTrueCost
  NoCallWithoutLoggedAdmission
  OnlyRoutingAborts
  ReconciliationIsTrue
  SegmentsReconstructRun
CHECK_DEADLOCK FALSE
