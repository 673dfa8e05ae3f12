CONSTANTS
  Unknown = Unknown
  MaxAttempts = 3
  Charges = {0, 1}
  SdkErrors <- MCSdkErrors
  Pricings = {"none", "unlisted", "listed"}
  MaxRequests = 2
SPECIFICATION FrontEndsSpec
INVARIANTS
  ChainAccountsForCharges
  RetriesOnlyAfterTransientFailure
  FrontEndsReportHonestly
PROPERTY InferAnswers
CHECK_DEADLOCK FALSE
