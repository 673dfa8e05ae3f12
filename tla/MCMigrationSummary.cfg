CONSTANTS
  Unknown = Unknown
  p1 = p1
  p2 = p2
  single = single
  failure = failure
  retried = retried
  refused = refused
  unproven = unproven
  proven = proven
  partial = partial
  Processes = {p1, p2}
  History <- MCHistory
  Recorded <- MCRecorded
  Routes <- MCRoutes
  Nobody = Nobody
  MaxCalls = 4
SPECIFICATION MigrationSpec
INVARIANT SummaryCoversHistory
CHECK_DEADLOCK FALSE
