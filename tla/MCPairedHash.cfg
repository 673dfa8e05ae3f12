CONSTANTS
  b = b
  c = c
  w1 = w1
  w2 = w2
  w3 = w3
  Runs = {b, c}
  Recorders = {w1, w2, w3}
  RunOf <- MCRunOf
  ItemsOf <- MCItemsOf
  ShaOf <- MCShaOf
  TagsOf <- MCTagsOf
  RoutedBy <- MCRoutedBy
  Outcome <- MCOutcome
  Baseline = b
  Candidate = c
  NoRecording = NoRecording
  Nobody = Nobody
  Unknown = Unknown
  Undetermined = Undetermined
  MinimumSamples = 2
  MinimumDiscordant = 1
SPECIFICATION ReadersSpec
INVARIANT ClaimComparesOneWorkload
CHECK_DEADLOCK FALSE
