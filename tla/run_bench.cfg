CONSTANTS
  MaxInflight = 2
  FifoDepth = 2
  HistEntries = 6
  Matches <- ThirdMatches
  Bucket <- BucketOf
  MaxIssued = 5
  None = None
  N = 2
  LoopChoices = {1, 2}
  MaxRuns = 3
  Slots = 2
  ClockRatio = 2
  SoftResets = TRUE
SPECIFICATION FairSpec
INVARIANTS ReportedRunsAreWhole SnapshotIsOneInstant
PROPERTY PathDrains
CHECK_DEADLOCK FALSE
