\* A device whose limit is below the configured threshold, by more or less than
\* the margin, or at it.
CONSTANTS
  Wanted <- SparseImages
  BatchSize = 2
  ReprogramAt = 5
  WarmupJobs = 1
  MaxRetries = 2
  MaxProgrammings = 4
  Floor = 2
  Margin = 2
  Limits = {2, 3, 5}
  Backends = {"syscon", "sim"}
  JobTicks = 3
  CounterWrap = 4
  Poison = Poison
SPECIFICATION FairSpec
INVARIANTS NeverUndercounted ThresholdHolds LimitMetOnce NothingLostOrRepeated ResultsAreOwn
PROPERTIES Terminates
CHECK_DEADLOCK FALSE
