\* The ddrfree path; one run on a device with inferences to spare.
SPECIFICATION Spec
CONSTANTS
  Paths = {"ddrfree"}
  Warmups = 1
  Records = 2
  MaxRecords = 2
  LostWrites = {}
  CountMod = 3
  Allowed = 5
  SgdmaDepth = 1
  MaxRuns = 1
  MaxLost = 0
  MaxPolls = 1
  MaxTicks = 2
INVARIANT NoCompletionLost
CHECK_DEADLOCK FALSE
