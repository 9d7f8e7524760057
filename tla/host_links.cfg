\* A command and two batches for the worker, a read and a file for the console;
\* both are left through close and the console may hang or end at any point.
SPECIFICATION LinkSpec
CONSTANTS
  Commands <- MCCommands
  MaxResults = 2
  Accesses <- MCAccesses
  Closes = TRUE
  Paths = {"hyperram", "ddrfree"}
  Warmups = 1
  Records = 3
  MaxRecords = 2
  LostWrites = {"reset", "write", "ingress", "egress", "configure", "startTimer", "go", "stopTimer"}
  CountMod = 3
  Allowed = 5
  SgdmaDepth = 1
  MaxRuns = 2
  MaxLost = 2
  MaxPolls = 1
  MaxTicks = 2
  NBeats = 2
  NWords = 2
  Values = {0, 1}
  Zero = 0
  MaxLen = 1
  None = None
INVARIANTS
  CommandsArriveWhole AnswersAreOwn ValuesAreOwn
  ResultsAreOwn HyperramCompletionSeen
PROPERTIES SessionEnds RunEnds ImplementsMemory
CHECK_DEADLOCK FALSE
