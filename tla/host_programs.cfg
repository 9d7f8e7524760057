SPECIFICATION HostSpec
CONSTANTS
  Grid <- MCGrid
  Dates = {"d"}
  MaxDesign = 2
  MaxSweeps = 2
  Clocks = {1, 2}
  DelayTaps = 4
  PassTargets = {1, 2}
  MaxPoints = 2
  Items = 3
  HrBytes = 20
  LogReserve = 4
  BurstAlign = 4
  ReadWindow = 2
  NWindows = 2
  InputBytes = {2, 4}
  RecBases = {0, 4}
  Wraps = {8, 20}
  MaxSource = 2
  MaxBuilds = 3
  Networks = {"a", "b", "two", "odd"}
  InfoOf <- MCInfo
  Aligns = {1, 4}
  Guards = {2, 3}
  Wound = 2
  Capacity = 32
  Dumpdirs = {"own", "shared"}
  MaxJobs = 3
  Nothing = Nothing
  Callers = {c1, c2}
  Bandwidths = {1, 2}
  Splits = {1, 2}
  MaxGenerations = 2
  MaxEstimates = 2
  MaxWindow = 3
  MaxStride = 4
  Graphs <- MCGraphs
  Strategies <- MCStrategies
  Blocks = 3
  FillMargin = 1
  Vectors = {1, 3}
  MaxL0Runs = 2
  Banks = 3
  Depth = 2
  Ks = {1, 2, 6}
  CounterSize = 16
  MaxL2Runs = 2
INVARIANTS
  CleanExitIsComplete
  OperatingPointHasMargin
  WindowIsWidestRun
  LoadedIsTheImage
  FilesAreOwn
  OutputsSurvive
  MathematicsUnchanged
  EstimateIsTraceable
  MicrobenchmarksAreGolden
PROPERTY
  ResultIsOneCompile
CHECK_DEADLOCK FALSE
