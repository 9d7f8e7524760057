SPECIFICATION ReplaySpec
CONSTANTS
  Configs <- MCConfigs
  MaxBurst = 2
  GuardLimit = 14
  AddrMod = 16
  CountMod = 64
  EngineDepth = 2
  LabelDepth = 4
  BufWords = 3
  CtDepth = 4
  CtLabelDepth = 3
  Data = {0, 1}
  AddrW = 2
  MaxPuts = 9
INVARIANTS
  LabelsMatchRecords
  EngineGetsItsWords
PROPERTIES
  TrafficGetsThrough
  ImplementsQueue
  ImplementsPointers
