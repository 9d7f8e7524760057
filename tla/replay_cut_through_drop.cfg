SPECIFICATION Spec
CONSTANTS
  Configs <- LongConfigs
  MaxBurst = 2
  GuardLimit = 14
  AddrMod = 16
  CountMod = 64
  EngineDepth = 2
  LabelDepth = 3
  CtDepth = 4
INVARIANT NoWordDropped
