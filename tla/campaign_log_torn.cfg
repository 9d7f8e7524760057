\* Kills while a batch overflows the buffer.
CONSTANTS
  Wanted <- ThreeImages
  MaxProgrammings = 4
  MaxKills = 2
  Spills = TRUE
SPECIFICATION Spec
INVARIANTS ReportIsComplete
CHECK_DEADLOCK FALSE
