\* Three images, two kills at any point, a buffer that may overflow anywhere,
\* and a viewer that looks at the file at any moment.
CONSTANTS
  Wanted <- ThreeImages
  MaxProgrammings = 4
  MaxKills = 2
  Spills = TRUE
  Verdict <- OneStale
  Modes = {"live", "replay", "smoke"}
SPECIFICATION FairViewerSpec
INVARIANTS NoImageTwice CyclesAreFaithful LossPerKill ViewerFollowsTheLog
PROPERTIES ViewerReachesTheReport
CHECK_DEADLOCK FALSE
