\* Nobody is killed and no lock in use grows old; one agent allows stealing.
CONSTANTS
  a1 = a1
  a2 = a2
  a3 = a3
  Agent = {a1, a2}
  Name = {a1, a2}
  WhoOf <- MCWho
  Stealers = {a2}
  ReleaseArgs <- OwnRelease
  WithAgents = {}
  Crashing = {}
  LiveStale = FALSE
  MaxCrashes = 0
  None = None
  NoWho = NoWho
SPECIFICATION Spec
INVARIANTS MutualExclusion
