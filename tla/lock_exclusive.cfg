\* Three agents, nobody steals or forces, up to two kills.
CONSTANTS
  a1 = a1
  a2 = a2
  a3 = a3
  Agent = {a1, a2, a3}
  Name = {a1, a2, a3}
  WhoOf <- MCWho
  Stealers = {}
  ReleaseArgs <- OwnRelease
  WithAgents = {a1}
  Crashing = {a1, a2, a3}
  LiveStale = TRUE
  MaxCrashes = 2
  None = None
  NoWho = NoWho
SPECIFICATION Spec
INVARIANTS MutualExclusion
PROPERTIES ImplementsBoardLock
