\* One agent may be killed anywhere; the other recovers with --steal-if-stale.
CONSTANTS
  a1 = a1
  a2 = a2
  a3 = a3
  Agent = {a1, a2}
  Name = {a1, a2}
  WhoOf <- MCWho
  Stealers = {a2}
  ReleaseArgs <- OwnRelease
  WithAgents = {a2}
  Crashing = {a1}
  LiveStale = TRUE
  MaxCrashes = 2
  None = None
  NoWho = NoWho
SPECIFICATION RecoverySpec
PROPERTIES LockIsFreedAgain
