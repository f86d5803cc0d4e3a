SPECIFICATION CheckSpec
CONSTANTS
  ScopeIds <- MCScopeIds
  BarrierLists <- MCBarriers
  ForeignSalts <- MCForeign
  TokensPerBlock = 2
  NumBlocks = 3
  MAX_BARRIERS = 3
  MAX_SALT_LEN = 21
  PrefixLen = 7
  SidLen = 2
  NoSalt = NoSalt
  NoNumber = NoNumber
  Malformed = Malformed
  ValueError = ValueError
  Nonces = {n1, n2}
  Lengths = {2, 3, 4}
  GroupAt = 4
  FreshIds <- MCFreshIds
  VictimLists <- MCVictimLists
  NoHits = NoHits
  MaxLaunches = 2
  MaxMishaps = 2
INVARIANTS
  OkMeansInstalled ProbeHitsAreVictims VerdictFollowsScopes SharedAsSimulated UndecodedSaltsIsolate
CHECK_DEADLOCK FALSE
