SPECIFICATION OrderSpec
CONSTANTS
  NoLimit = NoLimit
  Chunks <- MCChunks
  Retrievals <- MCRequests
  Configs <- MCConfigs
  Unit = 2
  DecayNum = 4
  DecayDen = 5
  MinPop = 2
INVARIANTS
  OnlyDeadlinesBreakOrder BestNextToQuestion
