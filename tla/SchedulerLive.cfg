SPECIFICATION FairSpec
CONSTANTS
  Requests = {1, 2}
  Blocks = {b1, b2, b3}
  BlockSize = 2
  PromptLen <- LongAndShort
  Rank <- Ranks
  MaxTokens = 3
  MaxModelLen = 6
  Budget = 4
  MaxRunning = 2
  NumSpec = 0
  VerifyLens = {0}
  Lookahead = 0
  MaxInFlight = 2
  RemoteHit <- OneLoads
  Configs <- AllConfigs
  MaxFaults = 0
PROPERTY EveryRequestEnds
CHECK_DEADLOCK FALSE
