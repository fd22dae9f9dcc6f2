SPECIFICATION Spec
CONSTANTS
  Requests = {1, 2}
  Blocks = {b1, b2, b3, b4}
  BlockSize = 2
  PromptLen <- ShortAndLong
  Rank <- Ranks
  MaxTokens = 3
  MaxModelLen = 8
  Budget = 4
  MaxRunning = 2
  NumSpec = 1
  VerifyLens = {0, 1}
  Lookahead = 1
  MaxInFlight = 2
  RemoteHit <- LongLoads
  Configs <- LateConfigs
  MaxFaults = 1
SYMMETRY BlockSymmetry
INVARIANTS TypeOK OutputInOrder CountersSettle QueuesAgree
  BlocksConserved NoForeignWriter LoadKeepsBlocks
CHECK_DEADLOCK FALSE
