CONSTANTS
  Rounds = 3
  MaxSize = 2
  Shapes <- AnyShapes
  Allowed <- NoFaults
SPECIFICATION FairSpec
INVARIANT TypeOK
INVARIANT SlotsSafe
INVARIANT MessageIsRound
INVARIANT SumCorrect
PROPERTIES RoundsComplete LockstepSpec
