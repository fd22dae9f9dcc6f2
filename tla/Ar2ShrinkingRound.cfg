CONSTANTS
  Rounds = 2
  MaxSize = 2
  Shapes <- AnyShapes
  Allowed <- NoFaults
SPECIFICATION Spec
INVARIANT SumAlwaysCorrect
