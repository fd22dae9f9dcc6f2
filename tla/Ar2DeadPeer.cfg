CONSTANTS
  Rounds = 3
  MaxSize = 1
  Shapes <- AnyShapes
  Allowed <- FaultyPeer
SPECIFICATION SurvivorSpec
INVARIANT SlotsSafeInPace
PROPERTY NeverWedged
CHECK_DEADLOCK FALSE
