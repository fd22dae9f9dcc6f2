SPECIFICATION Spec
CONSTANTS
  SchedBlock = 2
  MaxTokens = 6
  Layouts <- LayoutSet
  Lookaheads = {0, 1, 2}
  Retentions <- RetentionSet
INVARIANTS HitIsLongest ListsCoverHit NoPollutedSlot ReplayResumes
CHECK_DEADLOCK FALSE
