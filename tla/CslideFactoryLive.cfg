SPECIFICATION FairSpec
CONSTANTS
  Node = {n1, n2}
  Nil = Nil
  Loop = 2
INVARIANTS
  CountsWholeScans
PROPERTIES
  EventuallyFreed
  EngineEnds
CHECK_DEADLOCK FALSE
