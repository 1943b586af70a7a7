SPECIFICATION Spec
CONSTANTS
  Node = {n1, n2}
  Nil = Nil
  Loop = 1
INVARIANTS
  CmdTouchesLive
CHECK_DEADLOCK FALSE
