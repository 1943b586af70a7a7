SPECIFICATION Spec
CONSTANTS
  Node = {n1, n2, n3}
  Nil = Nil
  Loop = 1
INVARIANTS
  TypeOK
  OneOwnerFrees
  NoneLost
  RoundDataReleased
  NothingLeft
SYMMETRY Symmetry
CHECK_DEADLOCK FALSE
