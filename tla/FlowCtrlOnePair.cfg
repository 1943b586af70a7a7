SPECIFICATION Spec
CONSTANTS
  PairNum = 1
  PidNum = 2
  MaxCount = 1
  PageSize = 4
  Quotas = {0, 2, 6, 12, 20}
  Reserves = {0, 6}
  Frees = {0, 4, 12}
  Sizes = {0, 8}
  Commands = FALSE
INVARIANTS
  IInv
  QuotaKept
  MovesFit
  NoPingPong
  ReserveKept
  HotBeforePrefetch
CHECK_DEADLOCK FALSE
