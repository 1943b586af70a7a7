SPECIFICATION FairSpec
CONSTANTS
  PairNum = 2
  PidNum = 1
  MaxCount = 1
  PageSize = 4
  Quotas = {14}
  Reserves = {4}
  Frees = {0, 8}
  Sizes = {0, 8}
  Commands = TRUE
INVARIANTS
  QuotaKept
  MovesFit
  NoPingPong
  EnoughExact
PROPERTIES
  PassesEnd
CHECK_DEADLOCK FALSE
