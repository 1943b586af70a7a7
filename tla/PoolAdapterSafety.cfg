SPECIFICATION Spec
CONSTANTS
  Pid = {p1, p2, p3}
  NoPid = NoPid
  MaxThreads = 2
  MaxPids = 3
  Faults = {"thread", "timer", "malloc", "spurious"}
INVARIANTS
  IInv
  Accounting
  NoScanAcrossRounds
  LockHasLiveOwner
PROPERTIES
  ImplementsRounds
CHECK_DEADLOCK FALSE
