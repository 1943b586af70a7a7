SPECIFICATION Spec
CONSTANTS
  Pid = {p1}
  NoPid = NoPid
  MaxThreads = 2
  MaxPids = 1
  Faults = {"thread"}
INVARIANT
  NoThreadOutlivesPool
CHECK_DEADLOCK FALSE
