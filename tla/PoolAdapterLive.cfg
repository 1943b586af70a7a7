SPECIFICATION FairSpec
CONSTANTS
  Pid = {p1, p2}
  NoPid = NoPid
  MaxThreads = 2
  MaxPids = 2
  Faults = {"timer", "spurious"}
INVARIANTS
  NoThreadOutlivesPool
PROPERTIES
  RoundCompletes
  StopCompletes
