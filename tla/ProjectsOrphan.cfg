SPECIFICATION Spec
CONSTANTS
  Proj = {"p1", "r1"}
  Eng = {"slide", "damon"}
  Task = {"t1", "t2"}
  RegionProj = {"r1"}
  Files <- MixedFiles
  None = None
  Faults = FALSE
  MaxTimers = 2
INVARIANTS
  NoOrphans
CHECK_DEADLOCK FALSE
