SPECIFICATION Spec
CONSTANTS
  Proj = {"p1", "r1"}
  Eng = {"slide", "cslide", "damon"}
  Task = {"t1", "t2"}
  RegionProj = {"r1"}
  Files <- FittingFiles
  None = None
  Faults = FALSE
  MaxTimers = 2
INVARIANTS
  DeletedIsStopped
CHECK_DEADLOCK FALSE
