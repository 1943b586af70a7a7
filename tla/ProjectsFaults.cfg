SPECIFICATION Spec
CONSTANTS
  Proj = {"p1", "r1"}
  Eng = {"slide", "damon"}
  Task = {"t1", "t2"}
  RegionProj = {"r1"}
  Files <- MixedFiles
  None = None
  Faults = TRUE
  MaxTimers = 2
INVARIANTS
  ParentsExist
  StartedRuns
  
  SuccessIsComplete
CHECK_DEADLOCK FALSE
