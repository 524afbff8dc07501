\* Pause and resume by operators who let each request settle.
SPECIFICATION Spec
CONSTANTS
  NumSubs = 2
  BatchSize = 1
  Concurrency = 2
  MaxRetries = 2
  Leavers = {1}
  MaxPauses = 1
  MaxResumes = 1
  MaxCrashes = 0
  MaxFaults = 0
  MaxAborts = 0
  Patient = TRUE
INVARIANTS
  NoDoublePush
  
  NoEarlyFinalize
  PauseStops

  
\* a campaign that has ended does nothing more
CHECK_DEADLOCK FALSE
