\* Pause and resume while the audience is still being targeted.
SPECIFICATION Spec
CONSTANTS
  NumSubs = 2
  BatchSize = 1
  Concurrency = 2
  MaxRetries = 1
  Leavers = {}
  MaxPauses = 1
  MaxResumes = 1
  MaxCrashes = 0
  MaxFaults = 0
  MaxAborts = 0
  Patient = FALSE
INVARIANTS
  CompleteAtRest
\* a campaign that has ended does nothing more
CHECK_DEADLOCK FALSE
