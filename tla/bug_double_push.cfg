\* Pause and resume while a push is in flight.
SPECIFICATION Spec
CONSTANTS
  NumSubs = 1
  BatchSize = 1
  Concurrency = 1
  MaxRetries = 1
  Leavers = {}
  MaxPauses = 1
  MaxResumes = 1
  MaxCrashes = 0
  MaxFaults = 0
  MaxAborts = 0
  Patient = FALSE
INVARIANTS
  NoDoublePush
\* a campaign that has ended does nothing more
CHECK_DEADLOCK FALSE
