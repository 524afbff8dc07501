\* A statement of the dispatch loop throws.
SPECIFICATION FairSpec
CONSTANTS
  NumSubs = 1
  BatchSize = 1
  Concurrency = 1
  MaxRetries = 1
  Leavers = {}
  MaxPauses = 0
  MaxResumes = 0
  MaxCrashes = 0
  MaxFaults = 0
  MaxAborts = 1
  Patient = TRUE
PROPERTIES
  BlastEnds
\* a campaign that has ended does nothing more
CHECK_DEADLOCK FALSE
