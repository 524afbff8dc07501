\* A restart and statements that throw, one of each.
SPECIFICATION FairSpec
CONSTANTS
  NumSubs = 2
  BatchSize = 3
  Concurrency = 2
  MaxRetries = 1
  Leavers = {}
  MaxPauses = 0
  MaxResumes = 1
  MaxCrashes = 1
  MaxFaults = 1
  MaxAborts = 1
  Patient = TRUE
INVARIANTS
  TypeOK
  OncePerRun
  HonestSent
  TotalsExact
  DeliveredNotFailed
PROPERTIES
  PushesOpenRows
  EndsUnlessAborted
\* a campaign that has ended does nothing more
CHECK_DEADLOCK FALSE
