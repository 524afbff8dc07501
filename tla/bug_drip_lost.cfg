\* A restart while a drip is being sent.
SPECIFICATION FairSpec
CONSTANTS
  Leads = {l1}
  Requests = {r1}
  NumSteps = 1
  BatchSize = 1
  NoLead = NoLead
  MaxLeaves = 0
  MaxToggles = 0
  MaxFaults = 0
  MaxCrashes = 1
PROPERTIES
  JobsEnd
\* every bound is spent
CHECK_DEADLOCK FALSE
