\* A segment with a filter on a field that a lead has not.
SPECIFICATION Spec
CONSTANTS
  x = x
  y = y
  z = z
  Segs = {a}
  Leads <- MCLeads
  Country <- MCCountry
  Zone <- MCZone
  Conditions <- MCConditions
  Filters <- MCFilters
  Null = Null
  MaxAudience = 3
  MaxEdits = 1
INVARIANTS
  CandidatesAreTheRest
\* every bound is spent
CHECK_DEADLOCK FALSE
