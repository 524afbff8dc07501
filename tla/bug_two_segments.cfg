\* A lead is removed from a segment while another is being assigned.
SPECIFICATION Spec
CONSTANTS
  a = a
  b = b
  Segs = {a, b}
  Leads = {l1, l2}
  Weight <- MCWeight
  NoSeg = NoSeg
  Overlap = TRUE
  MaxAssigns = 2
  MaxEdits = 1
  MaxFaults = 0
INVARIANTS
  NeverInTwo
\* every bound is spent
CHECK_DEADLOCK FALSE
