\* What must get somewhere.
SPECIFICATION Spec
PROPERTIES
  ChainDrains
  JobsTakenUp
  GoesOut
  GatesSettle
  UpdateServed
  PagesCatchUp
\* every bound is spent
CHECK_DEADLOCK FALSE
