\* The API answers the verification with an error.
SPECIFICATION Spec
CONSTANTS
  Tabs = {t}
  Owners <- MCOwners
  MaxLoads = 1
  MaxPrompts = 1
INVARIANTS
  OnlyBotsHidden
\* a page that is left alone does nothing
CHECK_DEADLOCK FALSE
