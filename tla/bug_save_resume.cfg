\* A paused campaign is edited and resumed.
SPECIFICATION Spec
CONSTANTS
  Pages = {p}
  Editors = {p}
  Leads = {"none", "a"}
  MaxEdits = 1
  MaxPresses = 1
  MaxAnswers = 1
  MaxLosses = 0
INVARIANTS
  ResumeSaves
\* every bound is spent
CHECK_DEADLOCK FALSE
