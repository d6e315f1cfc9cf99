CONSTANTS
  Expenses = {x1}
  Candidates = {y1}
  Calls = {c1, c2}
SPECIFICATION Spec
PROPERTIES
  PayrollAskedForApproved
CHECK_DEADLOCK FALSE
