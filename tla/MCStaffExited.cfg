CONSTANTS
  Null = Null
  Idle = Idle
  Employees = {e1}
  Months = {m1}
  Titles = {t1}
  Emails = {x1, x2}
  Salaries = {3}
  Rates = {2}
  MaxUnpaid = 1
  Calls = {c1, c2}
SPECIFICATION Spec
INVARIANTS
  ExitedIsTerminated
CHECK_DEADLOCK FALSE
