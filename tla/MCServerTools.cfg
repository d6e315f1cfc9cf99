CONSTANTS
  Null = Null
  Idle = Idle
  Employees = {e1, e2}
  Few = {e1, x1}
  Months = {m1}
  Titles = {t1}
  Emails = {x1, x2}
  Salaries = {3}
  Rates = {2}
  MaxUnpaid = 1
  Calls = {c1, c2}
  MaxTime = 3
  DayLength = 3
  HalfDay = 2
  Nothing = Nothing
  Expenses = {x1}
  Candidates = {y1}
SPECIFICATION MCSpec
INVARIANTS
  TypeOK
  ToolsTypeOK
  ExitWasSettled
  SlipAddsUp
  HoursFitTimes
  StatusHasRecord
  AloneTerminatedIffExited
PROPERTIES
  DayKept
  AloneExitGetsLogged
CHECK_DEADLOCK FALSE
