CONSTANTS
  NoRow = NoRow
  NoManager = NoManager
  Idle = Idle
  RequestIds = {r1, r2}
  Calls = {c1, c2}
  MaxUsed = 2
  Employees = {e1}
  Managers = {m1}
  PaidTypes = {sick}
  Unpaid = unpaid
  Dates = {1, 2}
  DaysPerYear = 9
  DefaultQuota <- MCQuota
SPECIFICATION MCSpec
INVARIANTS
  TypeOK
  RowsBalanced
  ApprovedIsCharged
  ApproverMatchesStatus
PROPERTIES
  TotalsFixed
  AloneImplementsService
SYMMETRY Symmetry
CHECK_DEADLOCK FALSE
