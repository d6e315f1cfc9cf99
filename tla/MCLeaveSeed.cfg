CONSTANTS
  NoRow = NoRow
  NoManager = NoManager
  RequestIds = {r1}
  Employees = {e1}
  Managers = {m1}
  PaidTypes = {sick, casual}
  Unpaid = unpaid
  Dates = {1, 2, 3}
  DaysPerYear = 3
  DefaultQuota <- MCQuota
SPECIFICATION Spec
PROPERTIES
  SeedGrantsQuota
CHECK_DEADLOCK FALSE
