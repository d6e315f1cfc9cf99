CONSTANTS
  NoRow = NoRow
  NoManager = NoManager
  RequestIds = {r1, r2, r3}
  Employees = {e1}
  Managers = {m1}
  PaidTypes = {sick}
  Unpaid = unpaid
  Dates = {1, 2, 3}
  DaysPerYear = 3
  DefaultQuota <- MCQuota
SPECIFICATION Spec
INVARIANTS
  TypeOK
  LedgerExact
  NoUnpaidDayMissed
PROPERTIES
  EligibleNeverOverdraws
SYMMETRY Symmetry
CHECK_DEADLOCK FALSE
