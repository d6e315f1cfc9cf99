CONSTANTS
  Null = Null
  Idle = Idle
  UserIds = {u1, u2, u3}
  EmployeeIds = {e1, e2}
  Emails = {admin, x1, x2}
  AdminName = admin
  Calls = {c1, c2}
SPECIFICATION Spec
INVARIANTS
  TypeOK
  LinksLeadToProfiles
  NoStrayProfiles
PROPERTIES
  ImplementsRegistry
SYMMETRY Symmetry
CHECK_DEADLOCK FALSE
