--------------------------- MODULE MCAuthService ---------------------------
(* AuthService on a small instance; ids and calls are interchangeable.     *)
EXTENDS AuthService, TLC

Symmetry ==
  Permutations(UserIds) \cup Permutations(EmployeeIds) \cup Permutations(Calls)
=============================================================================
