-------------------------- MODULE MCLeaveService --------------------------
(* LeaveService on a small instance; the request ids are interchangeable.  *)
EXTENDS LeaveService, TLC

MCQuota == [t \in PaidTypes |-> 2]

Symmetry == Permutations(RequestIds)
=============================================================================
