---------------------------- MODULE MCLeaveTools ----------------------------
(* LeaveTools on a small instance, of two kinds of behaviour: calls come   *)
(* one at a time, or they overlap.  Request ids and calls are              *)
(* interchangeable.                                                        *)
EXTENDS LeaveTools, TLC

MCQuota == [t \in PaidTypes |-> 2]

Symmetry == Permutations(RequestIds) \cup Permutations(Calls)

VARIABLE alone

MCNext == Next /\ (alone => OneCall') /\ UNCHANGED alone

MCInit == Init /\ alone \in BOOLEAN

MCSpec == MCInit /\ [][MCNext]_<<vars, alone>>

Alone == INSTANCE LeaveService WITH
  request <- IF alone THEN request ELSE NoRequests,
  balance <- IF alone THEN balance ELSE NoBalances

\* Calls that do not overlap are the atomic tools: a commit is the step of
\* its tool, reading and rolling back change nothing.  (Of behaviours with
\* overlapping calls nothing is said: they map to empty tables.)
AloneImplementsService == Alone!Spec
=============================================================================
