----------------------------- MODULE MCA2ATasks -----------------------------
(* A2ATasks for TLC: requests are numbers, interchangeable, and sent in the *)
(* order of their numbers.  What a caller hears changes nothing else, and   *)
(* what there is to hear stays so: it is enough that the last one hears     *)
(* when the executor is at rest.                                            *)
EXTENDS A2ATasks

InOrder == \A d, e \in Runs : d < e /\ pc'[e] # "new" => pc'[d] # "new"

AtRest ==
  /\ \A e \in Runs :
       pc[e] \in {"new", "refused", "thrown", "ended", "disposed"}
  /\ \A a \in Actors : cleanup[a] = None

HeardLate ==
  \A e \in Runs : caller[e] = "waiting" /\ caller'[e] # "waiting" =>
    AtRest /\ \A d \in Runs : d <= e

MCNext == Next /\ InOrder /\ HeardLate

MCSpec == Init /\ [][MCNext]_vars /\ Fairness
=============================================================================
