-------------------------- MODULE MCConversations --------------------------
(* SessionRuns and AgentLoop for TLC.  A behaviour is of one of two kinds.  *)
(*                                                                          *)
(* "line": requests on conversations.  They are numbers; they and the users *)
(* are interchangeable, so it is enough to look at the behaviours in which  *)
(* those with one session id subscribe in the order of their numbers and    *)
(* the first is u1's; or there are two of u1, one with a padded session id. *)
(*                                                                          *)
(* "loop": what one run does, event by event.                               *)
EXTENDS SessionRuns, AgentLoopData

CONSTANTS u1, s1, padded

VARIABLE kind

Agent == INSTANCE AgentLoop

MCTrimmed == [s \in Sids |-> s1]

Last == CHOOSE c \in Calls : \A d \in Calls : d <= c

Ids ==
  \/ key[1][1] = u1 /\ \A c \in Calls : Sid(c) = s1
  \/ \A c \in Calls : key[c] = <<u1, IF c = Last THEN padded ELSE s1>>

MCInit ==
  /\ Init /\ Agent!Init
  /\ kind \in {"line", "loop"}
  /\ IF kind = "line" THEN Ids ELSE \A c \in Calls : key[c] = <<u1, s1>>

Subscribed(where) == where \notin {"new", "creating", "ensured"}

InOrder ==
  \A c, d \in Calls :
    c < d /\ Sid(c) = Sid(d) /\ Subscribed(pc'[d]) => Subscribed(pc'[c])

FewWithPadded ==
  Sid(Last) = padded => \A c \in Calls \ {1, Last} : pc'[c] = "new"

MCNext ==
  \/ kind = "line" /\ Next /\ InOrder /\ FewWithPadded
       /\ UNCHANGED <<kind, run>>
  \/ kind = "loop" /\ Agent!Next /\ UNCHANGED <<kind, vars>>

\* The model, the tools and the session service answer; that one of them goes
\* on is enough.
LoopFairness == WF_run(kind = "loop" /\ (Agent!Flow \/ Agent!Persist))

MCSpec ==
  MCInit /\ [][MCNext]_<<kind, vars, run>> /\ Fairness /\ LoopFairness

\* Every run ends: the loop never waits for an event that nobody marks, a
\* failed append does not leave it waiting, and the limit of calls holds over
\* all agents together.
RunEnds == kind = "loop" ~> stage \in RunOver
=============================================================================
