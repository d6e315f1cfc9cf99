----------------------------- MODULE LineOfRuns -----------------------------
(***************************************************************************)
(* What the Runner promises to the runs on its sessions: a line for each   *)
(* session id, in which one run at a time is served, first come first      *)
(* served.  A run that gives up waiting ends the promise for its line:     *)
(* whoever comes after it no longer knows of those before it.              *)
(***************************************************************************)
EXTENDS Integers

CONSTANTS Runs, Lines

VARIABLES
  place,  \* the line of each run
  phase,  \* "away", "waiting", "served" or "left"
  turn,   \* where in its line each run is
  turns,  \* runs that came so far
  kept    \* the lines whose promise still stands

vars == <<place, phase, turn, turns, kept>>

Init ==
  /\ place \in [Runs -> Lines]
  /\ phase = [r \in Runs |-> "away"]
  /\ turn = [r \in Runs |-> 0] /\ turns = 0
  /\ kept = Lines

Come(r) ==
  /\ phase[r] = "away"
  /\ phase' = [phase EXCEPT ![r] = "waiting"]
  /\ turn' = [turn EXCEPT ![r] = turns] /\ turns' = turns + 1
  /\ UNCHANGED <<place, kept>>

Before(r) ==
  {q \in Runs : /\ place[q] = place[r] /\ turn[q] < turn[r]
                /\ phase[q] # "away"}

Serve(r) ==
  /\ phase[r] = "waiting"
  /\ place[r] \in kept => \A q \in Before(r) : phase[q] = "left"
  /\ phase' = [phase EXCEPT ![r] = "served"]
  /\ UNCHANGED <<place, turn, turns, kept>>

Leave(r) ==
  /\ phase[r] = "served"
  /\ phase' = [phase EXCEPT ![r] = "left"]
  /\ UNCHANGED <<place, turn, turns, kept>>

GiveUp(r) ==
  /\ phase[r] = "waiting"
  /\ phase' = [phase EXCEPT ![r] = "left"]
  /\ kept' = kept \ {place[r]}
  /\ UNCHANGED <<place, turn, turns>>

Next == \E r \in Runs : Come(r) \/ Serve(r) \/ Leave(r) \/ GiveUp(r)

Spec == Init /\ [][Next]_vars
=============================================================================
