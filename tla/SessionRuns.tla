---------------------------- MODULE SessionRuns ----------------------------
(***************************************************************************)
(* Chat requests of one agent on its conversations: the services           *)
(* OrchestratorConversationService, LeaveConversationService and their     *)
(* like, the ADK's Runner they share one instance of, and its              *)
(* InMemorySessionService.                                                 *)
(*                                                                         *)
(* A request makes sure that its session exists and then lines up: the     *)
(* Runner keeps for every session id the completion of the last run that   *)
(* subscribed, and a run waits for the completion it found there.  A run   *)
(* works on a copy of the stored session, and every event it appends puts  *)
(* that whole copy back.                                                   *)
(*                                                                         *)
(* A session id may have blanks around it, which only createSession trims. *)
(* A session is the sequence of its events (the agents of this repository  *)
(* keep no session state); an event is the request that appended it and    *)
(* its number: 0 the user's message, then what the agent answers.  Partial *)
(* events are not stored.                                                  *)
(***************************************************************************)
EXTENDS Integers, Sequences

CONSTANTS
  Calls,      \* the requests ever made
  Users, Sids,  \* user ids; session ids, given by the caller or random
  Trimmed,    \* each session id without the blanks around it
  MaxEvents,  \* bound: events an agent appends in one run
  None        \* no session stored, no run to wait for

ASSUME NoneAssumption == None \notin Calls
ASSUME MaxEventsAssumption == MaxEvents \in Nat
ASSUME TrimmedAssumption == Trimmed \in [Sids -> Sids]

Keys == Users \X Sids
Events == Calls \X (0 .. MaxEvents)
History == Seq(Events)

VARIABLES
  stored,  \* sessions: the session stored for each user and session id
  active,  \* activeSessionCompletables: the last run of each session id
  pc,      \* where each request is
  key,     \* its user and session id
  prev,    \* the run that was the last one when it subscribed
  gate,    \* its completion: "shut", then "open"; "gone" from active
  copy,    \* the run's copy of the session
  said,    \* the events its agent appended
  (* For the properties only. *)
  turn,    \* the place of each run in the order of subscription
  turns,   \* runs subscribed so far
  cut,     \* runs disposed of while they waited
  made     \* how often each session was created

line == <<active, prev, gate, turn, turns>>
vars == <<stored, active, pc, key, prev, gate, copy, said, turn, turns, cut,
          made>>

Ended == {"answered", "failed", "disposed"}

TypeOK ==
  /\ stored \in [Keys -> History \cup {None}]
  /\ active \in [Sids -> Calls \cup {None}]
  /\ pc \in [Calls -> {"new", "creating", "ensured", "queued", "opened",
                       "running"} \cup Ended]
  /\ key \in [Calls -> Keys]
  /\ prev \in [Calls -> Calls \cup {None}]
  /\ gate \in [Calls -> {"none", "shut", "open", "gone"}]
  /\ copy \in [Calls -> History]
  /\ said \in [Calls -> 0 .. MaxEvents]
  /\ turn \in [Calls -> Nat] /\ turns \in Nat
  /\ cut \in [Calls -> BOOLEAN]
  /\ made \in [Keys -> Nat]

Init ==
  /\ stored = [k \in Keys |-> None]
  /\ active = [s \in Sids |-> None]
  /\ pc = [c \in Calls |-> "new"]
  /\ key \in [Calls -> Keys]
  /\ prev = [c \in Calls |-> None]
  /\ gate = [c \in Calls |-> "none"]
  /\ copy = [c \in Calls |-> <<>>]
  /\ said = [c \in Calls |-> 0]
  /\ turn = [c \in Calls |-> 0] /\ turns = 0
  /\ cut = [c \in Calls |-> FALSE]
  /\ made = [k \in Keys |-> 0]

Sid(c) == key[c][2]
Goto(c, where) == pc' = [pc EXCEPT ![c] = where]

-----------------------------------------------------------------------------
(* converse: ensureSession. *)

\* getSession finds the session, or createSession is next.
Converse(c) ==
  /\ pc[c] = "new"
  /\ Goto(c, IF stored[key[c]] = None THEN "creating" ELSE "ensured")
  /\ UNCHANGED <<stored, key, copy, said, cut, made, line>>

\* Where createSession puts the session of c; whoever looks for it uses the id
\* as the caller gave it.
NewKey(c) == <<key[c][1], Trimmed[Sid(c)]>>

\* createSession puts a new session, whatever is there by now.
CreateSession(c) ==
  /\ pc[c] = "creating"
  /\ stored' = [stored EXCEPT ![NewKey(c)] = <<>>]
  /\ made' = [made EXCEPT ![NewKey(c)] = @ + 1]
  /\ Goto(c, "ensured")
  /\ UNCHANGED <<key, copy, said, cut, line>>

-----------------------------------------------------------------------------
(* Runner.runAsync: the line of a session id. *)

\* Wrong on purpose: a run does not look for the one before it.
SubscribeAlone(c) ==
  /\ pc[c] = "ensured"
  /\ prev' = [prev EXCEPT ![c] = None]
  /\ active' = [active EXCEPT ![Sid(c)] = c]
  /\ gate' = [gate EXCEPT ![c] = "shut"]
  /\ turn' = [turn EXCEPT ![c] = turns] /\ turns' = turns + 1
  /\ Goto(c, "queued")
  /\ UNCHANGED <<stored, key, copy, said, cut, made>>

Subscribe(c) ==
  /\ pc[c] = "ensured"
  /\ prev' = [prev EXCEPT ![c] = active[Sid(c)]]
  /\ active' = [active EXCEPT ![Sid(c)] = c]
  /\ gate' = [gate EXCEPT ![c] = "shut"]
  /\ turn' = [turn EXCEPT ![c] = turns] /\ turns' = turns + 1
  /\ Goto(c, "queued")
  /\ UNCHANGED <<stored, key, copy, said, cut, made>>

\* Wrong on purpose: a lock that does not ask who came first.
ReleasedUnfairly(c) ==
  \A d \in Calls : Sid(d) = Sid(c) => pc[d] \notin {"opened", "running"}

Released(c) == prev[c] # None => gate[prev[c]] # "shut"

\* previous completes; getSession copies the stored session, or the run fails
\* because there is none.
Open(c) ==
  /\ pc[c] = "queued" /\ Released(c)
  /\ \/ /\ stored[key[c]] # None
        /\ copy' = [copy EXCEPT ![c] = stored[key[c]]]
        /\ Goto(c, "opened")
     \/ /\ stored[key[c]] = None
        /\ Goto(c, "failed") /\ UNCHANGED copy
  /\ UNCHANGED <<stored, key, said, cut, made, line>>

\* Wrong on purpose: doOnComplete in the place of doFinally.
SignalSuccess(c) ==
  /\ pc[c] = "answered" /\ gate[c] = "shut"
  /\ gate' = [gate EXCEPT ![c] = "open"]
  /\ UNCHANGED <<stored, active, pc, key, prev, copy, said, turn, turns, cut,
                 made>>

\* doFinally, after the run completed, failed or was disposed of.
Signal(c) ==
  /\ pc[c] \in Ended /\ gate[c] = "shut"
  /\ gate' = [gate EXCEPT ![c] = "open"]
  /\ UNCHANGED <<stored, active, pc, key, prev, copy, said, turn, turns, cut,
                 made>>

\* Wrong on purpose: the completion is removed by its session id alone.
ForgetAny(c) ==
  /\ gate[c] = "open"
  /\ gate' = [gate EXCEPT ![c] = "gone"]
  /\ active' = [active EXCEPT ![Sid(c)] = None]
  /\ UNCHANGED <<stored, pc, key, prev, copy, said, turn, turns, cut, made>>

Forget(c) ==
  /\ gate[c] = "open"
  /\ gate' = [gate EXCEPT ![c] = "gone"]
  /\ active' = [active EXCEPT ![Sid(c)] = IF @ = c THEN None ELSE @]
  /\ UNCHANGED <<stored, pc, key, prev, copy, said, turn, turns, cut, made>>

-----------------------------------------------------------------------------
(* The run. *)

\* appendEvent adds to the run's copy and puts it where the session is.
AppendEvent(c, n) ==
  LET updated == Append(copy[c], <<c, n>>)
  IN /\ copy' = [copy EXCEPT ![c] = updated]
     /\ stored' = [stored EXCEPT ![key[c]] = updated]

\* appendNewMessageToSession
AppendMessage(c) ==
  /\ pc[c] = "opened"
  /\ AppendEvent(c, 0)
  /\ Goto(c, "running")
  /\ UNCHANGED <<key, said, cut, made, line>>

\* Wrong on purpose: the limit of the run is off by one.
AgentEventPastLimit(c) ==
  /\ pc[c] = "running" /\ said[c] <= MaxEvents
  /\ said' = [said EXCEPT ![c] = @ + 1]
  /\ AppendEvent(c, said[c] + 1)
  /\ UNCHANGED <<pc, key, cut, made, line>>

\* An event of the agent: a call of a tool, its result, a text.
AgentEvent(c) ==
  /\ pc[c] = "running" /\ said[c] < MaxEvents
  /\ said' = [said EXCEPT ![c] = @ + 1]
  /\ AppendEvent(c, said[c] + 1)
  /\ UNCHANGED <<pc, key, cut, made, line>>

\* The agent is done, or the model or a tool fails.
Finish(c) ==
  /\ pc[c] = "running"
  /\ \E how \in {"answered", "failed"} : Goto(c, how)
  /\ UNCHANGED <<stored, key, copy, said, cut, made, line>>

\* The thread blocked on the answer is interrupted and disposes of the run.
\* (At one instant: what a run that was released on the thread of the run
\* before it still does after its disposal, until it notices, is left out.)
Dispose(c) ==
  /\ pc[c] \in {"queued", "opened", "running"}
  /\ cut' = [cut EXCEPT ![c] = pc[c] = "queued"]
  /\ Goto(c, "disposed")
  /\ UNCHANGED <<stored, key, copy, said, made, line>>

Step(c) ==
  \/ Converse(c) \/ CreateSession(c)
  \/ Subscribe(c) \/ Open(c) \/ Signal(c) \/ Forget(c)
  \/ AppendMessage(c) \/ AgentEvent(c) \/ Finish(c)

Next == \E c \in Calls : Step(c) \/ Dispose(c)

Spec == Init /\ [][Next]_vars

\* A request in progress goes on: its thread, or the one its model answers on.
Fairness == \A c \in Calls : WF_vars(pc[c] # "new" /\ Step(c))

FairSpec == Spec /\ Fairness

-----------------------------------------------------------------------------
(* Properties. *)

Running(c) == pc[c] \in {"opened", "running"}

\* A run that waited between c and d was disposed of.
CutBetween(c, d) ==
  \E e \in Calls : cut[e] /\ Sid(e) = Sid(c)
                   /\ turn[c] < turn[e] /\ turn[e] < turn[d]

\* Runs on one session id happen one after the other in the order they
\* subscribed, also when runs fail and when two users chose the same id.  The
\* one exception: a run that is disposed of while it waits lets those behind
\* it past those before it.
RunsDoNotOverlap ==
  \A c, d \in Calls :
    (c # d /\ Running(c) /\ Running(d) /\ Sid(c) = Sid(d)
       /\ turn[c] < turn[d]) => CutBetween(c, d)

\* The session of c was created once, and no run was disposed of while it
\* waited in its line.
Undisturbed(c) ==
  made[key[c]] = 1 /\ \A e \in Calls : Sid(e) = Sid(c) => ~cut[e]

\* The message of c and the first n events of its agent are in history h.
Keeps(h, c, n) ==
  \A m \in 0 .. n : \E i \in DOMAIN h : h[i] = <<c, m>>

\* What an answered request said and was told stays in the stored session
\* and is known to every run that opens it later, although every append puts
\* back a whole copy of the session: no copy is older than the last append.
\* (A session that is created again starts empty: two first requests with one
\* new session id may both create it, and a request whose id has blanks around
\* it creates the session of the trimmed id every time, with no race at all.)
AnswersKept ==
  \A c \in Calls : (pc[c] = "answered" /\ Undisturbed(c)) =>
    /\ Keeps(stored[key[c]], c, said[c])
    /\ \A d \in Calls :
         (Running(d) /\ key[d] = key[c] /\ turn[c] < turn[d])
           => Keeps(copy[d], c, said[c])

\* To the line a run is there from its subscription until its completion
\* signals, or until it is disposed of while it waits.
Phase(c) ==
  CASE gate[c] = "none" -> "away"
    [] gate[c] = "shut" /\ pc[c] = "queued" -> "waiting"
    [] gate[c] = "shut" /\ pc[c] # "queued" /\ ~cut[c] -> "served"
    [] OTHER -> "left"

Places == [c \in Calls |-> Sid(c)]
Phases == [c \in Calls |-> Phase(c)]
Kept == {s \in Sids : \A c \in Calls : Sid(c) = s => ~cut[c]}

Line == INSTANCE LineOfRuns WITH
  Runs <- Calls, Lines <- Sids, place <- Places, phase <- Phases,
  kept <- Kept

\* The chain of completions in activeSessionCompletables is a line for each
\* session id: first come, first served, one run at a time, whichever runs
\* fail or are interrupted; until a run gives up while it waits.
RunsFormLines == Line!Spec

\* A request is answered, fails or is disposed of: as long as models and tools
\* answer, the line of a session never stops, whichever of its runs fail, find
\* no session or are interrupted.
EveryRequestEnds ==
  \A c \in Calls : pc[c] # "new" ~> pc[c] \in Ended

-----------------------------------------------------------------------------
(* The inductive invariant: a run that is not over waits for a run before  *)
(* it that is not over, or nothing before it is left to wait for.          *)

Live(c) == gate[c] = "shut"
CutAfter(c) == \E e \in Calls : cut[e] /\ Sid(e) = Sid(c) /\ turn[c] < turn[e]

PlaceOK(c) ==
  /\ gate[c] = "none" <=> pc[c] \in {"new", "creating", "ensured"}
  /\ pc[c] \in {"queued", "opened", "running"} => Live(c)
  /\ cut[c] => pc[c] = "disposed"
  /\ gate[c] # "none" => turn[c] < turns
  /\ gate[c] # "none" /\ prev[c] # None =>
       gate[prev[c]] # "none" /\ Sid(prev[c]) = Sid(c)
         /\ turn[prev[c]] < turn[c]
  /\ gate[c] # "none" /\ pc[c] # "queued" /\ ~cut[c] => Released(c)

LastOK(s) ==
  active[s] # None => gate[active[s]] # "none" /\ Sid(active[s]) = s

OwnTurn(c, d) ==
  c # d /\ gate[c] # "none" /\ gate[d] # "none" => turn[c] # turn[d]

\* d waits for c or for a run between the two.
WaitsFor(c, d) ==
  (Live(c) /\ Live(d) /\ Sid(c) = Sid(d) /\ turn[c] < turn[d]
     /\ ~CutBetween(c, d))
    => prev[d] # None /\ Live(prev[d]) /\ turn[c] <= turn[prev[d]]

\* The next to subscribe will find c or a run after it.
Awaited(c) ==
  (Live(c) /\ ~CutAfter(c))
    => /\ active[Sid(c)] # None /\ Live(active[Sid(c)])
       /\ turn[c] <= turn[active[Sid(c)]]

IInv ==
  /\ \A c \in Calls : PlaceOK(c) /\ Awaited(c)
  /\ \A s \in Sids : LastOK(s)
  /\ \A c, d \in Calls : OwnTurn(c, d) /\ WaitsFor(c, d)

(* What AnswersKept rests on: in an undisturbed line a run's copy is the   *)
(* stored session, and all that is appended extends it.                    *)
FreshOK(c) ==
  /\ pc[c] \in {"opened", "running", "answered"} => made[key[c]] > 0
  /\ pc[c] \notin {"running"} \cup Ended => said[c] = 0
  /\ Running(c) /\ Undisturbed(c) => copy[c] = stored[key[c]]
  /\ pc[c] \in {"running", "answered"} /\ Undisturbed(c) =>
       Keeps(stored[key[c]], c, said[c])

KInv ==
  /\ \A k \in Keys : stored[k] # None => made[k] > 0
  /\ \A c \in Calls : FreshOK(c)
=============================================================================
