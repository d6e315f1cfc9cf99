--------------------------- MODULE AgentLoopData ---------------------------
(* The state of a run of an agent that AgentLoop's steps work on, and what *)
(* it has to satisfy.                                                      *)
EXTENDS Integers, Sequences

CONSTANTS
  MaxLlmCalls,   \* RunConfig.maxLlmCalls, enforced when positive
  MaxSteps,      \* maxSteps of a loop
  MaxStepEvents  \* bound: events of one step

ASSUME LimitAssumption ==
  /\ MaxLlmCalls \in Nat \ {0}
  /\ MaxSteps \in Nat \ {0}
  /\ MaxStepEvents \in Nat \ {0}

\* A piece of a streamed answer, which is not stored; a call of a tool or its
\* result; a result that transfers to another agent; an event that ends the
\* turn (finalResponse or endInvocation).
Kinds == {"partial", "tool", "transfer", "final"}

VARIABLES
  emitted,   \* the events of the run so far
  taken,     \* how many of them the Runner has begun to handle
  runner,    \* what it does with the last of these
  session,   \* the events in the session, by their place in emitted
  marked,    \* the events the barrier knows to be persisted
  loops,     \* the loops in progress: the first event of the current step
             \* and the steps completed
  stage,     \* where the innermost loop is
  llmCalls   \* numberOfLlmCalls

flow == <<emitted, loops, stage, llmCalls>>
persister == <<taken, runner, session, marked>>
run == <<flow, persister>>

RunOver == {"answered", "failed"}

Loop == [first : Nat \ {0}, steps : Nat]

RunTypeOK ==
  /\ emitted \in Seq(Kinds)
  /\ taken \in 0 .. Len(emitted)
  /\ runner \in {"idle", "appending", "stored", "failed"}
  /\ runner # "idle" => taken > 0
  /\ session \subseteq 1 .. Len(emitted)
  /\ marked \subseteq 1 .. Len(emitted)
  /\ loops \in Seq(Loop)
  /\ stage \in {"ready", "thinking", "waiting", "complete"} \cup RunOver
  /\ stage \in {"ready", "thinking", "waiting"} => Len(loops) > 0
  /\ llmCalls \in
       0 .. IF stage = "failed" THEN MaxLlmCalls + 1 ELSE MaxLlmCalls

Top == loops[Len(loops)]

\* However slow the appends are, a loop that asks the model again builds its
\* request from a session that has every event of the run so far, those of
\* the agents it had transferred to included (partial ones apart).  The first
\* request of an agent that was transferred to is not covered: nothing waits
\* for the event that transfers.
StepsSeeEverything ==
  [][(llmCalls' # llmCalls /\ Top.steps > 0) =>
       \A i \in 1 .. Len(emitted) :
          emitted[i] = "partial" \/ i \in session]_run
=============================================================================
