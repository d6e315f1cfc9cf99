----------------------------- MODULE AgentLoop -----------------------------
(***************************************************************************)
(* One run of an agent of the ADK: the loop of BaseLlmFlow, which asks the *)
(* model, runs the tools it calls and asks again, and the Runner, which    *)
(* appends the events of the loop to the session one after the other while *)
(* the loop goes on.  PersistBarrier keeps the loop from asking again      *)
(* before the Runner is done with the events of the last step.             *)
(*                                                                         *)
(* appendEvent may take its time (a session service that stores elsewhere) *)
(* or fail.  When the model transfers to another agent, that agent's loop  *)
(* runs inside the step that transferred: the loops in progress are a      *)
(* stack.  Left out: events of request processors, callbacks and plugins,  *)
(* and the pause of a resumable run.                                       *)
(***************************************************************************)
EXTENDS AgentLoopData

Init ==
  /\ emitted = <<>> /\ taken = 0 /\ runner = "idle"
  /\ session = {} /\ marked = {}
  /\ loops = <<[first |-> 1, steps |-> 0]>>
  /\ stage = "ready" /\ llmCalls = 0

-----------------------------------------------------------------------------
(* The loop. *)

\* Wrong on purpose: calls are counted, but the limit is not enforced.
AskUnlimited ==
  /\ stage = "ready"
  /\ llmCalls' = llmCalls + 1
  /\ stage' = "thinking"
  /\ UNCHANGED <<emitted, loops, persister>>

\* runOneStep up to the model: the request is built from session.events().
Ask ==
  /\ stage = "ready"
  /\ llmCalls' = llmCalls + 1
  /\ stage' = IF llmCalls + 1 > MaxLlmCalls THEN "failed" ELSE "thinking"
  /\ UNCHANGED <<emitted, loops, persister>>

StepMayEmit ==
  stage = "thinking" /\ Len(emitted) - Top.first + 1 < MaxStepEvents

\* An event of the model's answer or of the tools.
Emit(kind) ==
  /\ StepMayEmit
  /\ emitted' = Append(emitted, kind)
  /\ UNCHANGED <<loops, stage, llmCalls, persister>>

\* nextAgent.runAsync(context), after the event that transfers; an agent that
\* does not exist ends the run.
Transfer(found) ==
  /\ StepMayEmit
  /\ emitted' = Append(emitted, "transfer")
  /\ loops' = IF found
              THEN Append(loops, [first |-> Len(emitted) + 2, steps |-> 0])
              ELSE loops
  /\ stage' = IF found THEN "ready" ELSE "failed"
  /\ UNCHANGED <<llmCalls, persister>>

\* The model or a tool fails.
Break ==
  /\ stage = "thinking"
  /\ stage' = "failed"
  /\ UNCHANGED <<emitted, loops, llmCalls, persister>>

LastStep ==
  (Top.steps + 1 < MaxSteps /\ Top.first <= Len(emitted))
    => emitted[Len(emitted)] = "final"

\* The step was the loop's last one; an agent that had transferred goes on
\* with its own step.
EndTurn ==
  /\ stage = "thinking" /\ LastStep
  /\ loops' = SubSeq(loops, 1, Len(loops) - 1)
  /\ stage' = IF Len(loops) = 1 THEN "complete" ELSE "thinking"
  /\ UNCHANGED <<emitted, llmCalls, persister>>

\* The step is over and another one is needed: awaitPersisted.
EndStep ==
  /\ stage = "thinking" /\ ~LastStep
  /\ stage' = "waiting"
  /\ UNCHANGED <<emitted, loops, llmCalls, persister>>

\* Wrong on purpose: the loop goes on without the barrier.
NextStepAtOnce ==
  /\ stage = "waiting"
  /\ loops' = [loops EXCEPT ![Len(loops)] =
        [first |-> Len(emitted) + 1, steps |-> @.steps + 1]]
  /\ stage' = "ready"
  /\ UNCHANGED <<emitted, llmCalls, persister>>

NextStep ==
  /\ stage = "waiting"
  /\ \A i \in Top.first .. Len(emitted) : i \in marked
  /\ loops' = [loops EXCEPT ![Len(loops)] =
        [first |-> Len(emitted) + 1, steps |-> @.steps + 1]]
  /\ stage' = "ready"
  /\ UNCHANGED <<emitted, llmCalls, persister>>

-----------------------------------------------------------------------------
(* The Runner. *)

\* Wrong on purpose: nothing is marked that is not stored.
TakeUnmarked ==
  /\ runner = "idle" /\ stage \notin RunOver /\ taken < Len(emitted)
  /\ taken' = taken + 1
  /\ runner' = IF emitted[taken + 1] = "partial" THEN "idle" ELSE "appending"
  /\ UNCHANGED <<session, marked, flow>>

\* The next event of the loop; a partial one is marked and not appended.
Take ==
  /\ runner = "idle" /\ stage \notin RunOver /\ taken < Len(emitted)
  /\ taken' = taken + 1
  /\ IF emitted[taken + 1] = "partial"
     THEN marked' = marked \cup {taken + 1} /\ UNCHANGED runner
     ELSE runner' = "appending" /\ UNCHANGED marked
  /\ UNCHANGED <<session, flow>>

\* appendEvent has added the event to the session.
Store ==
  /\ runner = "appending"
  /\ session' = session \cup {taken}
  /\ runner' = "stored"
  /\ UNCHANGED <<taken, marked, flow>>

\* markPersisted
Mark ==
  /\ runner = "stored"
  /\ marked' = marked \cup {taken}
  /\ runner' = "idle"
  /\ UNCHANGED <<taken, session, flow>>

\* appendEvent fails.
AppendFails ==
  /\ runner = "appending"
  /\ runner' = "failed"
  /\ UNCHANGED <<taken, session, marked, flow>>

\* The error of the append cancels the loop, or reaches it by markFailed.
Cancel ==
  /\ runner = "failed" /\ stage \notin RunOver
  /\ stage' = "failed"
  /\ UNCHANGED <<emitted, loops, llmCalls, persister>>

\* All events of the loop were handled.
Finish ==
  /\ stage = "complete" /\ taken = Len(emitted) /\ runner = "idle"
  /\ stage' = "answered"
  /\ UNCHANGED <<emitted, loops, llmCalls, persister>>

Flow ==
  \/ Ask \/ EndTurn \/ EndStep \/ NextStep
  \/ \E found \in BOOLEAN : Transfer(found)
  \/ \E kind \in Kinds \ {"transfer"} : Emit(kind)

Persist == Take \/ Store \/ Mark \/ Cancel \/ Finish

Next == Flow \/ Break \/ Persist \/ AppendFails

Spec == Init /\ [][Next]_run

-----------------------------------------------------------------------------
(* The inductive invariant: the barrier follows the Runner, which handles  *)
(* the events in order.                                                    *)
IInv ==
  /\ \A i \in marked : i <= taken /\ (emitted[i] = "partial" \/ i \in session)
  /\ \A i \in 1 .. taken : i \in marked \/ (i = taken /\ runner # "idle")
  /\ runner = "stored" => taken \in session
  /\ stage = "waiting" => Top.first <= Len(emitted)
  /\ (stage = "ready" /\ Top.steps > 0) =>
       \A i \in 1 .. Len(emitted) : i \in marked
=============================================================================
