------------------------------ MODULE A2ATasks ------------------------------
(***************************************************************************)
(* Delegation from agent to agent: a caller (A2AAgentClientSupport over    *)
(* the ADK's RemoteA2AAgent) sends a message to the agent behind an agent  *)
(* card, whose AgentExecutor runs the agent and reports on a task.         *)
(*                                                                         *)
(* A task outlives a request: a caller that answers a function call sends  *)
(* its message with the task's id.  The executor keeps for every task the  *)
(* disposables of its run in activeTasks and refuses a second run; the end *)
(* of a run and a cancellation remove what is registered and dispose of    *)
(* it.  The chain of a run becomes part of these disposables only when     *)
(* subscribe has returned.  The agents of the HRMS answer on the thread    *)
(* that subscribes (their model calls block), so that their runs are over  *)
(* by then, and a cancellation disposes of nothing; an agent with threads  *)
(* of its own can be disposed of once its chain has been added.            *)
(*                                                                         *)
(* The request handlers of the A2A SDK are modelled from their use: they   *)
(* call execute and cancel on threads of their own, and hand a caller the  *)
(* task once it is in a final state, or the error that execute threw.      *)
(***************************************************************************)
EXTENDS Integers, Sequences, FiniteSets

CONSTANTS
  Tasks,        \* task ids
  Runs,         \* requests: one caller and one call of execute each
  Cancels,      \* calls of cancel, those of skipped runs included
  MaxArtifacts, \* bound: artifacts of one task
  None,         \* nothing registered, no run, no task
  Due,          \* cleanupTask has been called and has removed nothing yet
  Async,        \* BOOLEAN: agents may answer on a thread of their own; those
                \* of the HRMS do not
  Callbacks     \* BOOLEAN: a configuration with callbacks, which may skip a
                \* run and drop an event; the agents of the HRMS have none

ASSUME NoneAssumption ==
  None \notin Runs /\ None \notin Tasks /\ None \notin Cancels
ASSUME ActorAssumption == Runs \cap Cancels = {}
ASSUME DueAssumption == Due \notin Runs /\ Due # None

Kinds == {"submitted", "working", "artifact", "completed", "failed",
          "canceled"}
Final == {"completed", "failed", "canceled"}
Actors == Runs \cup Cancels

VARIABLES
  active,   \* activeTasks: the run registered for each task
  queue,    \* the events of each task, and the run that enqueued each
  task,     \* the task that each message names
  pc,       \* where each call of execute, then its chain, is
  added,    \* its chain is part of its disposables
  disposed, \* its disposables have been disposed of
  cleanup,  \* cleanupTask of a run or cancel: due, or the run it removed
  at,       \* the task of each cancel, once it is called
  skip,     \* the cancel that a skipped run called itself
  caller,   \* where the caller of each run is
  from      \* the events its task had when the request came in

execution == <<active, queue, pc, added, disposed, cleanup, at, skip>>
vars == <<active, queue, task, pc, added, disposed, cleanup, at, skip, caller,
          from>>

Event == [run : Runs \cup {None}, kind : Kinds]

TypeOK ==
  /\ active \in [Tasks -> Runs \cup {None}]
  /\ queue \in [Tasks -> Seq(Event)]
  /\ task \in [Runs -> Tasks]
  /\ pc \in [Runs -> {"new", "submitted", "refused", "registered", "thrown",
                      "starting", "skipping", "working", "ended",
                      "disposed"}]
  /\ added \in [Runs -> BOOLEAN]
  /\ disposed \in [Runs -> BOOLEAN]
  /\ cleanup \in [Actors -> {None, Due} \cup Runs]
  /\ at \in [Cancels -> Tasks \cup {None}]
  /\ skip \in [Runs -> Cancels \cup {None}]
  /\ caller \in [Runs -> {"idle", "waiting", "silent", "answered", "raised"}]
  /\ from \in [Runs -> Nat]

Init ==
  /\ active = [t \in Tasks |-> None]
  /\ queue = [t \in Tasks |-> <<>>]
  /\ task \in [Runs -> Tasks]
  /\ pc = [e \in Runs |-> "new"]
  /\ added = [e \in Runs |-> FALSE]
  /\ disposed = [e \in Runs |-> FALSE]
  /\ cleanup = [a \in Actors |-> None]
  /\ at = [k \in Cancels |-> None]
  /\ skip = [e \in Runs |-> None]
  /\ caller = [e \in Runs |-> "idle"]
  /\ from = [e \in Runs |-> 0]

Goto(e, where) == pc' = [pc EXCEPT ![e] = where]

Enqueue(t, e, kind) ==
  queue' = [queue EXCEPT ![t] = Append(@, [run |-> e, kind |-> kind])]

\* The chain of e is subscribed and has neither ended nor been disposed of.
Live(e) == pc[e] \in {"starting", "skipping", "working"}

-----------------------------------------------------------------------------
(* execute, up to the subscription. *)

\* The caller has found the agent's card and sends its message; execute is
\* called, and the first message on a task submits it.
Submit(e) ==
  /\ pc[e] = "new" /\ caller[e] = "idle"
  /\ caller' = [caller EXCEPT ![e] = "waiting"]
  /\ IF queue[task[e]] = <<>> THEN Enqueue(task[e], e, "submitted")
     ELSE UNCHANGED queue
  /\ from' = [from EXCEPT ![e] = Len(queue[task[e]])]
  /\ Goto(e, "submitted")
  /\ UNCHANGED <<active, task, added, disposed, cleanup, at, skip>>

\* Wrong on purpose: put in the place of putIfAbsent.
RegisterOver(e) ==
  /\ pc[e] = "submitted"
  /\ active' = [active EXCEPT ![task[e]] = e]
  /\ Goto(e, "registered")
  /\ UNCHANGED <<queue, task, added, disposed, cleanup, at, skip, caller,
                 from>>

\* activeTasks.putIfAbsent
Register(e) ==
  /\ pc[e] = "submitted"
  /\ IF active[task[e]] = None
     THEN /\ active' = [active EXCEPT ![task[e]] = e]
          /\ Goto(e, "registered")
     ELSE Goto(e, "refused") /\ UNCHANGED active
  /\ UNCHANGED <<queue, task, added, disposed, cleanup, at, skip, caller,
                 from>>

\* messageToContent, the callback or the runner's builder throws: no chain.
Throw(e) ==
  /\ pc[e] = "registered"
  /\ Goto(e, "thrown")
  /\ UNCHANGED <<active, queue, task, added, disposed, cleanup, at, skip,
                 caller, from>>

Subscribe(e) ==
  /\ pc[e] = "registered"
  /\ Goto(e, "starting")
  /\ UNCHANGED <<active, queue, task, added, disposed, cleanup, at, skip,
                 caller, from>>

\* subscribe has returned, after doFinally if the agent blocks: now comes
\* taskDisposables.add, which disposes of the chain at once if the disposables
\* were disposed of; doFinally follows.
Add(e) ==
  /\ ~added[e]
  /\ \/ pc[e] = "ended" /\ cleanup[e] = None
     \/ Async /\ pc[e] \in {"starting", "skipping", "working", "ended"}
  /\ added' = [added EXCEPT ![e] = TRUE]
  /\ IF disposed[e] /\ Live(e)
     THEN Goto(e, "disposed") /\ cleanup' = [cleanup EXCEPT ![e] = Due]
     ELSE UNCHANGED <<pc, cleanup>>
  /\ UNCHANGED <<active, queue, task, disposed, at, skip, caller, from>>

-----------------------------------------------------------------------------
(* The chain. *)

\* CANCELED is reported first; cleanupTask follows.
CancelTask(k, t) ==
  /\ at[k] = None
  /\ at' = [at EXCEPT ![k] = t]
  /\ Enqueue(t, None, "canceled")
  /\ cleanup' = [cleanup EXCEPT ![k] = Due]

\* beforeExecuteCallback says to skip: the chain calls cancel.
Skip(e) ==
  /\ Callbacks /\ pc[e] = "starting"
  /\ \E k \in Cancels :
       CancelTask(k, task[e]) /\ skip' = [skip EXCEPT ![e] = k]
  /\ Goto(e, "skipping")
  /\ UNCHANGED <<active, task, added, disposed, caller, from>>

\* prepareSession creates a session; updater.startWork, runner.runAsync.
StartWork(e) ==
  /\ pc[e] = "starting"
  /\ Enqueue(task[e], e, "working")
  /\ Goto(e, "working")
  /\ UNCHANGED <<active, task, added, disposed, cleanup, at, skip, caller,
                 from>>

Artifacts(t) == {i \in DOMAIN queue[t] : queue[t][i].kind = "artifact"}

\* process: an event of the agent becomes an artifact of the task.
Process(e) ==
  /\ pc[e] = "working"
  /\ Cardinality(Artifacts(task[e])) < MaxArtifacts
  /\ Enqueue(task[e], e, "artifact")
  /\ UNCHANGED <<active, task, pc, added, disposed, cleanup, at, skip,
                 caller, from>>

\* The session, the callback, the agent or the conversion of one of its
\* events fails, or the agent is done.
Outcomes(e) ==
  CASE pc[e] = "starting" -> {"failed"}
    [] pc[e] = "working" -> {"completed", "failed"}
    [] pc[e] = "skipping" /\ cleanup[skip[e]] = None -> {"completed"}
    [] OTHER -> {}

\* Wrong on purpose: cleanupTask in doOnComplete.
EndCleaningSuccess(e) ==
  \E kind \in Outcomes(e) :
    /\ Enqueue(task[e], e, kind)
    /\ cleanup' =
         [cleanup EXCEPT ![e] = IF kind = "completed" THEN Due ELSE @]
    /\ Goto(e, "ended")
    /\ UNCHANGED <<active, task, added, disposed, at, skip, caller, from>>

\* handleExecutionEnd; afterExecuteCallback or a queue that was closed may
\* swallow the last event; doFinally follows.
End(e) ==
  \E kind \in Outcomes(e) :
    /\ \/ Enqueue(task[e], e, kind)
       \/ Callbacks /\ UNCHANGED queue
    /\ cleanup' = [cleanup EXCEPT ![e] = Due]
    /\ Goto(e, "ended")
    /\ UNCHANGED <<active, task, added, disposed, at, skip, caller, from>>

-----------------------------------------------------------------------------
(* cleanupTask and cancel. *)

TaskOf(a) == IF a \in Runs THEN task[a] ELSE at[a]

\* activeTasks.remove: of whichever run is registered.
Remove(a) ==
  /\ cleanup[a] = Due
  /\ active' = [active EXCEPT ![TaskOf(a)] = None]
  /\ cleanup' = [cleanup EXCEPT ![a] = active[TaskOf(a)]]
  /\ UNCHANGED <<queue, task, pc, added, disposed, at, skip, caller, from>>

\* dispose of what was removed: a live chain that is part of it stops, and
\* its doFinally follows.
Dispose(a) ==
  \E d \in Runs :
    /\ cleanup[a] = d
    /\ disposed' = [disposed EXCEPT ![d] = TRUE]
    /\ IF added[d] /\ Live(d)
       THEN /\ Goto(d, "disposed")
            /\ cleanup' = [cleanup EXCEPT ![a] = None, ![d] = Due]
       ELSE cleanup' = [cleanup EXCEPT ![a] = None] /\ UNCHANGED pc
    /\ UNCHANGED <<active, queue, task, added, at, skip, caller, from>>

Cancel(k, t) ==
  /\ queue[t] # <<>>
  /\ CancelTask(k, t)
  /\ UNCHANGED <<active, task, pc, added, disposed, skip, caller, from>>

-----------------------------------------------------------------------------
(* The caller. *)

Hear(e, what) ==
  /\ caller' = [caller EXCEPT ![e] = what]
  /\ UNCHANGED <<execution, task, from>>

\* A2AAgentClientSupport.call: there is no agent card.
Unavailable(e) ==
  /\ caller[e] = "idle"
  /\ Hear(e, "raised")

\* Wrong on purpose: the flow passes on the state of the task.
CompletesAs(kind) == kind

\* isCompleted: only COMPLETED completes the flow.
Completes(kind) == IF kind = "completed" THEN "answered" ELSE "silent"

FinalAfter(q, n) == {i \in DOMAIN q : i > n /\ q[i].kind \in Final}

\* handleEvent: the task reached a final state.
HandleEvent(e) ==
  /\ caller[e] = "waiting"
  /\ \E i \in FinalAfter(queue[task[e]], from[e]) :
       /\ \A j \in FinalAfter(queue[task[e]], from[e]) : i <= j
       /\ Hear(e, Completes(queue[task[e]][i].kind))

\* handleError: execute threw.
HandleError(e) ==
  /\ caller[e] = "waiting" /\ pc[e] \in {"refused", "thrown"}
  /\ Hear(e, "raised")

\* handleError: the connection broke.
Disconnect(e) ==
  /\ caller[e] = "waiting"
  /\ Hear(e, "raised")

Execute(e) == Register(e) \/ Subscribe(e) \/ Throw(e)
CleanupTask(a) == Remove(a) \/ Dispose(a)
Listen(e) == HandleEvent(e) \/ HandleError(e)
Work(e) == StartWork(e) \/ Process(e) \/ End(e)

Next ==
  \/ \E e \in Runs :
       \/ Submit(e) \/ Unavailable(e) \/ Execute(e) \/ Add(e)
       \/ Skip(e) \/ Work(e) \/ Listen(e) \/ Disconnect(e)
  \/ \E k \in Cancels, t \in Tasks : Cancel(k, t)
  \/ \E a \in Actors : CleanupTask(a)

Spec == Init /\ [][Next]_vars

\* The threads of the executor go on as far as the agent is not concerned,
\* whose model may never answer, so that subscribe may never return.
Fairness ==
  /\ \A e \in Runs : WF_vars(Execute(e))
  /\ \A a \in Actors : WF_vars(CleanupTask(a))

FairSpec == Spec /\ Fairness

\* And an agent that answers, and the connection to the caller.
AnsweringSpec ==
  FairSpec /\ \A e \in Runs : WF_vars(Work(e)) /\ WF_vars(Listen(e))

-----------------------------------------------------------------------------
(* Properties. *)

Cancelled(t) == \E i \in DOMAIN queue[t] : queue[t][i].kind = "canceled"

\* Registered and not over: what must not be two of on one task.
Busy(e) == pc[e] = "registered" \/ Live(e)

\* As long as nobody cancels a task it has at most one run, and that run is
\* the one activeTasks names: no run is let in beside another, and no late
\* doFinally forgets a newer run.  (After a cancellation, which stops no run
\* of an agent that blocks, the next request runs beside it.)
UncancelledRunsAlone ==
  \A e \in Runs :
    (Busy(e) /\ ~Cancelled(task[e])) =>
      /\ active[task[e]] = e
      /\ \A d \in Runs : Busy(d) /\ task[d] = task[e] => d = e

Own(q, i, e) == q[i].run = e /\ q[i].kind # "submitted"

\* What the caller reads of an uncancelled task is one run's report after
\* another's: between two events of a run there is none of another.
TurnsDoNotMix ==
  \A t \in Tasks, e \in Runs :
    LET q == queue[t]
    IN  ~Cancelled(t) =>
          \A i, j, m \in DOMAIN q :
            (i < m /\ m < j /\ Own(q, i, e) /\ Own(q, j, e)) => Own(q, m, e)

\* A run that is over, however it ended, is forgotten, so that its task can
\* be taken up again.  (A run whose message could not be converted is not.)
RunsForgotten ==
  \A e \in Runs :
    pc[e] \in {"ended", "disposed"} ~> active[task[e]] # e

\* What the callers say of themselves ("a failed/unreachable agent surfaces
\* as a normal tool error the LLM can report",
\* orchestrator-agent/.../A2AAgentClientSupport.java:27): whoever asks an
\* agent that answers gets its answer or an exception.
DelegationReturns ==
  \A e \in Runs :
    caller[e] = "waiting" ~> caller[e] \in {"answered", "raised"}

-----------------------------------------------------------------------------
(* The inductive invariants.  A run that has registered and not yet        *)
(* removed itself is the one its task names; only cancellations take that  *)
(* from it.                                                                *)

Holds(e) ==
  \/ pc[e] \in {"registered", "thrown", "starting", "working"}
  \/ pc[e] = "ended" /\ cleanup[e] = Due

RunOK(e) ==
  ~Cancelled(task[e]) =>
    /\ pc[e] \notin {"skipping", "disposed"}
    /\ Holds(e) => active[task[e]] = e
    /\ disposed[e] => pc[e] = "ended"
    /\ cleanup[e] # None => pc[e] = "ended" /\ cleanup[e] \in {Due, e}

CancelOK(k) == cleanup[k] # None => at[k] # None /\ Cancelled(at[k])

\* What is registered for a task, or was removed from it, is a run of it.
OwnTask ==
  /\ \A t \in Tasks : active[t] # None => task[active[t]] = t
  /\ \A a \in Actors : cleanup[a] \in Runs => task[cleanup[a]] = TaskOf(a)

IInv ==
  /\ OwnTask
  /\ \A e \in Runs : RunOK(e)
  /\ \A k \in Cancels : CancelOK(k)

\* A run has reported nothing before it works, and while it works nothing
\* has been reported since its first event but its own.
ReportOK(e) ==
  LET q == queue[task[e]]
  IN  /\ pc[e] \in {"new", "submitted", "registered", "starting"} =>
           \A i \in DOMAIN q : ~Own(q, i, e)
      /\ (pc[e] = "working" /\ ~Cancelled(task[e])) =>
           \A i, m \in DOMAIN q : (i <= m /\ Own(q, i, e)) => Own(q, m, e)

RInv ==
  /\ \A e \in Runs : ReportOK(e)
  /\ TurnsDoNotMix
=============================================================================
