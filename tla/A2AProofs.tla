------------------------------ MODULE A2AProofs ------------------------------
(***************************************************************************)
(* Proofs about A2ATasks: its types, that a task nobody cancels has at     *)
(* most one run at a time, and that the reports of its runs do not mix.    *)
(***************************************************************************)
EXTENDS A2ATasks, SequenceTheorems, TLAPS

-----------------------------------------------------------------------------
(* Types. *)

\* An enqueued event leaves the queues typed; the queue of its task is
\* longer by it, the others are as they were.
LEMMA EnqueueLemma ==
  ASSUME TypeOK, NEW t \in Tasks, NEW e \in Runs \cup {None},
         NEW kind \in Kinds, Enqueue(t, e, kind)
  PROVE  /\ queue' \in [Tasks -> Seq(Event)]
         /\ \A u \in Tasks : u # t => queue'[u] = queue[u]
         /\ Len(queue[t]) \in Nat
         /\ DOMAIN queue[t] = 1 .. Len(queue[t])
         /\ DOMAIN queue'[t] = 1 .. Len(queue[t]) + 1
         /\ \A i \in 1 .. Len(queue[t]) : queue'[t][i] = queue[t][i]
         /\ queue'[t][Len(queue[t]) + 1] = [run |-> e, kind |-> kind]
<1> DEFINE x == [run |-> e, kind |-> kind]
<1>1. x \in Event
  BY DEF Event
<1>2. queue[t] \in Seq(Event)
  BY DEF TypeOK
<1>3. queue' = [queue EXCEPT ![t] = Append(queue[t], x)]
  BY DEF Enqueue
<1>4. Append(queue[t], x) \in Seq(Event)
      /\ Len(Append(queue[t], x)) = Len(queue[t]) + 1
      /\ Append(queue[t], x)[Len(queue[t]) + 1] = x
      /\ \A i \in 1 .. Len(queue[t]) : Append(queue[t], x)[i] = queue[t][i]
  BY <1>1, <1>2
<1>5. queue'[t] = Append(queue[t], x)
      /\ \A u \in Tasks : u # t => queue'[u] = queue[u]
  BY <1>3 DEF TypeOK
<1> HIDE DEF x
<1>6. queue' \in [Tasks -> Seq(Event)]
  BY <1>3, <1>4 DEF TypeOK
<1>7. Len(queue[t]) \in Nat /\ DOMAIN queue[t] = 1 .. Len(queue[t])
  BY <1>2
<1>8. DOMAIN queue'[t] = 1 .. Len(queue[t]) + 1
  BY <1>4, <1>5
<1> QED
  BY <1>4, <1>5, <1>6, <1>7, <1>8 DEF x

\* cancelTask's call is one of the actors.
LEMMA CancelType ==
  ASSUME TypeOK, NEW k \in Cancels, NEW t \in Tasks, CancelTask(k, t)
  PROVE  /\ queue' \in [Tasks -> Seq(Event)]
         /\ at' \in [Cancels -> Tasks \cup {None}]
         /\ cleanup' \in [Actors -> {None, Due} \cup Runs]
<1>1. Enqueue(t, None, "canceled")
  BY DEF CancelTask
<1>2. queue' \in [Tasks -> Seq(Event)]
  BY <1>1, EnqueueLemma DEF Kinds
<1> QED
  BY <1>2 DEF CancelTask, TypeOK, Actors

LEMMA OutcomeKinds ==
  ASSUME NEW e, NEW kind \in Outcomes(e)
  PROVE  kind \in {"completed", "failed"}
  BY DEF Outcomes

\* Every step of a run or its caller keeps the types.
LEMMA RunType ==
  ASSUME TypeOK, NEW e \in Runs,
         \/ Submit(e) \/ Unavailable(e) \/ Execute(e) \/ Add(e)
         \/ Skip(e) \/ Work(e) \/ Listen(e) \/ Disconnect(e)
  PROVE  TypeOK'
<1>1. CASE Submit(e)
  <2>1. queue' \in [Tasks -> Seq(Event)]
    BY <1>1, EnqueueLemma DEF Submit, TypeOK, Kinds
  <2>2. from' \in [Runs -> Nat]
    <3>1. queue[task[e]] \in Seq(Event)
      BY DEF TypeOK
    <3>2. Len(queue[task[e]]) \in Nat
      BY <3>1
    <3> QED
      BY <1>1, <3>2 DEF Submit, TypeOK
  <2> QED
    BY <1>1, <2>1, <2>2 DEF Submit, TypeOK, Goto
<1>2. CASE Unavailable(e) \/ Disconnect(e) \/ HandleError(e)
  BY <1>2 DEF Unavailable, Disconnect, HandleError, Hear, TypeOK, execution
<1>3. CASE HandleEvent(e)
  BY <1>3 DEF HandleEvent, Hear, Completes, TypeOK, execution
<1>4. CASE Register(e)
  BY <1>4 DEF Register, Goto, TypeOK
<1>5. CASE Subscribe(e)
  BY <1>5 DEF Subscribe, Goto, TypeOK
<1>6. CASE Throw(e)
  BY <1>6 DEF Throw, Goto, TypeOK
<1>7. CASE Add(e)
  BY <1>7 DEF Add, Goto, TypeOK, Actors
<1>8. CASE Skip(e)
  <2> PICK k \in Cancels :
        CancelTask(k, task[e]) /\ skip' = [skip EXCEPT ![e] = k]
    BY <1>8 DEF Skip
  <2>1. task[e] \in Tasks
    BY DEF TypeOK
  <2> QED
    BY <1>8, <2>1, CancelType DEF Skip, Goto, TypeOK
<1>9. CASE StartWork(e)
  <2>1. queue' \in [Tasks -> Seq(Event)]
    BY <1>9, EnqueueLemma DEF StartWork, TypeOK, Kinds
  <2> QED
    BY <1>9, <2>1 DEF StartWork, Goto, TypeOK
<1>10. CASE Process(e)
  <2>1. queue' \in [Tasks -> Seq(Event)]
    BY <1>10, EnqueueLemma DEF Process, TypeOK, Kinds
  <2> QED
    BY <1>10, <2>1 DEF Process, TypeOK
<1>11. CASE End(e)
  <2> PICK kind \in Outcomes(e) :
        Enqueue(task[e], e, kind) \/ UNCHANGED queue
    BY <1>11 DEF End
  <2>0. task[e] \in Tasks /\ kind \in Kinds
    BY OutcomeKinds DEF TypeOK, Kinds
  <2>1. queue' \in [Tasks -> Seq(Event)]
    <3>1. CASE Enqueue(task[e], e, kind)
      BY <2>0, <3>1, EnqueueLemma
    <3>2. CASE UNCHANGED queue
      BY <3>2 DEF TypeOK
    <3> QED
      BY <3>1, <3>2
  <2>2. pc' = [pc EXCEPT ![e] = "ended"]
        /\ cleanup' = [cleanup EXCEPT ![e] = Due]
        /\ UNCHANGED <<active, task, added, disposed, at, skip, caller, from>>
    BY <1>11 DEF End, Goto
  <2> QED
    BY <2>1, <2>2 DEF TypeOK, Actors
<1> QED
  BY <1>1, <1>2, <1>3, <1>4, <1>5, <1>6, <1>7, <1>8, <1>9, <1>10, <1>11
  DEF Execute, Work, Listen

LEMMA CleanupType ==
  ASSUME TypeOK, NEW a \in Actors, CleanupTask(a)
  PROVE  TypeOK'
<1>1. CASE Remove(a)
  <2>1. active' \in [Tasks -> Runs \cup {None}]
    BY <1>1 DEF Remove, TypeOK
  <2> QED
    BY <1>1, <2>1 DEF Remove, TypeOK
<1>2. CASE Dispose(a)
  <2> PICK d \in Runs :
        /\ disposed' = [disposed EXCEPT ![d] = TRUE]
        /\ IF added[d] /\ Live(d)
           THEN /\ Goto(d, "disposed")
                /\ cleanup' = [cleanup EXCEPT ![a] = None, ![d] = Due]
           ELSE cleanup' = [cleanup EXCEPT ![a] = None] /\ UNCHANGED pc
        /\ UNCHANGED <<active, queue, task, added, at, skip, caller, from>>
    BY <1>2 DEF Dispose
  <2>1. CASE added[d] /\ Live(d)
    BY <2>1 DEF Goto, TypeOK, Actors
  <2>2. CASE ~(added[d] /\ Live(d))
    BY <2>2 DEF TypeOK, Actors
  <2> QED
    BY <2>1, <2>2
<1> QED
  BY <1>1, <1>2 DEF CleanupTask

\* Every variable has its type: a task has a run of the executor or none, a
\* queue holds events, a cleanup is due or holds a run.
THEOREM TypeCorrect == Spec => []TypeOK
<1>1. Init => TypeOK
  BY DEF Init, TypeOK, Event
<1>2. TypeOK /\ [Next]_vars => TypeOK'
  <2> SUFFICES ASSUME TypeOK, [Next]_vars PROVE TypeOK'
    OBVIOUS
  <2>1. CASE \E e \in Runs :
               \/ Submit(e) \/ Unavailable(e) \/ Execute(e) \/ Add(e)
               \/ Skip(e) \/ Work(e) \/ Listen(e) \/ Disconnect(e)
    BY <2>1, RunType
  <2>2. CASE \E k \in Cancels, t \in Tasks : Cancel(k, t)
    BY <2>2, CancelType DEF Cancel, TypeOK
  <2>3. CASE \E a \in Actors : CleanupTask(a)
    BY <2>3, CleanupType
  <2>4. CASE UNCHANGED vars
    BY <2>4 DEF vars, TypeOK
  <2> QED
    BY <2>1, <2>2, <2>3, <2>4 DEF Next
<1> QED
  BY <1>1, <1>2, PTL DEF Spec

-----------------------------------------------------------------------------
(* A task nobody cancels has at most one run. *)

Inv == TypeOK /\ IInv

\* Only the event "canceled" cancels a task.
LEMMA EnqueueCancels ==
  ASSUME TypeOK, NEW t \in Tasks, NEW e \in Runs \cup {None},
         NEW kind \in Kinds, Enqueue(t, e, kind), NEW u \in Tasks
  PROVE  Cancelled(u)' <=> Cancelled(u) \/ (u = t /\ kind = "canceled")
<1> DEFINE n == Len(queue[t])
<1>1. /\ n \in Nat /\ DOMAIN queue[t] = 1 .. n
      /\ DOMAIN queue'[t] = 1 .. n + 1
      /\ \A i \in 1 .. n : queue'[t][i] = queue[t][i]
      /\ queue'[t][n + 1] = [run |-> e, kind |-> kind]
      /\ \A v \in Tasks : v # t => queue'[v] = queue[v]
  BY EnqueueLemma
<1> HIDE DEF n
<1>2. CASE u # t
  BY <1>1, <1>2 DEF Cancelled
<1>3. CASE u = t
  <2>1. queue'[t][n + 1].kind = kind
    BY <1>1
  <2>2. (1 .. n + 1) = (1 .. n) \cup {n + 1}
    BY <1>1
  <2> QED
    BY <1>1, <1>3, <2>1, <2>2 DEF Cancelled
<1> QED
  BY <1>2, <1>3

\* A run goes on without taking a task from another.
LEMMA RunGoesOn ==
  ASSUME Inv, TypeOK', NEW e \in Runs, UNCHANGED <<task, at>>,
         \A u \in Tasks : Cancelled(u) => Cancelled(u)',
         \A u \in Tasks : active[u] # None => active'[u] = active[u],
         \A d \in Runs \ {e} : /\ pc'[d] = pc[d]
                               /\ disposed'[d] = disposed[d],
         \A a \in Actors \ {e} : cleanup'[a] = cleanup[a],
         cleanup'[e] \in {cleanup[e], Due},
         \A u \in Tasks : active'[u] \in {active[u], e},
         \A u \in Tasks : active'[u] = e => task[e] = u,
         RunOK(e)'
  PROVE  IInv'
<1>1. OwnTask'
  <2>1. ASSUME NEW t \in Tasks, active'[t] # None
        PROVE  task'[active'[t]] = t
    BY <2>1 DEF Inv, IInv, OwnTask
  <2>2. ASSUME NEW a \in Actors, cleanup'[a] \in Runs
        PROVE  task'[cleanup'[a]] = TaskOf(a)'
    <3>1. cleanup'[a] = cleanup[a]
      BY <2>2, DueAssumption
    <3> QED
      BY <2>2, <3>1 DEF Inv, IInv, OwnTask, TaskOf
  <2> QED
    BY <2>1, <2>2 DEF OwnTask
<1>2. ASSUME NEW d \in Runs PROVE RunOK(d)'
  <2>1. CASE d = e
    BY <2>1
  <2>2. CASE d # e
    <3>1. RunOK(d) /\ task[d] \in Tasks /\ d \in Actors
      BY DEF Inv, IInv, TypeOK, Actors
    <3>2. d # None
      BY NoneAssumption
    <3>3. /\ pc'[d] = pc[d] /\ disposed'[d] = disposed[d]
          /\ cleanup'[d] = cleanup[d] /\ task'[d] = task[d]
      BY <2>2, <3>1
    <3>4. Cancelled(task[d]) => Cancelled(task[d])'
      BY <3>1, <3>3 DEF Cancelled
    <3>5. active[task[d]] = d => active'[task[d]] = d
      BY <3>1, <3>2
    <3> QED
      BY <3>1, <3>3, <3>4, <3>5 DEF RunOK, Holds
  <2> QED
    BY <2>1, <2>2
<1>3. ASSUME NEW k \in Cancels PROVE CancelOK(k)'
  <2>1. k \in Actors /\ k # e
    BY ActorAssumption DEF Actors
  <2>2. CancelOK(k) /\ cleanup'[k] = cleanup[k]
    BY <2>1 DEF Inv, IInv
  <2>3. at[k] # None => at[k] \in Tasks
    BY DEF Inv, TypeOK
  <2> QED
    BY <2>2, <2>3 DEF CancelOK
<1> QED
  BY <1>1, <1>2, <1>3 DEF IInv

\* Events that do not cancel: the tasks that were cancelled stay so, and no
\* other is.
LEMMA ReportCancelsNothing ==
  ASSUME TypeOK, NEW e \in Runs, NEW kind \in Kinds \ {"canceled"},
         Enqueue(task[e], e, kind) \/ UNCHANGED queue
  PROVE  \A u \in Tasks : Cancelled(u)' <=> Cancelled(u)
<1>1. CASE Enqueue(task[e], e, kind)
  <2>1. task[e] \in Tasks
    BY DEF TypeOK
  <2> QED
    BY <1>1, <2>1, EnqueueCancels
<1>2. CASE UNCHANGED queue
  BY <1>2 DEF Cancelled
<1> QED
  BY <1>1, <1>2

\* Every step of a run or its caller keeps the invariant.
LEMMA RunInv ==
  ASSUME Inv, TypeOK', NEW e \in Runs,
         \/ Submit(e) \/ Unavailable(e) \/ Execute(e) \/ Add(e)
         \/ Work(e) \/ Listen(e) \/ Disconnect(e)
  PROVE  IInv'
<1>1. RunOK(e) /\ task[e] \in Tasks /\ e \in Actors
  BY DEF Inv, IInv, TypeOK, Actors
<1>2. TypeOK
  BY DEF Inv
<1>own. \A u \in Tasks : active[u] = e => task[e] = u
  BY NoneAssumption DEF Inv, IInv, OwnTask
<1>3. CASE Submit(e)
  <2>1. \A u \in Tasks : Cancelled(u)' <=> Cancelled(u)
    BY <1>2, <1>3, ReportCancelsNothing DEF Submit, Kinds
  <2>2. RunOK(e)'
    BY <1>1, <1>2, <1>3, <2>1 DEF Submit, Goto, TypeOK, RunOK, Holds,
       Cancelled
  <2> QED
    BY <1>1, <1>2, <1>own, <1>3, <2>1, <2>2, RunGoesOn
    DEF Submit, Goto, TypeOK
<1>4. CASE Unavailable(e) \/ Disconnect(e) \/ Listen(e)
  <2>1. UNCHANGED <<execution, task>>
    BY <1>4 DEF Unavailable, Disconnect, Listen, HandleEvent, HandleError,
       Hear
  <2> QED
    BY <2>1 DEF execution, Inv, IInv, OwnTask, TaskOf, RunOK, Holds, CancelOK,
       Cancelled
<1>5. CASE Register(e)
  <2>1. \A u \in Tasks : Cancelled(u)' <=> Cancelled(u)
    BY <1>5 DEF Register, Cancelled
  <2>2. RunOK(e)'
    BY <1>1, <1>2, <1>5, <2>1 DEF Register, Goto, TypeOK, RunOK, Holds,
       Cancelled
  <2>3. \A u \in Tasks : active'[u] \in {active[u], e}
        /\ (active[u] # None => active'[u] = active[u])
        /\ (active'[u] # active[u] => task[e] = u)
    BY <1>1, <1>2, <1>5 DEF Register, TypeOK
  <2>4. \A u \in Tasks : active'[u] = e => task[e] = u
    BY <2>3, NoneAssumption DEF Inv, IInv, OwnTask
  <2> QED
    BY <1>1, <1>2, <1>5, <2>1, <2>2, <2>3, <2>4, RunGoesOn
    DEF Register, Goto, TypeOK
<1>7. CASE Subscribe(e) \/ Throw(e)
  <2>1. \A u \in Tasks : Cancelled(u)' <=> Cancelled(u)
    BY <1>7 DEF Subscribe, Throw, Cancelled
  <2>2. RunOK(e)'
    BY <1>1, <1>2, <1>7, <2>1 DEF Subscribe, Throw, Goto, TypeOK, RunOK,
       Holds, Cancelled
  <2> QED
    BY <1>1, <1>2, <1>own, <1>7, <2>1, <2>2, RunGoesOn
    DEF Subscribe, Throw, Goto, TypeOK
<1>8. CASE Add(e)
  <2>1. \A u \in Tasks : Cancelled(u)' <=> Cancelled(u)
    BY <1>8 DEF Add, Cancelled
  <2>2. RunOK(e)'
    BY <1>1, <1>2, <1>8, <2>1 DEF Add, Goto, TypeOK, RunOK, Holds, Live,
       Cancelled
  <2> QED
    BY <1>1, <1>2, <1>own, <1>8, <2>1, <2>2, RunGoesOn
    DEF Add, Goto, TypeOK
<1>9. CASE StartWork(e) \/ Process(e)
  <2>1. \A u \in Tasks : Cancelled(u)' <=> Cancelled(u)
    BY <1>2, <1>9, ReportCancelsNothing DEF StartWork, Process, Kinds
  <2>2. Cancelled(task[e])' <=> Cancelled(task[e])
    BY <1>1, <1>9, <2>1 DEF StartWork, Process, Cancelled
  <2>3. RunOK(e)'
    BY <1>1, <1>2, <1>9, <2>2 DEF StartWork, Process, Goto, TypeOK, RunOK,
       Holds
  <2> QED
    BY <1>1, <1>2, <1>own, <1>9, <2>1, <2>3, RunGoesOn
    DEF StartWork, Process, Goto, TypeOK
<1>10. CASE End(e)
  <2> PICK kind \in Outcomes(e) :
        Enqueue(task[e], e, kind) \/ UNCHANGED queue
    BY <1>10 DEF End
  <2>1. \A u \in Tasks : Cancelled(u)' <=> Cancelled(u)
    BY <1>2, ReportCancelsNothing, OutcomeKinds DEF Kinds
  <2>2. pc' = [pc EXCEPT ![e] = "ended"]
        /\ cleanup' = [cleanup EXCEPT ![e] = Due]
        /\ UNCHANGED <<active, task, added, disposed, at, skip, caller, from>>
    BY <1>10 DEF End, Goto
  <2>3. Cancelled(task[e])' <=> Cancelled(task[e])
    BY <1>1, <2>1, <2>2 DEF Cancelled
  <2>4. pc[e] \in {"starting", "working", "skipping"}
    BY DEF Outcomes
  <2>5. RunOK(e)'
    BY <1>1, <1>2, <2>2, <2>3, <2>4 DEF TypeOK, RunOK, Holds
  <2> QED
    BY <1>1, <1>2, <1>own, <2>1, <2>2, <2>5, RunGoesOn DEF TypeOK
<1> QED
  BY <1>3, <1>4, <1>5, <1>7, <1>8, <1>9, <1>10 DEF Execute, Work

\* A cancellation, from outside or of a skipped run, only concerns its task.
LEMMA CancelInv ==
  ASSUME Inv, TypeOK', NEW k \in Cancels, NEW t \in Tasks, CancelTask(k, t),
         UNCHANGED <<active, task, disposed>>,
         \A d \in Runs : task[d] # t => pc'[d] = pc[d]
  PROVE  IInv'
<1>1. TypeOK /\ Enqueue(t, None, "canceled")
      /\ at' = [at EXCEPT ![k] = t] /\ cleanup' = [cleanup EXCEPT ![k] = Due]
  BY DEF Inv, CancelTask
<1>2. \A u \in Tasks : Cancelled(u)' <=> Cancelled(u) \/ u = t
  BY <1>1, EnqueueCancels DEF Kinds
<1>3. k \in Actors /\ \A d \in Runs : d \in Actors /\ d # k
  BY ActorAssumption DEF Actors
<1>4. OwnTask'
  <2>1. ASSUME NEW a \in Actors, cleanup'[a] \in Runs
        PROVE  task'[cleanup'[a]] = TaskOf(a)'
    <3>1. a # k
      BY <1>1, <1>3, <2>1, DueAssumption DEF TypeOK
    <3>2. cleanup'[a] = cleanup[a] /\ (a \notin Runs => at'[a] = at[a])
      BY <1>1, <3>1 DEF TypeOK, Actors
    <3> QED
      BY <2>1, <3>2 DEF Inv, IInv, OwnTask, TaskOf
  <2> QED
    BY <2>1 DEF Inv, IInv, OwnTask
<1>5. ASSUME NEW d \in Runs PROVE RunOK(d)'
  <2>1. CASE task[d] = t
    <3>1. Cancelled(task[d])'
      BY <1>2, <2>1 DEF Cancelled
    <3> QED
      BY <3>1 DEF RunOK
  <2>2. CASE task[d] # t
    <3>1. RunOK(d) /\ task[d] \in Tasks
      BY <1>1 DEF Inv, IInv, TypeOK
    <3>2. Cancelled(task[d])' <=> Cancelled(task[d])
      BY <1>2, <2>2, <3>1 DEF Cancelled
    <3>3. cleanup'[d] = cleanup[d] /\ pc'[d] = pc[d]
      BY <1>1, <1>3, <2>2 DEF TypeOK
    <3> QED
      BY <3>1, <3>2, <3>3 DEF RunOK, Holds
  <2> QED
    BY <2>1, <2>2
<1>6. ASSUME NEW c \in Cancels PROVE CancelOK(c)'
  <2>1. CASE c = k
    <3>1. at'[c] = t /\ t # None
      BY <1>1, <2>1, NoneAssumption DEF TypeOK
    <3>2. Cancelled(at[c])'
      BY <1>2, <3>1 DEF Cancelled
    <3> QED
      BY <3>1, <3>2 DEF CancelOK
  <2>2. CASE c # k
    <3>1. at'[c] = at[c] /\ cleanup'[c] = cleanup[c]
      BY <1>1, <2>2 DEF TypeOK, Actors
    <3>2. at[c] # None => at[c] \in Tasks
      BY <1>1 DEF TypeOK
    <3>3. CancelOK(c)
      BY DEF Inv, IInv
    <3>4. at[c] # None /\ Cancelled(at[c]) => Cancelled(at[c])'
      BY <1>2, <3>1, <3>2 DEF Cancelled
    <3> QED
      BY <3>1, <3>3, <3>4 DEF CancelOK
  <2> QED
    BY <2>1, <2>2
<1> QED
  BY <1>4, <1>5, <1>6 DEF IInv

\* doFinally and cancel remove what is theirs, or what was cancelled.
LEMMA RemoveInv ==
  ASSUME Inv, TypeOK', NEW a \in Actors, Remove(a)
  PROVE  IInv'
<1>1. TypeOK /\ cleanup[a] = Due
      /\ active' = [active EXCEPT ![TaskOf(a)] = None]
      /\ cleanup' = [cleanup EXCEPT ![a] = active[TaskOf(a)]]
      /\ UNCHANGED <<queue, task, pc, added, disposed, at, skip>>
  BY DEF Inv, Remove
<1>2. TaskOf(a) \in Tasks
  BY <1>1, DueAssumption DEF TypeOK, TaskOf, Inv, IInv, CancelOK, Actors
<1>3. \A u \in Tasks : Cancelled(u)' <=> Cancelled(u)
  BY <1>1 DEF Cancelled
<1>4. OwnTask'
  <2>1. ASSUME NEW t \in Tasks, active'[t] # None
        PROVE  task'[active'[t]] = t
    BY <1>1, <1>2, <2>1 DEF Inv, IInv, OwnTask, TypeOK
  <2>2. ASSUME NEW b \in Actors, cleanup'[b] \in Runs
        PROVE  task'[cleanup'[b]] = TaskOf(b)'
    <3>1. TaskOf(b)' = TaskOf(b)
      BY <1>1 DEF TaskOf
    <3>2. CASE b = a
      BY <1>1, <1>2, <2>2, <3>1, <3>2, NoneAssumption
      DEF Inv, IInv, OwnTask, TypeOK
    <3>3. CASE b # a
      BY <1>1, <2>2, <3>1, <3>3 DEF Inv, IInv, OwnTask, TypeOK
    <3> QED
      BY <3>2, <3>3
  <2> QED
    BY <2>1, <2>2 DEF OwnTask
<1>5. ASSUME NEW d \in Runs PROVE RunOK(d)'
  <2>0. RunOK(d) /\ task[d] \in Tasks /\ d \in Actors
    BY <1>1 DEF Inv, IInv, TypeOK, Actors
  <2>1. Cancelled(task[d])' <=> Cancelled(task[d])
    BY <1>1, <1>3 DEF Cancelled
  <2>2. CASE task[d] # TaskOf(a)
    <3>1. a # d
      BY <2>2 DEF TaskOf
    <3>2. active'[task[d]] = active[task[d]] /\ cleanup'[d] = cleanup[d]
      BY <1>1, <2>0, <2>2, <3>1 DEF TypeOK
    <3> QED
      BY <1>1, <2>0, <2>1, <3>2 DEF RunOK, Holds
  <2>3. CASE task[d] = TaskOf(a) /\ ~Cancelled(task[d])
    <3>1. a \in Runs /\ RunOK(a) /\ task[a] = task[d]
      BY <1>1, <2>3, DueAssumption
      DEF Inv, IInv, CancelOK, TaskOf, Actors
    <3>2. pc[a] = "ended" /\ active[task[d]] = a
      BY <1>1, <2>3, <3>1, DueAssumption DEF RunOK, Holds
    <3>3. cleanup'[a] = a
      BY <1>1, <2>3, <3>2 DEF TypeOK
    <3>4. CASE d = a
      BY <1>1, <2>0, <3>2, <3>3, <3>4, DueAssumption DEF RunOK, Holds
    <3>5. CASE d # a
      <4>1. ~Holds(d)
        BY <2>0, <2>3, <3>2, <3>5 DEF RunOK
      <4>2. cleanup'[d] = cleanup[d]
        BY <1>1, <2>0, <3>5 DEF TypeOK
      <4> QED
        BY <1>1, <2>0, <2>1, <4>1, <4>2 DEF RunOK, Holds
    <3> QED
      BY <3>4, <3>5
  <2>4. CASE Cancelled(task[d])
    BY <2>1, <2>4 DEF RunOK
  <2> QED
    BY <2>2, <2>3, <2>4
<1>6. ASSUME NEW k \in Cancels PROVE CancelOK(k)'
  <2>1. CancelOK(k) /\ k \in Actors
    BY DEF Inv, IInv, Actors
  <2>2. cleanup[k] = None => cleanup'[k] = None
    BY <1>1, <2>1, DueAssumption DEF TypeOK
  <2>3. Cancelled(at[k])' <=> Cancelled(at[k])
    BY <1>1 DEF Cancelled
  <2> QED
    BY <1>1, <2>1, <2>2, <2>3 DEF CancelOK
<1> QED
  BY <1>4, <1>5, <1>6 DEF IInv

\* What they dispose of is over, or was cancelled.
LEMMA DisposeInv ==
  ASSUME Inv, TypeOK', NEW a \in Actors, Dispose(a)
  PROVE  IInv'
<1> PICK d \in Runs :
      /\ cleanup[a] = d
      /\ disposed' = [disposed EXCEPT ![d] = TRUE]
      /\ IF added[d] /\ Live(d)
         THEN /\ Goto(d, "disposed")
              /\ cleanup' = [cleanup EXCEPT ![a] = None, ![d] = Due]
         ELSE cleanup' = [cleanup EXCEPT ![a] = None] /\ UNCHANGED pc
      /\ UNCHANGED <<active, queue, task, added, at, skip, caller, from>>
  BY DEF Dispose
<1>1. TypeOK /\ d \in Actors
  BY DEF Inv, Actors
<1>2. ~Cancelled(task[d]) => a = d /\ pc[d] = "ended"
  <2>1. task[d] = TaskOf(a) /\ cleanup[a] # None /\ d # Due
    BY DueAssumption, NoneAssumption DEF Inv, IInv, OwnTask
  <2>2. CASE a \in Runs
    BY <2>1, <2>2 DEF Inv, IInv, RunOK, TaskOf
  <2>3. CASE a \notin Runs
    BY <2>1, <2>3 DEF Inv, IInv, CancelOK, TaskOf, Actors
  <2> QED
    BY <2>2, <2>3
<1>3. \A b \in Actors :
        /\ cleanup'[b] \in {cleanup[b], None, Due}
        /\ b # a /\ b # d => cleanup'[b] = cleanup[b]
        /\ b # d => cleanup'[b] \in {cleanup[b], None}
  BY <1>1 DEF TypeOK
<1>4. OwnTask'
  BY <1>3, DueAssumption, NoneAssumption DEF Inv, IInv, OwnTask, TaskOf
<1>5. ASSUME NEW c \in Runs PROVE RunOK(c)'
  <2>1. RunOK(c) /\ c \in Actors
    BY DEF Inv, IInv, Actors
  <2>2. Cancelled(task[c])' <=> Cancelled(task[c])
    BY DEF Cancelled
  <2>3. CASE Cancelled(task[c])
    BY <2>2, <2>3 DEF RunOK
  <2>4. CASE ~Cancelled(task[c]) /\ c # d
    <3>1. c # a
      BY <2>4, <1>2, DueAssumption, NoneAssumption
      DEF Inv, IInv, RunOK
    <3>2. pc'[c] = pc[c] /\ disposed'[c] = disposed[c]
          /\ cleanup'[c] = cleanup[c]
      BY <1>1, <1>3, <2>1, <2>4, <3>1 DEF TypeOK, Goto
    <3> QED
      BY <2>1, <2>2, <3>2 DEF RunOK, Holds
  <2>5. CASE ~Cancelled(task[c]) /\ c = d
    <3>1. a = c /\ pc[c] = "ended"
      BY <1>2, <2>5
    <3>2. UNCHANGED pc /\ cleanup'[c] = None
      BY <1>1, <2>5, <3>1 DEF Live, TypeOK
    <3> QED
      BY <2>5, <3>1, <3>2, DueAssumption DEF RunOK, Holds
  <2> QED
    BY <2>3, <2>4, <2>5
<1>6. ASSUME NEW k \in Cancels PROVE CancelOK(k)'
  <2>1. CancelOK(k) /\ k \in Actors /\ k # d
    BY ActorAssumption DEF Inv, IInv, Actors
  <2>2. cleanup[k] = None => cleanup'[k] = None
    BY <1>3, <2>1
  <2>3. Cancelled(at[k])' <=> Cancelled(at[k])
    BY DEF Cancelled
  <2> QED
    BY <2>1, <2>2, <2>3 DEF CancelOK
<1> QED
  BY <1>4, <1>5, <1>6 DEF IInv

\* The invariant holds.
THEOREM Invariance == Spec => []Inv
<1>1. Init => Inv
  <2> SUFFICES ASSUME Init PROVE Inv
    OBVIOUS
  <2>1. TypeOK
    BY DEF Init, TypeOK, Event
  <2>2. IInv
    BY NoneAssumption, DueAssumption
    DEF Init, IInv, OwnTask, RunOK, Holds, CancelOK, Actors
  <2> QED
    BY <2>1, <2>2 DEF Inv
<1>2. Inv /\ TypeOK' /\ [Next]_vars => Inv'
  <2> SUFFICES ASSUME Inv, TypeOK', [Next]_vars PROVE IInv'
    BY DEF Inv
  <2>1. CASE \E e \in Runs :
               \/ Submit(e) \/ Unavailable(e) \/ Execute(e) \/ Add(e)
               \/ Work(e) \/ Listen(e) \/ Disconnect(e)
    BY <2>1, RunInv
  <2>2. ASSUME NEW e \in Runs, Skip(e) PROVE IInv'
    <3>1. task[e] \in Tasks
      BY DEF Inv, TypeOK
    <3>2. PICK k \in Cancels : CancelTask(k, task[e])
      BY <2>2 DEF Skip
    <3>3. UNCHANGED <<active, task, disposed>>
          /\ \A d \in Runs : task[d] # task[e] => pc'[d] = pc[d]
      BY <2>2 DEF Skip, Goto, Inv, TypeOK
    <3> QED
      BY <3>1, <3>2, <3>3, CancelInv
  <2>3. CASE \E k \in Cancels, t \in Tasks : Cancel(k, t)
    BY <2>3, CancelInv DEF Cancel
  <2>4. CASE \E a \in Actors : CleanupTask(a)
    BY <2>4, RemoveInv, DisposeInv DEF CleanupTask
  <2>5. CASE UNCHANGED vars
    BY <2>5 DEF vars, Inv, IInv, OwnTask, TaskOf, RunOK, Holds, CancelOK,
       Cancelled
  <2> QED
    BY <2>1, <2>2, <2>3, <2>4, <2>5 DEF Next
<1> QED
  BY <1>1, <1>2, TypeCorrect, PTL DEF Spec

\* On a task nobody cancels there is one run at a time, the registered one:
\* however requests, ends of runs and their cleanups interleave.
THEOREM UncancelledAlone == Spec => []UncancelledRunsAlone
<1>1. Inv => UncancelledRunsAlone
  <2> SUFFICES ASSUME Inv, NEW e \in Runs, Busy(e), ~Cancelled(task[e])
               PROVE  /\ active[task[e]] = e
                      /\ \A d \in Runs : Busy(d) /\ task[d] = task[e] => d = e
    BY DEF UncancelledRunsAlone
  <2>1. \A d \in Runs : Busy(d) /\ task[d] = task[e] => active[task[e]] = d
    BY DEF Inv, IInv, RunOK, Holds, Busy, Live
  <2> QED
    BY <2>1
<1> QED
  BY <1>1, Invariance, PTL

-----------------------------------------------------------------------------
(* The reports of the runs of a task do not mix. *)

Before == {"new", "submitted", "registered", "starting"}

\* Nothing is reported, and no run begins to work.
LEMMA QuietReports ==
  ASSUME RInv, UNCHANGED <<queue, task>>,
         \A d \in Runs : \/ pc'[d] = pc[d]
                         \/ pc'[d] \notin Before \cup {"working"}
                         \/ pc[d] \in Before /\ pc'[d] # "working"
  PROVE  RInv'
<1>1. ASSUME NEW d \in Runs PROVE ReportOK(d)'
  <2>1. ReportOK(d)
    BY DEF RInv
  <2> QED
    BY <2>1 DEF ReportOK, Before, Cancelled
<1>2. TurnsDoNotMix'
  BY DEF RInv, TurnsDoNotMix, Cancelled
<1> QED
  BY <1>1, <1>2 DEF RInv

\* A run reports: it is the only one at work on its task, and has been since
\* its first report.
LEMMA OwnReports ==
  ASSUME Inv, RInv, NEW e \in Runs, NEW kind \in Kinds,
         kind \notin {"canceled", "submitted"}, Enqueue(task[e], e, kind),
         UNCHANGED task, pc[e] \in {"starting", "working", "skipping"},
         pc'[e] \in {"working", "ended"},
         \A d \in Runs \ {e} : pc'[d] = pc[d]
  PROVE  RInv'
<1>1. TypeOK /\ task[e] \in Tasks
  BY DEF Inv, TypeOK
<1> PICK t \in Tasks : t = task[e]
  BY <1>1
<1> DEFINE n == Len(queue[t])
<1>2. /\ n \in Nat /\ DOMAIN queue[t] = 1 .. n
      /\ DOMAIN queue'[t] = 1 .. n + 1
      /\ \A i \in 1 .. n : queue'[t][i] = queue[t][i]
      /\ queue'[t][n + 1] = [run |-> e, kind |-> kind]
      /\ \A u \in Tasks : u # t => queue'[u] = queue[u]
  BY <1>1, EnqueueLemma
<1>3. \A u \in Tasks : Cancelled(u)' <=> Cancelled(u)
  BY <1>1, EnqueueCancels
<1>4. \A d \in Runs : \A i \in 1 .. n :
        Own(queue'[t], i, d) <=> Own(queue[t], i, d)
  BY <1>2 DEF Own
<1>5. \A d \in Runs : Own(queue'[t], n + 1, d) <=> d = e
  BY <1>2 DEF Own
<1>6. ASSUME ~Cancelled(t), NEW i \in 1 .. n, NEW m \in 1 .. n, i <= m,
             Own(queue[t], i, e)
      PROVE  Own(queue[t], m, e) /\ pc[e] = "working"
  <2>1. ReportOK(e) /\ RunOK(e)
    BY DEF Inv, IInv, RInv
  <2> QED
    BY <1>2, <1>6, <2>1 DEF ReportOK, RunOK
<1> HIDE DEF n
<1>7. TurnsDoNotMix'
  <2> SUFFICES ASSUME NEW u \in Tasks, NEW d \in Runs, ~Cancelled(u)',
                      NEW i \in DOMAIN queue'[u], NEW j \in DOMAIN queue'[u],
                      NEW m \in DOMAIN queue'[u], i < m, m < j,
                      Own(queue'[u], i, d), Own(queue'[u], j, d)
               PROVE  Own(queue'[u], m, d)
    BY DEF TurnsDoNotMix
  <2>1. ~Cancelled(u)
    BY <1>3
  <2>2. CASE u # t
    BY <1>2, <2>1, <2>2 DEF RInv, TurnsDoNotMix
  <2>3. CASE u = t /\ j # n + 1
    <3>1. i \in 1 .. n /\ j \in 1 .. n /\ m \in 1 .. n
      BY <1>2, <2>3
    <3> QED
      BY <1>2, <1>4, <2>1, <2>3, <3>1 DEF RInv, TurnsDoNotMix
  <2>4. CASE u = t /\ j = n + 1
    <3>1. i \in 1 .. n /\ m \in 1 .. n /\ i <= m
      BY <1>2, <2>4
    <3>2. d = e
      BY <1>5, <2>4
    <3> QED
      BY <1>4, <1>6, <2>1, <2>4, <3>1, <3>2
  <2> QED
    BY <2>2, <2>3, <2>4
<1>8. ASSUME NEW d \in Runs PROVE ReportOK(d)'
  <2>1. ReportOK(d) /\ task[d] \in Tasks
    BY <1>1 DEF RInv, TypeOK
  <2>2. Cancelled(task[d])' <=> Cancelled(task[d])
    BY <1>3, <2>1 DEF Cancelled
  <2>3. CASE task[d] # t
    <3>1. queue'[task[d]] = queue[task[d]] /\ pc'[d] = pc[d]
      BY <1>2, <2>1, <2>3
    <3> QED
      BY <2>1, <2>2, <3>1 DEF ReportOK
  <2>4. CASE task[d] = t /\ d # e
    <3>1. ~(pc[d] = "working" /\ ~Cancelled(t))
      BY <2>4 DEF Inv, IInv, RunOK, Holds
    <3>2. pc[d] \in Before => \A i \in 1 .. n + 1 : ~Own(queue'[t], i, d)
      <4>1. pc[d] \in Before => \A i \in 1 .. n : ~Own(queue[t], i, d)
        BY <1>2, <2>1, <2>4 DEF ReportOK, Before
      <4> QED
        BY <1>2, <1>4, <1>5, <2>4, <4>1
    <3> QED
      BY <1>2, <2>2, <2>4, <3>1, <3>2 DEF ReportOK, Before
  <2>5. CASE d = e
    <3>1. ASSUME ~Cancelled(t), NEW i \in 1 .. n + 1, NEW m \in 1 .. n + 1,
                 i <= m, Own(queue'[t], i, e)
          PROVE  Own(queue'[t], m, e)
      <4>1. CASE m = n + 1
        BY <1>5, <4>1
      <4>2. CASE m # n + 1
        <5>1. i \in 1 .. n /\ m \in 1 .. n
          BY <1>2, <3>1, <4>2
        <5> QED
          BY <1>4, <1>6, <3>1, <5>1
      <4> QED
        BY <4>1, <4>2
    <3> QED
      BY <1>2, <2>2, <2>5, <3>1 DEF ReportOK
  <2> QED
    BY <2>3, <2>4, <2>5
<1> QED
  BY <1>7, <1>8 DEF RInv

\* The first event of a task is nobody's report.
LEMMA SubmitReports ==
  ASSUME Inv, RInv, NEW e \in Runs, Submit(e)
  PROVE  RInv'
<1>1. TypeOK /\ task[e] \in Tasks
  BY DEF Inv, TypeOK
<1> PICK t \in Tasks : t = task[e]
  BY <1>1
<1>2. UNCHANGED task /\ pc[e] = "new" /\ pc' = [pc EXCEPT ![e] = "submitted"]
  BY DEF Submit, Goto
<1>3. CASE UNCHANGED queue
  BY <1>1, <1>2, <1>3, QuietReports DEF Before, TypeOK
<1>4. CASE queue[t] = <<>> /\ Enqueue(t, e, "submitted")
  <2>1. /\ DOMAIN queue'[t] = {1} /\ queue'[t][1].kind = "submitted"
        /\ \A u \in Tasks : u # t => queue'[u] = queue[u]
    <3>1. Len(queue[t]) = 0
      BY <1>4
    <3>2. e \in Runs \cup {None} /\ "submitted" \in Kinds
      BY DEF Kinds
    <3>3. /\ DOMAIN queue'[t] = 1 .. Len(queue[t]) + 1
          /\ queue'[t][Len(queue[t]) + 1] = [run |-> e, kind |-> "submitted"]
          /\ \A u \in Tasks : u # t => queue'[u] = queue[u]
      BY <1>1, <1>4, <3>2, EnqueueLemma
    <3>4. 1 .. 0 + 1 = {1} /\ 0 + 1 = 1
      OBVIOUS
    <3> QED
      BY <3>1, <3>3, <3>4
  <2>2. \A d \in Runs : \A i \in DOMAIN queue'[t] : ~Own(queue'[t], i, d)
    BY <2>1 DEF Own
  <2>3. \A u \in Tasks : Cancelled(u)' <=> Cancelled(u)
    BY <1>1, <1>4, EnqueueCancels DEF Kinds
  <2>4. TurnsDoNotMix'
    <3>1. ASSUME NEW u \in Tasks, NEW d \in Runs, ~Cancelled(u)', u # t
          PROVE  \A i, j, m \in DOMAIN queue'[u] :
                   (i < m /\ m < j /\ Own(queue'[u], i, d)
                      /\ Own(queue'[u], j, d)) => Own(queue'[u], m, d)
      BY <2>1, <2>3, <3>1 DEF RInv, TurnsDoNotMix
    <3> QED
      BY <2>2, <3>1 DEF TurnsDoNotMix
  <2>5. ASSUME NEW d \in Runs PROVE ReportOK(d)'
    <3>1. ReportOK(d) /\ task[d] \in Tasks
      BY <1>1 DEF RInv, TypeOK
    <3>2. CASE task[d] = t
      BY <1>2, <2>2, <3>2 DEF ReportOK
    <3>3. CASE task[d] # t
      <4>1. queue'[task[d]] = queue[task[d]] /\ pc'[d] = pc[d]
        BY <1>1, <1>2, <2>1, <3>1, <3>3 DEF TypeOK
      <4>2. Cancelled(task[d])' <=> Cancelled(task[d])
        BY <1>2, <2>3, <3>1 DEF Cancelled
      <4> QED
        BY <1>2, <3>1, <4>1, <4>2 DEF ReportOK
    <3> QED
      BY <3>2, <3>3
  <2> QED
    BY <2>4, <2>5 DEF RInv
<1> QED
  BY <1>3, <1>4 DEF Submit

\* A cancellation is nobody's report either.
LEMMA CancelReports ==
  ASSUME Inv, RInv, NEW k \in Cancels, NEW t \in Tasks, CancelTask(k, t),
         UNCHANGED task,
         \A d \in Runs : pc'[d] = pc[d] \/ pc'[d] = "skipping"
  PROVE  RInv'
<1> DEFINE n == Len(queue[t])
<1>1. TypeOK /\ Enqueue(t, None, "canceled")
  BY DEF Inv, CancelTask
<1>2. /\ n \in Nat /\ DOMAIN queue[t] = 1 .. n
      /\ DOMAIN queue'[t] = 1 .. n + 1
      /\ \A i \in 1 .. n : queue'[t][i] = queue[t][i]
      /\ queue'[t][n + 1] = [run |-> None, kind |-> "canceled"]
      /\ \A u \in Tasks : u # t => queue'[u] = queue[u]
  BY <1>1, EnqueueLemma DEF Kinds
<1>3. \A u \in Tasks : Cancelled(u)' <=> Cancelled(u) \/ u = t
  BY <1>1, EnqueueCancels DEF Kinds
<1> HIDE DEF n
<1>4. TurnsDoNotMix'
  BY <1>2, <1>3 DEF RInv, TurnsDoNotMix
<1>5. ASSUME NEW d \in Runs PROVE ReportOK(d)'
  <2>1. ReportOK(d) /\ task[d] \in Tasks
    BY <1>1 DEF RInv, TypeOK
  <2>2. CASE task[d] # t
    <3>1. Cancelled(task[d])' <=> Cancelled(task[d])
      BY <1>3, <2>1, <2>2 DEF Cancelled
    <3> QED
      BY <1>2, <2>1, <2>2, <3>1 DEF ReportOK
  <2>3. CASE task[d] = t
    <3>1. Cancelled(task[d])'
      BY <1>3, <2>3 DEF Cancelled
    <3>2. pc'[d] \in Before => \A i \in 1 .. n + 1 : ~Own(queue'[t], i, d)
      <4>1. pc'[d] \in Before => \A i \in 1 .. n : ~Own(queue[t], i, d)
        BY <1>2, <2>1, <2>3 DEF ReportOK, Before
      <4> QED
        BY <1>2, <4>1, NoneAssumption DEF Own
    <3> QED
      BY <1>2, <2>3, <3>1, <3>2 DEF ReportOK, Before
  <2> QED
    BY <2>2, <2>3
<1> QED
  BY <1>4, <1>5 DEF RInv

\* Between two reports of a run on a task that nobody cancels there is none
\* of another run.
THEOREM ReportsDoNotMix == Spec => []TurnsDoNotMix
<1>1. Init => RInv
  BY DEF Init, RInv, ReportOK, TurnsDoNotMix
<1>2. Inv /\ Inv' /\ RInv /\ [Next]_vars => RInv'
  <2> SUFFICES ASSUME Inv, Inv', RInv, [Next]_vars PROVE RInv'
    OBVIOUS
  <2>1. ASSUME NEW e \in Runs, Submit(e) PROVE RInv'
    BY <2>1, SubmitReports
  <2>2. ASSUME NEW e \in Runs,
               \/ Unavailable(e) \/ Execute(e) \/ Add(e)
               \/ Listen(e) \/ Disconnect(e)
        PROVE  RInv'
    <3>1. UNCHANGED <<queue, task>>
      BY <2>2 DEF Unavailable, Execute, Register, Subscribe, Throw, Add,
         Listen, HandleEvent, HandleError, Disconnect, Hear, execution
    <3>2. CASE Execute(e) \/ Add(e)
      BY <2>2, <3>1, <3>2, QuietReports DEF Execute, Register, Subscribe,
         Throw, Add, Goto, Before, Inv, TypeOK
    <3>3. CASE ~(Execute(e) \/ Add(e))
      BY <2>2, <3>1, <3>3, QuietReports DEF Unavailable, Listen, HandleEvent,
         HandleError, Disconnect, Hear, execution
    <3> QED
      BY <3>2, <3>3
  <2>3. ASSUME NEW e \in Runs, Work(e) PROVE RInv'
    <3>1. CASE StartWork(e) \/ Process(e)
      BY <3>1, OwnReports DEF StartWork, Process, Goto, Kinds, Inv, TypeOK
    <3>2. CASE End(e)
      <4> PICK kind \in Outcomes(e) :
            Enqueue(task[e], e, kind) \/ UNCHANGED queue
        BY <3>2 DEF End
      <4>1. pc[e] \in {"starting", "working", "skipping"}
            /\ pc' = [pc EXCEPT ![e] = "ended"] /\ UNCHANGED task
        BY <3>2 DEF End, Goto, Outcomes
      <4>2. CASE Enqueue(task[e], e, kind)
        <5>1. kind \in Kinds /\ kind \notin {"canceled", "submitted"}
          BY OutcomeKinds DEF Kinds
        <5>2. pc'[e] = "ended" /\ \A d \in Runs \ {e} : pc'[d] = pc[d]
          BY <4>1 DEF Inv, TypeOK
        <5> QED
          BY <4>1, <4>2, <5>1, <5>2, OwnReports
      <4>3. CASE UNCHANGED queue
        BY <4>1, <4>3, QuietReports DEF Before, Inv, TypeOK
      <4> QED
        BY <4>2, <4>3
    <3> QED
      BY <2>3, <3>1, <3>2 DEF Work
  <2>4. ASSUME NEW e \in Runs, Skip(e) PROVE RInv'
    <3>1. task[e] \in Tasks
      BY DEF Inv, TypeOK
    <3>2. PICK k \in Cancels : CancelTask(k, task[e])
      BY <2>4 DEF Skip
    <3>3. UNCHANGED task
          /\ \A d \in Runs : pc'[d] = pc[d] \/ pc'[d] = "skipping"
      BY <2>4 DEF Skip, Goto, Inv, TypeOK
    <3> QED
      BY <3>1, <3>2, <3>3, CancelReports
  <2>5. CASE \E k \in Cancels, t \in Tasks : Cancel(k, t)
    BY <2>5, CancelReports DEF Cancel
  <2>6. ASSUME NEW a \in Actors, CleanupTask(a) PROVE RInv'
    BY <2>6, QuietReports DEF CleanupTask, Remove, Dispose, Goto, Before,
       Inv, TypeOK
  <2>7. CASE UNCHANGED vars
    BY <2>7, QuietReports DEF vars
  <2> QED
    BY <2>1, <2>2, <2>3, <2>4, <2>5, <2>6, <2>7 DEF Next
<1>3. RInv => TurnsDoNotMix
  BY DEF RInv
<1> QED
  BY <1>1, <1>2, <1>3, Invariance, PTL DEF Spec
=============================================================================
