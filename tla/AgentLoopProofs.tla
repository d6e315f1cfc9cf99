-------------------------- MODULE AgentLoopProofs --------------------------
(* The loop of an agent, for every limit, every number of transfers and    *)
(* every order of the loop's steps and the Runner's.                       *)
EXTENDS AgentLoop, SequenceTheorems, TLAPS

\* What happens to the stack of loops: one is pushed, one popped, or the
\* innermost one goes on to its next step.
LEMMA PushedLoop ==
  ASSUME NEW s \in Seq(Loop), NEW l \in Loop
  PROVE  Append(s, l) \in Seq(Loop) /\ Len(Append(s, l)) > 0
  OBVIOUS

LEMMA PoppedLoop ==
  ASSUME NEW s \in Seq(Loop), Len(s) > 0
  PROVE  /\ SubSeq(s, 1, Len(s) - 1) \in Seq(Loop)
         /\ Len(SubSeq(s, 1, Len(s) - 1)) = Len(s) - 1
<1> DEFINE last == Len(s) - 1
<1>1. last \in Int /\ 1 \in Int /\ last >= 0
  BY LenProperties
<1>2. \A i \in 1 .. last : s[i] \in Loop
  BY LenProperties, ElementOfSeq
<1> HIDE DEF last
<1>3. last - 1 + 1 = last /\ (1 <= last \/ last = 0)
  BY <1>1
<1>4. /\ SubSeq(s, 1, last) \in Seq(Loop)
      /\ Len(SubSeq(s, 1, last)) = IF 1 <= last THEN last - 1 + 1 ELSE 0
  BY <1>1, <1>2, SubSeqProperties
<1> QED
  BY <1>1, <1>3, <1>4 DEF last

LEMMA SteppedLoop ==
  ASSUME NEW s \in Seq(Loop), Len(s) > 0, NEW n \in Nat
  PROVE  LET t == [s EXCEPT ![Len(s)] =
                     [first |-> n + 1, steps |-> @.steps + 1]]
         IN  t \in Seq(Loop) /\ Len(t) = Len(s)
<1> DEFINE next == [first |-> n + 1, steps |-> s[Len(s)].steps + 1]
<1>1. Len(s) \in 1 .. Len(s)
  BY LenProperties
<1>2. next \in Loop
  <2>1. s[Len(s)] \in Loop
    BY <1>1, ElementOfSeq
  <2> QED
    BY <2>1 DEF Loop
<1> HIDE DEF next
<1>3. [s EXCEPT ![Len(s)] = next] \in Seq(Loop)
      /\ Len([s EXCEPT ![Len(s)] = next]) = Len(s)
  BY <1>1, <1>2, ExceptSeq
<1> QED
  BY <1>3 DEF next

-----------------------------------------------------------------------------
LEMMA TypeInit == Init => RunTypeOK
  BY LimitAssumption DEF Init, RunTypeOK, Loop, RunOver

LEMMA TypeStep == RunTypeOK /\ [Next]_run => RunTypeOK'
<1> SUFFICES ASSUME RunTypeOK, [Next]_run PROVE RunTypeOK'
  OBVIOUS
<1> USE LimitAssumption
<1>1. CASE Ask
  BY <1>1 DEF RunTypeOK, Ask, persister, RunOver
<1>2. ASSUME NEW kind \in Kinds, Emit(kind) PROVE RunTypeOK'
  BY <1>2 DEF RunTypeOK, Emit, StepMayEmit, persister, RunOver
<1>3. ASSUME NEW found \in BOOLEAN, Transfer(found) PROVE RunTypeOK'
  <2>1. Append(emitted, "transfer") \in Seq(Kinds)
    BY DEF RunTypeOK, Kinds
  <2>2. [first |-> Len(emitted) + 2, steps |-> 0] \in Loop
    BY DEF RunTypeOK, Loop
  <2>3. loops' \in Seq(Loop) /\ (found => Len(loops') > 0)
    BY <1>3, <2>2, PushedLoop DEF RunTypeOK, Transfer
  <2> QED
    BY <1>3, <2>1, <2>3
    DEF RunTypeOK, Transfer, StepMayEmit, persister, RunOver
<1>4. CASE Break
  BY <1>4 DEF RunTypeOK, Break, persister, RunOver
<1>5. CASE EndTurn
  <2>1. loops' \in Seq(Loop) /\ (Len(loops) # 1 => Len(loops') > 0)
    BY <1>5, PoppedLoop DEF RunTypeOK, EndTurn
  <2> QED
    BY <1>5, <2>1 DEF RunTypeOK, EndTurn, persister, RunOver
<1>6. CASE EndStep
  BY <1>6 DEF RunTypeOK, EndStep, persister, RunOver
<1>7. CASE NextStep
  <2>1. loops' \in Seq(Loop) /\ Len(loops') > 0
    BY <1>7, SteppedLoop DEF RunTypeOK, NextStep
  <2> QED
    BY <1>7, <2>1 DEF RunTypeOK, NextStep, persister, RunOver
<1>8. CASE Take
  <2>1. taken' = taken + 1 /\ taken + 1 \in 1 .. Len(emitted)
    BY <1>8 DEF RunTypeOK, Take
  <2>2. marked' \subseteq 1 .. Len(emitted)
        /\ runner' \in {"idle", "appending", "stored", "failed"}
    BY <1>8, <2>1 DEF RunTypeOK, Take
  <2> QED
    BY <1>8, <2>1, <2>2 DEF RunTypeOK, Take, flow, RunOver
<1>9. CASE Store
  BY <1>9 DEF RunTypeOK, Store, flow, RunOver
<1>10. CASE Mark
  BY <1>10 DEF RunTypeOK, Mark, flow, RunOver
<1>11. CASE AppendFails
  BY <1>11 DEF RunTypeOK, AppendFails, flow, RunOver
<1>12. CASE Cancel
  BY <1>12 DEF RunTypeOK, Cancel, persister, RunOver
<1>13. CASE Finish
  BY <1>13 DEF RunTypeOK, Finish, persister, RunOver
<1>14. CASE UNCHANGED run
  BY <1>14 DEF RunTypeOK, run, flow, persister, RunOver
<1> QED
  BY <1>1, <1>2, <1>3, <1>4, <1>5, <1>6, <1>7, <1>8, <1>9, <1>10, <1>11,
     <1>12, <1>13, <1>14 DEF Next, Flow, Persist

\* Every state of every run has the types of RunTypeOK; in particular the loops
\* of all agents together never exceed the limit of calls by more than the
\* one call that ends the run.
THEOREM TypeCorrect == Spec => []RunTypeOK
  BY TypeInit, TypeStep, PTL DEF Spec

-----------------------------------------------------------------------------
LEMMA BarrierInit == Init => IInv
  BY DEF Init, IInv, Top

LEMMA BarrierStep == RunTypeOK /\ IInv /\ [Next]_run => IInv'
<1> SUFFICES ASSUME RunTypeOK, IInv, [Next]_run PROVE IInv'
  OBVIOUS
\* An event that is appended leaves the earlier ones in place.
<1>0. ASSUME NEW kind \in Kinds, emitted' = Append(emitted, kind)
      PROVE  /\ Len(emitted') = Len(emitted) + 1
             /\ \A i \in 1 .. Len(emitted) : emitted'[i] = emitted[i]
  BY <1>0 DEF RunTypeOK
<1>1. CASE Ask
  BY <1>1 DEF RunTypeOK, IInv, Ask, persister, Top
<1>2. ASSUME NEW kind \in Kinds, Emit(kind) PROVE IInv'
  BY <1>0, <1>2 DEF RunTypeOK, IInv, Emit, StepMayEmit, persister, Top
<1>3. ASSUME NEW found \in BOOLEAN, Transfer(found) PROVE IInv'
  <2>1. emitted' = Append(emitted, "transfer") /\ "transfer" \in Kinds
    BY <1>3 DEF Transfer, Kinds
  <2>2. stage' = "ready" => Top'.steps = 0
    BY <1>3 DEF RunTypeOK, Transfer, Top
  <2> QED
    BY <1>0, <1>3, <2>1, <2>2 DEF RunTypeOK, IInv, Transfer, persister
<1>4. CASE Break
  BY <1>4 DEF RunTypeOK, IInv, Break, persister
<1>5. CASE EndTurn
  BY <1>5 DEF RunTypeOK, IInv, EndTurn, persister
<1>6. CASE EndStep
  <2>1. Top.first <= Len(emitted) /\ Top' = Top
    BY <1>6 DEF RunTypeOK, EndStep, LastStep, Top, Loop
  <2> QED
    BY <1>6, <2>1 DEF RunTypeOK, IInv, EndStep, persister
<1>7. CASE NextStep
  \* The last event of the step is marked, so the Runner is past all others.
  <2>1. Top \in Loop /\ Top.first <= Len(emitted)
    BY <1>7 DEF RunTypeOK, IInv, NextStep, Top
  <2>2. Len(emitted) \in marked
    BY <1>7, <2>1 DEF RunTypeOK, NextStep, Loop
  <2>3. taken = Len(emitted)
    BY <2>2 DEF RunTypeOK, IInv
  <2>4. \A i \in 1 .. Len(emitted) : i \in marked
    BY <2>2, <2>3 DEF RunTypeOK, IInv
  <2> QED
    BY <1>7, <2>4 DEF RunTypeOK, IInv, NextStep, persister
<1>8. CASE Take
  <2>1. \A i \in 1 .. taken : i \in marked
    BY <1>8 DEF IInv, Take
  <2>2. \A i \in 1 .. taken' :
          i \in marked' \/ (i = taken' /\ runner' # "idle")
    BY <1>8, <2>1 DEF RunTypeOK, Take
  <2>3. \A i \in marked' : i <= taken'
                            /\ (emitted[i] = "partial" \/ i \in session)
    <3>1. taken' = taken + 1 /\ taken \in Int
      BY <1>8 DEF RunTypeOK, Take
    <3>2. ASSUME NEW i \in marked'
          PROVE  i \in marked \/ (i = taken + 1 /\ emitted[i] = "partial")
      BY <1>8 DEF Take
    <3>3. \A i \in marked : i \in Int /\ i <= taken
      BY DEF RunTypeOK, IInv
    <3> QED
      BY <3>1, <3>2, <3>3 DEF IInv
  <2>4. runner' # "stored" /\ marked \subseteq marked'
    BY <1>8 DEF Take
  <2> QED
    BY <1>8, <2>2, <2>3, <2>4 DEF IInv, Take, flow, Top
<1>9. CASE Store
  BY <1>9 DEF RunTypeOK, IInv, Store, flow, Top
<1>10. CASE Mark
  BY <1>10 DEF RunTypeOK, IInv, Mark, flow, Top
<1>11. CASE AppendFails
  BY <1>11 DEF RunTypeOK, IInv, AppendFails, flow, Top
<1>12. CASE Cancel
  BY <1>12 DEF RunTypeOK, IInv, Cancel, persister
<1>13. CASE Finish
  BY <1>13 DEF RunTypeOK, IInv, Finish, persister
<1>14. CASE UNCHANGED run
  BY <1>14 DEF RunTypeOK, IInv, run, flow, persister, Top
<1> QED
  BY <1>1, <1>2, <1>3, <1>4, <1>5, <1>6, <1>7, <1>8, <1>9, <1>10, <1>11,
     <1>12, <1>13, <1>14 DEF Next, Flow, Persist

\* However many agents the run passes through and however slow the session
\* service is, a loop that asks the model again finds every event of the run
\* in the session, partial ones apart.
THEOREM StepsSeeAll == Spec => StepsSeeEverything
<1>1. RunTypeOK /\ IInv /\ [Next]_run
        => [(llmCalls' # llmCalls /\ Top.steps > 0) =>
              \A i \in 1 .. Len(emitted) :
                 emitted[i] = "partial" \/ i \in session]_run
  BY DEF IInv, Next, Flow, Ask, Emit, Transfer, EndTurn, EndStep, NextStep,
         Break, Persist, Take, Store, Mark, Cancel, Finish, AppendFails,
         flow, persister
<1> QED
  BY <1>1, TypeInit, TypeStep, BarrierInit, BarrierStep, PTL
  DEF Spec, StepsSeeEverything
=============================================================================
