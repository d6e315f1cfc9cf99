--------------------------- MODULE SessionProofs ---------------------------
(***************************************************************************)
(* Proofs about SessionRuns: its types, and that the runs on one session   *)
(* id happen one after the other.                                          *)
(***************************************************************************)
EXTENDS SessionRuns, TLAPS

\* Sid(c) is a session id.
LEMMA SidType ==
  ASSUME TypeOK, NEW c \in Calls
  PROVE  Sid(c) \in Sids /\ key[c] \in Keys
  BY DEF TypeOK, Keys, Sid

\* createSession puts a session under a user and a session id.
LEMMA NewKeyType ==
  ASSUME TypeOK, NEW c \in Calls
  PROVE  NewKey(c) \in Keys
<1>1. key[c] \in Users \X Sids
  BY SidType DEF Keys
<1>2. Trimmed[Sid(c)] \in Sids
  BY SidType, TrimmedAssumption
<1> QED
  BY <1>1, <1>2 DEF NewKey, Keys

-----------------------------------------------------------------------------
(* Types. *)

\* An appended event leaves a history.
LEMMA AppendType ==
  ASSUME TypeOK, NEW c \in Calls, NEW n \in 0 .. MaxEvents,
         AppendEvent(c, n)
  PROVE  /\ copy' \in [Calls -> History]
         /\ stored' \in [Keys -> History \cup {None}]
<1> DEFINE updated == Append(copy[c], <<c, n>>)
<1>1. <<c, n>> \in Events
  BY DEF Events
<1>2. copy[c] \in Seq(Events)
  BY DEF TypeOK, History
<1>3. updated \in History
  BY <1>1, <1>2 DEF History
<1>4. copy' = [copy EXCEPT ![c] = updated]
      /\ stored' = [stored EXCEPT ![key[c]] = updated]
  BY DEF AppendEvent
<1> HIDE DEF updated
<1> QED
  BY <1>3, <1>4, SidType DEF TypeOK

\* Every step of a request keeps the types.
LEMMA StepType ==
  ASSUME TypeOK, NEW c \in Calls, Step(c) \/ Dispose(c)
  PROVE  TypeOK'
<1> USE SidType
<1>1. CASE Converse(c)
  BY <1>1 DEF Converse, TypeOK, Goto, line
<1>2. CASE CreateSession(c)
  <2>1. <<>> \in History
    BY DEF History
  <2>2. stored' \in [Keys -> History \cup {None}] /\ made' \in [Keys -> Nat]
    BY <1>2, <2>1, NewKeyType DEF CreateSession, TypeOK
  <2> QED
    BY <1>2, <2>2 DEF CreateSession, TypeOK, Goto, line
<1>3. CASE Subscribe(c)
  <2>1. active[Sid(c)] \in Calls \cup {None}
    BY DEF TypeOK
  <2> QED
    BY <1>3, <2>1 DEF Subscribe, TypeOK, Goto
<1>4. CASE Open(c)
  <2>1. stored[key[c]] # None => stored[key[c]] \in History
    BY <1>4 DEF Open, TypeOK
  <2> QED
    BY <1>4, <2>1 DEF Open, TypeOK, Goto, line, Ended
<1>5. CASE Signal(c)
  BY <1>5 DEF Signal, TypeOK
<1>6. CASE Forget(c)
  BY <1>6 DEF Forget, TypeOK
<1>7. CASE AppendMessage(c)
  <2>1. 0 \in 0 .. MaxEvents
    BY MaxEventsAssumption
  <2>2. copy' \in [Calls -> History]
        /\ stored' \in [Keys -> History \cup {None}]
    BY <1>7, <2>1, AppendType DEF AppendMessage
  <2> QED
    BY <1>7, <2>2 DEF AppendMessage, TypeOK, Goto, line
<1>8. CASE AgentEvent(c)
  <2>1. said[c] + 1 \in 0 .. MaxEvents
    BY <1>8, MaxEventsAssumption DEF AgentEvent, TypeOK
  <2>2. copy' \in [Calls -> History]
        /\ stored' \in [Keys -> History \cup {None}]
    BY <1>8, <2>1, AppendType DEF AgentEvent
  <2>3. said' \in [Calls -> 0 .. MaxEvents]
    BY <1>8, <2>1 DEF AgentEvent, TypeOK
  <2> QED
    BY <1>8, <2>2, <2>3 DEF AgentEvent, TypeOK, line
<1>9. CASE Finish(c)
  BY <1>9 DEF Finish, TypeOK, Goto, line, Ended
<1>10. CASE Dispose(c)
  BY <1>10 DEF Dispose, TypeOK, Goto, line, Ended
<1> QED
  BY <1>1, <1>2, <1>3, <1>4, <1>5, <1>6, <1>7, <1>8, <1>9, <1>10 DEF Step

\* Every variable has its type: what is stored are histories of events, the
\* line of a session id holds requests.
THEOREM TypeCorrect == Spec => []TypeOK
<1>1. Init => TypeOK
  BY MaxEventsAssumption DEF Init, TypeOK, History, Ended
<1>2. TypeOK /\ [Next]_vars => TypeOK'
  <2> SUFFICES ASSUME TypeOK, [Next]_vars PROVE TypeOK'
    OBVIOUS
  <2>1. CASE Next
    BY <2>1, StepType DEF Next
  <2>2. CASE UNCHANGED vars
    BY <2>2 DEF vars, TypeOK
  <2> QED
    BY <2>1, <2>2
<1> QED
  BY <1>1, <1>2, PTL DEF Spec

-----------------------------------------------------------------------------
(* The line of a session id. *)

Inv == TypeOK /\ IInv

\* The line stays as it is while a run goes from one place to another that
\* allows for what it waits for.
LEMMA LineStays ==
  ASSUME Inv, TypeOK', NEW c \in Calls, NEW where,
         UNCHANGED <<line, key, cut>>, Goto(c, where),
         gate[c] = "none" <=> where \in {"new", "creating", "ensured"},
         where \in {"queued", "opened", "running"} => Live(c),
         ~cut[c],
         gate[c] # "none" /\ where # "queued" => Released(c)
  PROVE  IInv'
<1>1. ASSUME NEW d \in Calls PROVE PlaceOK(d)'
  <2>1. PlaceOK(d)
    BY DEF Inv, IInv
  <2>2. pc'[d] = IF d = c THEN where ELSE pc[d]
    BY DEF Goto, Inv, TypeOK
  <2> QED
    BY <2>1, <2>2 DEF PlaceOK, line, Live, Sid, Released
<1>2. ASSUME NEW d \in Calls PROVE Awaited(d)'
  BY DEF Inv, IInv, Awaited, Live, CutAfter, Sid, line
<1>3. ASSUME NEW s \in Sids PROVE LastOK(s)'
  BY DEF Inv, IInv, LastOK, Sid, line
<1>4. ASSUME NEW d \in Calls, NEW e \in Calls
      PROVE  OwnTurn(d, e)' /\ WaitsFor(d, e)'
  BY DEF Inv, IInv, OwnTurn, WaitsFor, CutBetween, Live, Sid, line
<1> QED
  BY <1>1, <1>2, <1>3, <1>4 DEF IInv

\* A run that does not wait, and was not disposed of while it did, has
\* nothing before it that is left to wait for.
LEMMA NothingBefore ==
  ASSUME Inv, NEW c \in Calls, NEW d \in Calls, gate[d] # "none",
         Live(c), Live(d), Sid(c) = Sid(d), turn[c] < turn[d],
         pc[d] # "queued", ~cut[d]
  PROVE  CutBetween(c, d)
<1>1. WaitsFor(c, d) /\ PlaceOK(d)
  BY DEF Inv, IInv
<1>2. Released(d)
  BY <1>1 DEF PlaceOK
<1> QED
  BY <1>1, <1>2 DEF WaitsFor, Released, Live

\* A run goes to the end of the line.
LEMMA SubscribeStep ==
  ASSUME Inv, TypeOK', NEW c \in Calls, Subscribe(c)
  PROVE  IInv'
<1> DEFINE s == Sid(c)
<1>1. /\ s \in Sids /\ active[s] \in Calls \cup {None}
      /\ turn \in [Calls -> Nat] /\ turns \in Nat
      /\ turn' \in [Calls -> Nat] /\ turns' \in Nat
  BY SidType DEF Inv, TypeOK
<1>2. /\ gate[c] = "none" /\ ~cut[c]
      /\ \A d \in Calls : PlaceOK(d)
  BY DEF Inv, IInv, PlaceOK, Subscribe
<1>3. /\ \A d \in Calls : turn'[d] = IF d = c THEN turns ELSE turn[d]
      /\ \A d \in Calls : gate'[d] = IF d = c THEN "shut" ELSE gate[d]
      /\ \A d \in Calls : prev'[d] = IF d = c THEN active[s] ELSE prev[d]
      /\ \A d \in Calls : pc'[d] = IF d = c THEN "queued" ELSE pc[d]
      /\ \A t \in Sids : active'[t] = IF t = s THEN c ELSE active[t]
      /\ turns' = turns + 1 /\ cut' = cut /\ key' = key
  BY DEF Subscribe, Goto, Inv, TypeOK
<1>4. \A d \in Calls : Sid(d)' = Sid(d) /\ Sid(d) \in Sids
  BY <1>3, SidType DEF Sid, Inv
<1>5. LastOK(s)
  BY <1>1 DEF Inv, IInv
<1>6. \A d \in Calls : gate[d] # "none" => turn[d] < turns
  BY <1>2 DEF PlaceOK
<1>7. \A d \in Calls : cut[d] => gate[d] # "none"
  BY <1>2 DEF PlaceOK
<1>8. \A d, e \in Calls :
        d # c /\ e # c => (CutBetween(d, e)' <=> CutBetween(d, e))
  BY <1>1, <1>2, <1>3, <1>4, <1>6, <1>7 DEF CutBetween
<1>9. ASSUME NEW d \in Calls PROVE PlaceOK(d)'
  <2>1. CASE d = c
    BY <2>1, <1>1, <1>2, <1>3, <1>4, <1>5, <1>6
    DEF PlaceOK, LastOK, Live, Released
  <2>2. CASE d # c
    <3>1. prev[d] \in Calls \cup {None}
      BY DEF Inv, TypeOK
    <3>2. gate[d] # "none" /\ prev[d] # None =>
            prev[d] # c /\ prev[d] \in Calls
      BY <1>2, <3>1 DEF PlaceOK
    <3> QED
      BY <2>2, <3>1, <3>2, <1>1, <1>2, <1>3, <1>4 DEF PlaceOK, Live, Released
  <2> QED
    BY <2>1, <2>2
<1>10. ASSUME NEW t \in Sids PROVE LastOK(t)'
  <2>1. LastOK(t) /\ active[t] \in Calls \cup {None}
    BY DEF Inv, IInv, TypeOK
  <2> QED
    BY <2>1, <1>2, <1>3, <1>4, NoneAssumption DEF LastOK
<1>11. ASSUME NEW d \in Calls PROVE Awaited(d)'
  <2>1. CASE d = c
    BY <2>1, <1>1, <1>3, <1>4, NoneAssumption DEF Awaited, Live
  <2>2. CASE d # c
    <3>1. CASE Sid(d) = s
      BY <2>2, <3>1, <1>1, <1>2, <1>3, <1>4, <1>6, NoneAssumption
      DEF Awaited, Live
    <3>2. CASE Sid(d) # s
      <4>1. Awaited(d) /\ active[Sid(d)] \in Calls \cup {None}
        BY <1>4 DEF Inv, IInv, TypeOK
      <4>2. CutAfter(d)' <=> CutAfter(d)
        BY <2>2, <1>2, <1>3, <1>4, <1>7 DEF CutAfter
      <4>3. active'[Sid(d)'] = active[Sid(d)]
        BY <3>2, <1>3, <1>4
      <4>4. Live(d)' => Live(d)
        BY <2>2, <1>3 DEF Live
      <4>5. active[Sid(d)] # None /\ Live(active[Sid(d)]) =>
              /\ gate'[active[Sid(d)]] = "shut"
              /\ turn'[active[Sid(d)]] = turn[active[Sid(d)]]
        BY <4>1, <1>2, <1>3 DEF Live
      <4> QED
        BY <2>2, <4>1, <4>2, <4>3, <4>4, <4>5, <1>3 DEF Awaited, Live
    <3> QED
      BY <3>1, <3>2
  <2> QED
    BY <2>1, <2>2
<1>12. ASSUME NEW d \in Calls, NEW e \in Calls
       PROVE  OwnTurn(d, e)'
  <2>1. OwnTurn(d, e)
    BY DEF Inv, IInv
  <2> QED
    BY <2>1, <1>1, <1>3, <1>6 DEF OwnTurn
<1>13. ASSUME NEW d \in Calls, NEW e \in Calls
       PROVE  WaitsFor(d, e)'
  <2>1. CASE e = c
    <3> SUFFICES ASSUME d # c, Live(d), Sid(d) = s, ~CutBetween(d, c)'
                 PROVE  /\ active[s] # None /\ Live(active[s])
                        /\ turn[d] <= turn[active[s]]
      <4>1. active[s] # None /\ Live(active[s]) =>
              /\ active[s] \in Calls /\ active[s] # c
              /\ gate'[active[s]] = "shut"
              /\ turn'[active[s]] = turn[active[s]]
        BY <1>1, <1>2, <1>3 DEF Live
      <4> QED
        BY <2>1, <4>1, <1>1, <1>3, <1>4 DEF WaitsFor, Live
    <3>1. ~CutAfter(d)
      BY <1>1, <1>2, <1>3, <1>4, <1>6, <1>7 DEF CutAfter, CutBetween
    <3>2. Awaited(d)
      BY DEF Inv, IInv
    <3> QED
      BY <3>1, <3>2 DEF Awaited
  <2>2. CASE e # c
    <3>1. WaitsFor(d, e) /\ PlaceOK(e) /\ prev[e] \in Calls \cup {None}
      BY DEF Inv, IInv, TypeOK
    <3>2. Live(e)' /\ Live(d)' /\ turn'[d] < turn'[e] => d # c
      BY <2>2, <1>1, <1>2, <1>3, <1>6 DEF Live
    <3>3. prev[e] # None /\ Live(prev[e]) =>
            gate'[prev[e]] = "shut" /\ turn'[prev[e]] = turn[prev[e]]
      BY <3>1, <1>2, <1>3 DEF Live
    <3> QED
      BY <2>2, <3>1, <3>2, <3>3, <1>3, <1>4, <1>8 DEF WaitsFor, Live
  <2> QED
    BY <2>1, <2>2
<1> QED
  BY <1>9, <1>10, <1>11, <1>12, <1>13 DEF IInv

\* A run that is over lets the next one go.
LEMMA SignalStep ==
  ASSUME Inv, TypeOK', NEW c \in Calls, Signal(c)
  PROVE  IInv'
<1>1. /\ \A d \in Calls : gate'[d] = IF d = c THEN "open" ELSE gate[d]
      /\ gate[c] = "shut" /\ pc[c] \in Ended
      /\ UNCHANGED <<active, pc, key, prev, turn, turns, cut>>
  BY DEF Signal, Inv, TypeOK
<1>2. /\ turn \in [Calls -> Nat]
      /\ \A d \in Calls : prev[d] \in Calls \cup {None}
      /\ \A t \in Sids : active[t] \in Calls \cup {None}
      /\ \A d \in Calls : Sid(d)' = Sid(d) /\ Sid(d) \in Sids
  BY <1>1, SidType DEF Inv, TypeOK, Sid
<1>3. \A d, e \in Calls : (CutBetween(d, e)' <=> CutBetween(d, e))
                          /\ (CutAfter(d)' <=> CutAfter(d))
  BY <1>1, <1>2 DEF CutBetween, CutAfter
<1>4. \A d \in Calls : Live(d)' <=> Live(d) /\ d # c
  BY <1>1 DEF Live
<1>5. pc[c] # "queued"
  BY <1>1 DEF Ended
<1>6. ASSUME NEW d \in Calls, Live(d), d # c, Sid(d) = Sid(c),
             turn[d] <= turn[c]
      PROVE  (cut[c] /\ turn[d] < turn[c]) \/ CutBetween(d, c)
  <2>1. turn[d] < turn[c]
    <3>1. OwnTurn(d, c)
      BY DEF Inv, IInv
    <3> QED
      BY <1>1, <1>2, <1>6, <3>1 DEF OwnTurn, Live
  <2>2. CASE ~cut[c]
    <3>1. Live(c) /\ gate[c] # "none"
      BY <1>1 DEF Live
    <3> QED
      BY <1>5, <1>6, <2>1, <2>2, <3>1, NothingBefore
  <2> QED
    BY <2>1, <2>2
<1>7. ASSUME NEW d \in Calls PROVE PlaceOK(d)'
  <2>1. PlaceOK(d)
    BY DEF Inv, IInv
  <2>2. Released(d) => Released(d)'
    BY <1>1, <1>2 DEF Released
  <2>3. gate'[d] = "none" <=> gate[d] = "none"
    BY <1>1
  <2>4. prev[d] \in Calls =>
          (gate'[prev[d]] = "none" <=> gate[prev[d]] = "none")
    BY <1>1
  <2>5. pc[d] \in {"queued", "opened", "running"} => d # c
    BY <1>1 DEF Ended
  <2> QED
    BY <2>1, <2>2, <2>3, <2>4, <2>5, <1>1, <1>2, <1>4 DEF PlaceOK, Sid
<1>8. ASSUME NEW t \in Sids PROVE LastOK(t)'
  <2>1. LastOK(t)
    BY DEF Inv, IInv
  <2> QED
    BY <2>1, <1>1, <1>2 DEF LastOK, Sid
<1>9. ASSUME NEW d \in Calls PROVE Awaited(d)'
  <2>1. SUFFICES ASSUME Live(d), d # c, ~CutAfter(d)
                 PROVE  /\ active[Sid(d)] # None
                        /\ gate'[active[Sid(d)]] = "shut"
                        /\ turn[d] <= turn[active[Sid(d)]]
    BY <1>1, <1>2, <1>3, <1>4 DEF Awaited, Live
  <2>2. /\ active[Sid(d)] # None /\ Live(active[Sid(d)])
        /\ turn[d] <= turn[active[Sid(d)]]
    BY <2>1 DEF Inv, IInv, Awaited
  <2>3. active[Sid(d)] \in Calls /\ LastOK(Sid(d))
    BY <1>2, <2>2 DEF Inv, IInv
  <2>4. active[Sid(d)] # c
    <3> SUFFICES ASSUME active[Sid(d)] = c PROVE FALSE
      OBVIOUS
    <3>1. Sid(d) = Sid(c) /\ turn[d] <= turn[c]
      BY <2>2, <2>3 DEF LastOK
    <3>2. (cut[c] /\ turn[d] < turn[c]) \/ CutBetween(d, c)
      BY <1>6, <2>1, <3>1
    <3> QED
      BY <2>1, <3>1, <3>2 DEF CutAfter, CutBetween
  <2> QED
    BY <1>1, <2>2, <2>3, <2>4 DEF Live
<1>10. ASSUME NEW d \in Calls, NEW e \in Calls
       PROVE  OwnTurn(d, e)'
  BY <1>1 DEF Inv, IInv, OwnTurn
<1>11. ASSUME NEW d \in Calls, NEW e \in Calls
       PROVE  WaitsFor(d, e)'
  <2>1. SUFFICES ASSUME Live(d), d # c, Live(e), e # c, Sid(d) = Sid(e),
                        turn[d] < turn[e], ~CutBetween(d, e)
                 PROVE  /\ prev[e] # None /\ gate'[prev[e]] = "shut"
                        /\ turn[d] <= turn[prev[e]]
    BY <1>1, <1>2, <1>3, <1>4 DEF WaitsFor, Live
  <2>2. prev[e] # None /\ Live(prev[e]) /\ turn[d] <= turn[prev[e]]
    BY <2>1 DEF Inv, IInv, WaitsFor
  <2>3. prev[e] \in Calls /\ PlaceOK(e)
    BY <1>2, <2>2 DEF Inv, IInv
  <2>4. prev[e] # c
    <3> SUFFICES ASSUME prev[e] = c PROVE FALSE
      OBVIOUS
    <3>1. /\ Sid(d) = Sid(c) /\ turn[d] <= turn[c] /\ turn[c] < turn[e]
      BY <2>1, <2>2, <2>3 DEF PlaceOK, Live
    <3>2. (cut[c] /\ turn[d] < turn[c]) \/ CutBetween(d, c)
      BY <1>6, <2>1, <3>1
    <3> QED
      BY <1>2, <2>1, <3>1, <3>2 DEF CutBetween
  <2> QED
    BY <1>1, <2>2, <2>3, <2>4 DEF Live
<1> QED
  BY <1>7, <1>8, <1>9, <1>10, <1>11 DEF IInv

\* The last run of a session id leaves the map when it is over.
LEMMA ForgetStep ==
  ASSUME Inv, TypeOK', NEW c \in Calls, Forget(c)
  PROVE  IInv'
<1>1. /\ \A d \in Calls : gate'[d] = IF d = c THEN "gone" ELSE gate[d]
      /\ gate[c] = "open"
      /\ \A t \in Sids : active'[t] =
           IF t = Sid(c) /\ active[t] = c THEN None ELSE active[t]
      /\ UNCHANGED <<pc, key, prev, turn, turns, cut>>
  BY SidType DEF Forget, Inv, TypeOK
<1>2. /\ \A d \in Calls : prev[d] \in Calls \cup {None}
      /\ \A t \in Sids : active[t] \in Calls \cup {None}
      /\ \A d \in Calls : Sid(d)' = Sid(d) /\ Sid(d) \in Sids
  BY <1>1, SidType DEF Inv, TypeOK, Sid
<1>3. /\ \A d \in Calls : Live(d)' <=> Live(d)
      /\ \A d \in Calls : gate'[d] = "none" <=> gate[d] = "none"
      /\ ~Live(c)
  BY <1>1 DEF Live
<1>4. \A d, e \in Calls : (CutBetween(d, e)' <=> CutBetween(d, e))
                          /\ (CutAfter(d)' <=> CutAfter(d))
  BY <1>1, <1>2 DEF CutBetween, CutAfter
<1>5. ASSUME NEW d \in Calls PROVE PlaceOK(d)'
  <2>1. PlaceOK(d)
    BY DEF Inv, IInv
  <2>2. Released(d) => Released(d)'
    BY <1>1, <1>2 DEF Released
  <2>3. prev[d] \in Calls =>
          (gate'[prev[d]] = "none" <=> gate[prev[d]] = "none")
    BY <1>1
  <2> QED
    BY <2>1, <2>2, <2>3, <1>1, <1>2, <1>3 DEF PlaceOK, Sid
<1>6. ASSUME NEW t \in Sids PROVE LastOK(t)'
  <2>1. LastOK(t)
    BY DEF Inv, IInv
  <2> QED
    BY <2>1, <1>1, <1>2 DEF LastOK, Sid
<1>7. ASSUME NEW d \in Calls PROVE Awaited(d)'
  <2>1. Awaited(d) /\ active[Sid(d)] \in Calls \cup {None}
    BY <1>2 DEF Inv, IInv
  <2>2. active[Sid(d)] # None /\ Live(active[Sid(d)]) =>
          /\ active'[Sid(d)] = active[Sid(d)]
          /\ gate'[active[Sid(d)]] = "shut"
    BY <2>1, <1>1, <1>2 DEF Live
  <2> QED
    BY <2>1, <2>2, <1>1, <1>2, <1>3, <1>4 DEF Awaited, Live
<1>8. ASSUME NEW d \in Calls, NEW e \in Calls
      PROVE  OwnTurn(d, e)'
  BY <1>1 DEF Inv, IInv, OwnTurn
<1>9. ASSUME NEW d \in Calls, NEW e \in Calls
      PROVE  WaitsFor(d, e)'
  <2>1. WaitsFor(d, e) /\ prev[e] \in Calls \cup {None}
    BY <1>2 DEF Inv, IInv
  <2>2. prev[e] # None /\ Live(prev[e]) => gate'[prev[e]] = "shut"
    BY <2>1, <1>1 DEF Live
  <2> QED
    BY <2>1, <2>2, <1>1, <1>2, <1>3, <1>4 DEF WaitsFor, Live
<1> QED
  BY <1>5, <1>6, <1>7, <1>8, <1>9 DEF IInv

\* A run disposed of while it waits no longer orders those before and after.
LEMMA DisposeStep ==
  ASSUME Inv, TypeOK', NEW c \in Calls, Dispose(c)
  PROVE  IInv'
<1>1. /\ \A d \in Calls :
           cut'[d] = IF d = c THEN pc[c] = "queued" ELSE cut[d]
      /\ \A d \in Calls : pc'[d] = IF d = c THEN "disposed" ELSE pc[d]
      /\ UNCHANGED <<active, prev, gate, turn, turns, key>>
  BY DEF Dispose, line, Goto, Inv, TypeOK
<1>2. pc[c] \in {"queued", "opened", "running"} /\ PlaceOK(c)
  BY DEF Dispose, Inv, IInv
<1>3. Live(c) /\ ~cut[c]
  BY <1>2 DEF PlaceOK
<1>4. \A d \in Calls : cut[d] => cut'[d]
  BY <1>1, <1>3
<1>5. \A d, e \in Calls : (CutBetween(d, e) => CutBetween(d, e)')
                          /\ (CutAfter(d) => CutAfter(d)')
  BY <1>1, <1>4 DEF CutBetween, CutAfter, Sid
<1>6. ASSUME NEW d \in Calls PROVE PlaceOK(d)'
  <2>1. PlaceOK(d)
    BY DEF Inv, IInv
  <2>2. CASE d = c
    BY <2>1, <2>2, <1>1, <1>2, <1>3
    DEF PlaceOK, Live, Released, Sid
  <2>3. CASE d # c
    BY <2>1, <2>3, <1>1 DEF PlaceOK, Live, Released, Sid
  <2> QED
    BY <2>2, <2>3
<1>7. ASSUME NEW d \in Calls PROVE Awaited(d)'
  <2>1. Awaited(d)
    BY DEF Inv, IInv
  <2> QED
    BY <2>1, <1>1, <1>5 DEF Awaited, Live, Sid
<1>8. ASSUME NEW t \in Sids PROVE LastOK(t)'
  BY <1>1 DEF Inv, IInv, LastOK, Sid
<1>9. ASSUME NEW d \in Calls, NEW e \in Calls
      PROVE  OwnTurn(d, e)' /\ WaitsFor(d, e)'
  <2>1. OwnTurn(d, e) /\ WaitsFor(d, e)
    BY DEF Inv, IInv
  <2> QED
    BY <2>1, <1>1, <1>5 DEF OwnTurn, WaitsFor, Live, Sid
<1> QED
  BY <1>6, <1>7, <1>8, <1>9 DEF IInv

\* Every step keeps the line in order.
LEMMA StepInv ==
  ASSUME Inv, TypeOK', NEW c \in Calls, Step(c) \/ Dispose(c)
  PROVE  IInv'
<1>1. PlaceOK(c)
  BY DEF Inv, IInv
<1>2. CASE Converse(c)
  <2>1. PICK where \in {"creating", "ensured"} : Goto(c, where)
    BY <1>2 DEF Converse
  <2>2. UNCHANGED <<line, key, cut>> /\ gate[c] = "none" /\ ~cut[c]
    BY <1>1, <1>2 DEF Converse, PlaceOK
  <2> QED
    BY <2>1, <2>2, LineStays
<1>3. CASE CreateSession(c)
  <2>1. UNCHANGED <<line, key, cut>> /\ gate[c] = "none" /\ ~cut[c]
        /\ Goto(c, "ensured")
    BY <1>1, <1>3 DEF CreateSession, PlaceOK
  <2> QED
    BY <2>1, LineStays
<1>4. CASE Open(c)
  <2>1. /\ UNCHANGED <<line, key, cut>>
        /\ Goto(c, "opened") \/ Goto(c, "failed")
        /\ Live(c) /\ gate[c] # "none" /\ ~cut[c] /\ Released(c)
    BY <1>1, <1>4 DEF Open, PlaceOK, Live
  <2>2. CASE Goto(c, "opened")
    BY <2>1, <2>2, LineStays
  <2>3. CASE Goto(c, "failed")
    BY <2>1, <2>3, LineStays
  <2> QED
    BY <2>1, <2>2, <2>3
<1>5. CASE AppendMessage(c)
  <2>1. /\ UNCHANGED <<line, key, cut>> /\ Goto(c, "running")
        /\ Live(c) /\ gate[c] # "none" /\ ~cut[c] /\ Released(c)
    BY <1>1, <1>5 DEF AppendMessage, PlaceOK, Live
  <2> QED
    BY <2>1, LineStays
<1>6. CASE AgentEvent(c)
  <2>1. /\ UNCHANGED <<line, key, cut>> /\ pc' = pc /\ pc[c] = "running"
        /\ Live(c) /\ gate[c] # "none" /\ ~cut[c] /\ Released(c)
    BY <1>1, <1>6 DEF AgentEvent, PlaceOK, Live
  <2>2. Goto(c, "running")
    BY <2>1 DEF Goto, Inv, TypeOK
  <2> QED
    BY <2>1, <2>2, LineStays
<1>7. CASE Finish(c)
  <2>1. PICK where \in {"answered", "failed"} : Goto(c, where)
    BY <1>7 DEF Finish
  <2>2. /\ UNCHANGED <<line, key, cut>>
        /\ Live(c) /\ gate[c] # "none" /\ ~cut[c] /\ Released(c)
    BY <1>1, <1>7 DEF Finish, PlaceOK, Live
  <2> QED
    BY <2>1, <2>2, LineStays
<1> QED
  BY <1>2, <1>3, <1>4, <1>5, <1>6, <1>7, SubscribeStep, SignalStep,
     ForgetStep, DisposeStep DEF Step

\* The invariant holds throughout.
LEMMA InvHolds == Spec => []Inv
<1>1. Init => Inv
  <2> SUFFICES ASSUME Init PROVE Inv
    OBVIOUS
  <2>1. TypeOK
    BY MaxEventsAssumption DEF Init, TypeOK, History, Ended
  <2>2. IInv
    BY DEF Init, IInv, PlaceOK, Awaited, LastOK, OwnTurn, WaitsFor, Live
  <2> QED
    BY <2>1, <2>2 DEF Inv
<1>2. Inv /\ [Next]_vars => Inv'
  <2> SUFFICES ASSUME Inv, [Next]_vars PROVE Inv'
    OBVIOUS
  <2>1. CASE Next
    BY <2>1, StepType, StepInv DEF Next, Inv
  <2>2. CASE UNCHANGED vars
    <3>1. TypeOK'
      BY <2>2 DEF vars, TypeOK, Inv
    <3>2. IInv'
      BY <2>2 DEF vars, Inv, IInv, PlaceOK, Awaited, LastOK, OwnTurn,
        WaitsFor, Live, Released, CutBetween, CutAfter, Sid
    <3> QED
      BY <3>1, <3>2 DEF Inv
  <2> QED
    BY <2>1, <2>2
<1> QED
  BY <1>1, <1>2, PTL DEF Spec

\* Runs on one session id follow one another: the line that
\* activeSessionCompletables keeps is a lock, and only a run that is disposed
\* of while it waits breaks it.
THEOREM RunsInTurn == Spec => []RunsDoNotOverlap
<1>1. Inv => RunsDoNotOverlap
  <2> SUFFICES ASSUME Inv, NEW c \in Calls, NEW d \in Calls, Running(c),
                      Running(d), Sid(c) = Sid(d), turn[c] < turn[d]
               PROVE  CutBetween(c, d)
    BY DEF RunsDoNotOverlap
  <2>1. PlaceOK(c) /\ PlaceOK(d)
    BY DEF Inv, IInv
  <2>2. /\ Live(c) /\ Live(d) /\ gate[d] # "none"
        /\ pc[d] # "queued" /\ ~cut[d]
    BY <2>1 DEF PlaceOK, Running, Live
  <2> QED
    BY <2>2, NothingBefore
<1> QED
  BY <1>1, InvHolds, PTL

-----------------------------------------------------------------------------
(* The lines: every step is one of LineOfRuns, or nothing to it. *)

LEMMA InitForms == Init => Line!Init
<1> SUFFICES ASSUME Init PROVE Line!Init
  OBVIOUS
<1>1. Places \in [Calls -> Sids]
  BY DEF Init, Places, Sid, Keys
<1>2. Phases = [c \in Calls |-> "away"]
  BY DEF Init, Phases, Phase
<1>3. Kept = Sids
  BY DEF Init, Kept
<1> QED
  BY <1>1, <1>2, <1>3 DEF Init, Line!Init

\* What a step may change is the phase of its run.
LEMMA PhaseOfOthers ==
  ASSUME Inv, NEW c \in Calls, key' = key,
         \A d \in Calls \ {c} :
           gate'[d] = gate[d] /\ pc'[d] = pc[d] /\ cut'[d] = cut[d]
  PROVE  /\ Places' = Places
         /\ \A p : Phase(c)' = p => Phases' = [Phases EXCEPT ![c] = p]
         /\ cut'[c] = cut[c] => Kept' = Kept
<1>1. Places' = Places
  BY DEF Places, Sid
<1>2. ASSUME NEW d \in Calls \ {c} PROVE Phase(d)' = Phase(d)
  BY <1>2 DEF Phase
<1>3. ASSUME cut'[c] = cut[c] PROVE Kept' = Kept
  BY <1>3 DEF Kept, Sid
<1> QED
  BY <1>1, <1>2, <1>3 DEF Phases

LEMMA SameForLines ==
  ASSUME Inv, NEW c \in Calls, key' = key,
         \A d \in Calls \ {c} :
           gate'[d] = gate[d] /\ pc'[d] = pc[d] /\ cut'[d] = cut[d],
         Phase(c)' = Phase(c), cut'[c] = cut[c],
         turn' = turn, turns' = turns
  PROVE  UNCHANGED Line!vars
<1>1. Places' = Places /\ Phases' = [Phases EXCEPT ![c] = Phase(c)]
      /\ Kept' = Kept
  BY PhaseOfOthers
<1>2. Phases' = Phases
  BY <1>1 DEF Phases
<1> QED
  BY <1>1, <1>2 DEF Line!vars

LEMMA StepForms ==
  ASSUME Inv, NEW c \in Calls, Step(c) \/ Dispose(c)
  PROVE  [Line!Next]_(Line!vars)
<1>0. /\ PlaceOK(c) /\ TypeOK
      /\ Phases[c] = Phase(c) /\ Places[c] = Sid(c)
  BY DEF Inv, IInv, Phases, Places
<1>1. CASE Subscribe(c)
  <2>1. /\ pc[c] = "ensured" /\ key' = key /\ cut' = cut
        /\ gate' = [gate EXCEPT ![c] = "shut"]
        /\ pc' = [pc EXCEPT ![c] = "queued"]
        /\ turn' = [turn EXCEPT ![c] = turns] /\ turns' = turns + 1
    BY <1>1 DEF Subscribe, Goto
  <2>2. Phase(c) = "away" /\ Phase(c)' = "waiting"
    BY <1>0, <2>1 DEF TypeOK, PlaceOK, Phase
  <2>3. /\ Places' = Places /\ Kept' = Kept
        /\ Phases' = [Phases EXCEPT ![c] = "waiting"]
    BY <1>0, <2>1, <2>2, PhaseOfOthers DEF TypeOK
  <2> QED
    BY <1>0, <2>1, <2>2, <2>3 DEF Line!Next, Line!Come
<1>2. CASE Open(c)
  <2>1. /\ pc[c] = "queued" /\ key' = key /\ cut' = cut
        /\ gate' = gate /\ turn' = turn /\ turns' = turns
        /\ \/ pc' = [pc EXCEPT ![c] = "opened"]
           \/ pc' = [pc EXCEPT ![c] = "failed"]
        /\ Released(c)
    BY <1>2 DEF Open, Goto, line
  <2>2. Phase(c) = "waiting" /\ Phase(c)' = "served" /\ Live(c)
    BY <1>0, <2>1 DEF TypeOK, PlaceOK, Phase, Live
  <2>3. /\ Places' = Places /\ Kept' = Kept
        /\ Phases' = [Phases EXCEPT ![c] = "served"]
    BY <1>0, <2>1, <2>2, PhaseOfOthers DEF TypeOK
  <2>4. ASSUME Places[c] \in Kept, NEW q \in Line!Before(c)
        PROVE  Phases[q] = "left"
    <3>1. /\ q \in Calls /\ Sid(q) = Sid(c) /\ turn[q] < turn[c]
          /\ Phases[q] = Phase(q) /\ Phase(q) # "away"
      BY <1>0 DEF Line!Before, Phases, Places
    <3>2. ~CutBetween(q, c)
      BY <1>0, <2>4, <3>1 DEF Kept, CutBetween
    <3>3. ~Live(q)
      BY <2>1, <2>2, <3>1, <3>2 DEF Inv, IInv, WaitsFor, Released, Live
    <3> QED
      BY <3>1, <3>3 DEF Phase, Live
  <2> QED
    BY <1>0, <2>1, <2>2, <2>3, <2>4 DEF Line!Next, Line!Serve
<1>3. CASE Signal(c)
  <2>1. /\ pc[c] \in Ended /\ gate[c] = "shut" /\ key' = key /\ cut' = cut
        /\ pc' = pc /\ turn' = turn /\ turns' = turns
        /\ gate' = [gate EXCEPT ![c] = "open"]
    BY <1>3 DEF Signal
  <2>2. Phase(c) = (IF cut[c] THEN "left" ELSE "served")
    BY <2>1 DEF Phase, Ended
  <2>3. Phase(c)' = "left"
    BY <1>0, <2>1 DEF TypeOK, Phase
  <2>4. /\ Places' = Places /\ Kept' = Kept
        /\ Phases' = [Phases EXCEPT ![c] = "left"]
    BY <1>0, <2>1, <2>3, PhaseOfOthers DEF TypeOK
  <2>5. CASE cut[c]
    BY <1>0, <2>1, <2>2, <2>3, <2>5, SameForLines DEF TypeOK
  <2>6. CASE ~cut[c]
    BY <1>0, <2>1, <2>2, <2>4, <2>6 DEF Line!Next, Line!Leave
  <2> QED
    BY <2>5, <2>6
<1>4. CASE Forget(c)
  <2>1. /\ gate[c] = "open" /\ key' = key /\ cut' = cut
        /\ pc' = pc /\ turn' = turn /\ turns' = turns
        /\ gate' = [gate EXCEPT ![c] = "gone"]
    BY <1>4 DEF Forget
  <2>2. Phase(c) = "left" /\ Phase(c)' = "left"
    BY <1>0, <2>1 DEF TypeOK, Phase
  <2> QED
    BY <1>0, <2>1, <2>2, SameForLines DEF TypeOK
<1>5. CASE Dispose(c)
  <2>1. /\ pc[c] \in {"queued", "opened", "running"} /\ key' = key
        /\ cut' = [cut EXCEPT ![c] = pc[c] = "queued"]
        /\ pc' = [pc EXCEPT ![c] = "disposed"]
        /\ gate' = gate /\ turn' = turn /\ turns' = turns
    BY <1>5 DEF Dispose, Goto, line
  <2>2. gate[c] = "shut" /\ ~cut[c]
    BY <1>0, <2>1 DEF PlaceOK, Live
  <2>3. pc'[c] = "disposed" /\ gate'[c] = "shut"
    BY <1>0, <2>1, <2>2 DEF TypeOK
  <2>4. CASE pc[c] = "queued"
    <3>1. cut'[c]
      BY <1>0, <2>1, <2>4 DEF TypeOK
    <3>2. Phase(c) = "waiting" /\ Phase(c)' = "left"
      BY <2>2, <2>3, <2>4, <3>1 DEF Phase
    <3>3. Places' = Places /\ Phases' = [Phases EXCEPT ![c] = "left"]
      BY <1>0, <2>1, <3>2, PhaseOfOthers DEF TypeOK
    <3>4. Kept' = Kept \ {Sid(c)}
      <4>1. \A d \in Calls : cut'[d] <=> (d = c \/ cut[d])
        BY <1>0, <2>1, <3>1 DEF TypeOK
      <4> QED
        BY <2>1, <4>1 DEF Kept, Sid
    <3> QED
      BY <1>0, <2>1, <3>2, <3>3, <3>4 DEF Line!Next, Line!GiveUp
  <2>5. CASE pc[c] # "queued"
    <3>1. cut' = cut
      BY <1>0, <2>1, <2>2, <2>5 DEF TypeOK
    <3>2. Phase(c) = "served" /\ Phase(c)' = "served"
      BY <2>2, <2>3, <2>5, <3>1 DEF Phase
    <3> QED
      BY <1>0, <2>1, <3>1, <3>2, SameForLines DEF TypeOK
  <2> QED
    BY <2>4, <2>5
<1>6. CASE \/ Converse(c) \/ CreateSession(c) \/ AppendMessage(c)
           \/ AgentEvent(c) \/ Finish(c)
  <2>1. /\ UNCHANGED <<key, cut, gate, turn, turns>>
        /\ \A d \in Calls \ {c} : pc'[d] = pc[d]
        /\ pc[c] # "queued" /\ pc'[c] # "queued"
    BY <1>0, <1>6 DEF Converse, CreateSession, AppendMessage, AgentEvent,
                      Finish, Goto, line, TypeOK
  <2>2. Phase(c)' = Phase(c)
    BY <2>1 DEF Phase
  <2> QED
    BY <2>1, <2>2, SameForLines
<1> QED
  BY <1>1, <1>2, <1>3, <1>4, <1>5, <1>6 DEF Step

\* The chain of completions implements the lines: first come, first served,
\* one run at a time, until a run gives up while it waits.
THEOREM LinesAreFormed == Spec => RunsFormLines
<1>1. Inv /\ [Next]_vars => [Line!Next]_(Line!vars)
  <2> SUFFICES ASSUME Inv, [Next]_vars PROVE [Line!Next]_(Line!vars)
    OBVIOUS
  <2>1. CASE Next
    BY <2>1, StepForms DEF Next
  <2>2. CASE UNCHANGED vars
    BY <2>2 DEF vars, Line!vars, Places, Phases, Kept, Phase, Sid
  <2> QED
    BY <2>1, <2>2
<1> QED
  BY <1>1, InitForms, InvHolds, PTL DEF Spec, RunsFormLines, Line!Spec

-----------------------------------------------------------------------------
(* What is answered is kept. *)

\* A history that is extended keeps what it kept.
LEMMA AppendKeeps ==
  ASSUME NEW h \in History, NEW e \in Events, NEW d \in Calls, NEW n \in Nat
  PROVE  /\ Keeps(h, d, n) => Keeps(Append(h, e), d, n)
         /\ (n = 0 \/ Keeps(h, d, n - 1)) /\ e = <<d, n>> =>
              Keeps(Append(h, e), d, n)
<1>1. h \in Seq(Events)
  BY DEF History
<1>2. Append(h, e) \in Seq(Events) /\ Len(Append(h, e)) = Len(h) + 1
      /\ Len(h) \in Nat
  BY <1>1
<1>3. DOMAIN h = 1 .. Len(h)
      /\ DOMAIN Append(h, e) = 1 .. (Len(h) + 1)
  BY <1>1, <1>2
<1>4. Append(h, e)[Len(h) + 1] = e /\ Len(h) + 1 \in DOMAIN Append(h, e)
  BY <1>1, <1>2, <1>3
<1>5. ASSUME NEW i \in DOMAIN h
      PROVE  i \in DOMAIN Append(h, e) /\ Append(h, e)[i] = h[i]
  BY <1>1, <1>2, <1>3
<1>6. Keeps(h, d, n) => Keeps(Append(h, e), d, n)
  BY <1>5, Zenon DEF Keeps
<1>7. ASSUME n = 0 \/ Keeps(h, d, n - 1), e = <<d, n>>
      PROVE  Keeps(Append(h, e), d, n)
  <2> SUFFICES ASSUME NEW m \in 0 .. n
               PROVE  \E i \in DOMAIN Append(h, e) :
                        Append(h, e)[i] = <<d, m>>
    BY DEF Keeps
  <2>1. CASE m = n
    BY <1>4, <1>7, <2>1
  <2>2. CASE m # n
    <3>1. m \in 0 .. (n - 1) /\ n # 0
      BY <2>2
    <3>2. \E i \in DOMAIN h : h[i] = <<d, m>>
      BY <1>7, <3>1 DEF Keeps
    <3> QED
      BY <1>5, <3>2, Zenon
  <2> QED
    BY <2>1, <2>2
<1> QED
  BY <1>6, <1>7

\* In an undisturbed line nobody runs beside c.
LEMMA Alone ==
  ASSUME Inv, NEW c \in Calls, NEW d \in Calls, Running(c), Running(d),
         Sid(c) = Sid(d), Undisturbed(c)
  PROVE  c = d
<1> SUFFICES ASSUME c # d PROVE FALSE
  OBVIOUS
<1>1. /\ PlaceOK(c) /\ PlaceOK(d) /\ OwnTurn(c, d)
      /\ turn \in [Calls -> Nat]
  BY DEF Inv, IInv, TypeOK
<1>2. /\ Live(c) /\ Live(d) /\ gate[c] # "none" /\ gate[d] # "none"
      /\ pc[c] # "queued" /\ pc[d] # "queued" /\ ~cut[c] /\ ~cut[d]
  BY <1>1 DEF PlaceOK, Running, Live
<1>3. turn[c] < turn[d] \/ turn[d] < turn[c]
  BY <1>1, <1>2 DEF OwnTurn
<1>4. CutBetween(c, d) \/ CutBetween(d, c)
  BY <1>2, <1>3, NothingBefore
<1> QED
  BY <1>4 DEF CutBetween, Undisturbed

\* An appended event extends the stored session of an undisturbed line.
LEMMA AppendFresh ==
  ASSUME Inv, KInv, NEW c \in Calls, NEW n \in 0 .. MaxEvents, Running(c),
         AppendEvent(c, n), UNCHANGED <<key, cut, made>>,
         pc' = [pc EXCEPT ![c] = "running"],
         said' = [said EXCEPT ![c] = n],
         IF pc[c] = "opened" THEN n = 0 ELSE n = said[c] + 1
  PROVE  KInv'
<1> DEFINE updated == Append(copy[c], <<c, n>>)
<1>1. /\ \A d \in Calls : copy'[d] = IF d = c THEN updated ELSE copy[d]
      /\ \A k \in Keys : stored'[k] = IF k = key[c] THEN updated ELSE stored[k]
      /\ \A d \in Calls : pc'[d] = IF d = c THEN "running" ELSE pc[d]
      /\ \A d \in Calls : said'[d] = IF d = c THEN n ELSE said[d]
      /\ \A d \in Calls : key[d] \in Keys
      /\ copy[c] \in History /\ <<c, n>> \in Events
      /\ said \in [Calls -> 0 .. MaxEvents]
  BY DEF AppendEvent, Inv, TypeOK, Events
<1>2. /\ (n = 0 \/ Keeps(copy[c], c, n - 1)) => Keeps(updated, c, n)
      /\ \A d \in Calls :
           Keeps(copy[c], d, said[d]) => Keeps(updated, d, said[d])
  BY <1>1, AppendKeeps
<1>3. \A d \in Calls : Undisturbed(d)' <=> Undisturbed(d)
  BY DEF Undisturbed, Sid
<1>4. \A d \in Calls : FreshOK(d)
  BY DEF KInv
<1> HIDE DEF updated
<1>5. ASSUME NEW k \in Keys, stored'[k] # None PROVE made'[k] > 0
  <2>1. made[key[c]] > 0
    BY <1>4 DEF FreshOK, Running
  <2> QED
    BY <1>1, <1>5, <2>1 DEF KInv
<1>6. ASSUME NEW d \in Calls PROVE FreshOK(d)'
  <2>1. pc'[d] \in {"opened", "running", "answered"} => made'[key'[d]] > 0
    BY <1>1, <1>4 DEF FreshOK, Running
  <2>2. pc'[d] \notin {"running"} \cup Ended => said'[d] = 0
    BY <1>1, <1>4 DEF FreshOK
  <2>3. ASSUME Running(d)', Undisturbed(d)
        PROVE  copy'[d] = stored'[key[d]]
    <3>1. CASE d = c
      BY <1>1, <3>1
    <3>2. CASE d # c
      <4>1. Running(d)
        BY <1>1, <2>3, <3>2 DEF Running
      <4>2. key[d] # key[c]
        BY <2>3, <3>2, <4>1, Alone DEF Sid
      <4> QED
        BY <1>1, <1>4, <2>3, <3>2, <4>1, <4>2 DEF FreshOK
    <3> QED
      BY <3>1, <3>2
  <2>4. ASSUME pc'[d] \in {"running", "answered"}, Undisturbed(d)
        PROVE  Keeps(stored'[key[d]], d, said'[d])
    <3>1. CASE d = c
      <4>1. copy[c] = stored[key[c]]
        BY <1>4, <2>4, <3>1 DEF FreshOK
      <4>2. n = 0 \/ Keeps(copy[c], c, n - 1)
        <5>1. pc[c] = "opened" \/ (pc[c] = "running" /\ n - 1 = said[c])
          BY <1>1 DEF Running
        <5> QED
          BY <1>4, <2>4, <3>1, <4>1, <5>1 DEF FreshOK
      <4> QED
        BY <1>1, <1>2, <3>1, <4>2
    <3>2. CASE d # c
      <4>1. Keeps(stored[key[d]], d, said[d])
        BY <1>1, <1>4, <2>4, <3>2 DEF FreshOK
      <4>2. CASE key[d] = key[c]
        <5>1. Undisturbed(c)
          BY <2>4, <4>2 DEF Undisturbed, Sid
        <5>2. copy[c] = stored[key[c]]
          BY <1>4, <5>1 DEF FreshOK
        <5> QED
          BY <1>1, <1>2, <3>2, <4>1, <4>2, <5>2
      <4>3. CASE key[d] # key[c]
        BY <1>1, <3>2, <4>1, <4>3
      <4> QED
        BY <4>2, <4>3
    <3> QED
      BY <3>1, <3>2
  <2> QED
    BY <1>3, <2>1, <2>2, <2>3, <2>4 DEF FreshOK
<1> QED
  BY <1>5, <1>6 DEF KInv

\* Every step keeps the copies fresh.
LEMMA StepFresh ==
  ASSUME Inv, KInv, NEW c \in Calls, Step(c) \/ Dispose(c)
  PROVE  KInv'
<1>1. /\ \A d \in Calls : FreshOK(d) /\ PlaceOK(d)
      /\ \A d \in Calls : key[d] \in Keys
      /\ said \in [Calls -> 0 .. MaxEvents] /\ made \in [Keys -> Nat]
      /\ pc \in [Calls -> {"new", "creating", "ensured", "queued", "opened",
                           "running"} \cup Ended]
      /\ copy \in [Calls -> History]
  BY DEF KInv, Inv, IInv, TypeOK
<1>2. CASE AppendMessage(c)
  <2>1. said[c] = 0 /\ said' = [said EXCEPT ![c] = 0]
        /\ 0 \in 0 .. MaxEvents
    BY <1>1, <1>2, MaxEventsAssumption DEF AppendMessage, FreshOK, Ended
  <2> QED
    BY <1>2, <2>1, AppendFresh DEF AppendMessage, Goto, Running
<1>3. CASE AgentEvent(c)
  <2>1. /\ said[c] + 1 \in 0 .. MaxEvents
        /\ said' = [said EXCEPT ![c] = said[c] + 1]
        /\ pc' = [pc EXCEPT ![c] = "running"]
    BY <1>1, <1>3, MaxEventsAssumption DEF AgentEvent
  <2> QED
    BY <1>3, <2>1, AppendFresh DEF AgentEvent, Running
<1>4. CASE CreateSession(c)
  <2>1. /\ \A k \in Keys :
             stored'[k] = IF k = NewKey(c) THEN <<>> ELSE stored[k]
        /\ \A k \in Keys :
             made'[k] = IF k = NewKey(c) THEN made[k] + 1 ELSE made[k]
        /\ \A d \in Calls : pc'[d] = IF d = c THEN "ensured" ELSE pc[d]
        /\ pc[c] = "creating" /\ UNCHANGED <<key, cut, said, copy>>
    BY <1>1, <1>4 DEF CreateSession, Goto, Inv, TypeOK
  <2>2. ASSUME NEW d \in Calls, Undisturbed(d)',
               pc[d] \in {"opened", "running", "answered"}
        PROVE  Undisturbed(d) /\ key[d] # NewKey(c)
    BY <1>1, <2>1, <2>2 DEF Undisturbed, FreshOK, Sid
  <2>3. ASSUME NEW d \in Calls PROVE FreshOK(d)'
    BY <1>1, <2>1, <2>2 DEF FreshOK, Running, Ended
  <2>4. \A k \in Keys : stored'[k] # None => made'[k] > 0
    BY <1>1, <2>1 DEF KInv
  <2> QED
    BY <2>3, <2>4 DEF KInv
<1>5. CASE \/ Converse(c) \/ Subscribe(c) \/ Open(c) \/ Signal(c)
           \/ Forget(c) \/ Finish(c) \/ Dispose(c)
  <2>1. UNCHANGED <<stored, key, said, made>>
        /\ \A d \in Calls : cut[d] => cut'[d]
    <3>1. CASE Dispose(c)
      BY <1>1, <3>1 DEF Dispose, PlaceOK, Inv, TypeOK
    <3> QED
      BY <1>5, <3>1 DEF Converse, Subscribe, Open, Signal, Forget, Finish
  <2>2. ASSUME NEW d \in Calls, Undisturbed(d)' PROVE Undisturbed(d)
    BY <2>1, <2>2 DEF Undisturbed, Sid
  <2>3. ASSUME NEW d \in Calls, d # c PROVE FreshOK(d)'
    <3>1. pc'[d] = pc[d] /\ copy'[d] = copy[d]
      BY <1>1, <1>5, <2>3
      DEF Converse, Subscribe, Open, Signal, Forget, Finish, Dispose, Goto
    <3> QED
      BY <1>1, <2>1, <2>2, <3>1 DEF FreshOK, Running
  <2>4. FreshOK(c)'
    <3>1. CASE Converse(c)
      BY <1>1, <2>1, <2>2, <3>1 DEF Converse, Goto, FreshOK, Running, Ended
    <3>2. CASE Subscribe(c)
      BY <1>1, <2>1, <2>2, <3>2 DEF Subscribe, Goto, FreshOK, Running, Ended
    <3>3. CASE Open(c)
      <4>1. stored[key[c]] # None => made[key[c]] > 0
        BY <1>1 DEF KInv
      <4> QED
        BY <1>1, <2>1, <2>2, <3>3, <4>1
        DEF Open, Goto, FreshOK, Running, Ended
    <3>4. CASE Signal(c) \/ Forget(c)
      BY <1>1, <2>1, <2>2, <3>4 DEF Signal, Forget, FreshOK, Running
    <3>5. CASE Finish(c)
      BY <1>1, <2>1, <2>2, <3>5 DEF Finish, Goto, FreshOK, Running, Ended
    <3>6. CASE Dispose(c)
      BY <1>1, <2>1, <2>2, <3>6 DEF Dispose, Goto, FreshOK, Running, Ended
    <3> QED
      BY <1>5, <3>1, <3>2, <3>3, <3>4, <3>5, <3>6
  <2> QED
    BY <2>1, <2>3, <2>4 DEF KInv
<1> QED
  BY <1>2, <1>3, <1>4, <1>5 DEF Step

\* What an answered request said and was told is kept and known to the runs
\* after it, as long as its session is created once and no waiting run of
\* its session id is disposed of.
THEOREM AnswersAreKept == Spec => []AnswersKept
<1>1. Init => KInv
  BY DEF Init, KInv, FreshOK, Running, Ended
<1>2. Inv /\ KInv /\ [Next]_vars => KInv'
  <2> SUFFICES ASSUME Inv, KInv, [Next]_vars PROVE KInv'
    OBVIOUS
  <2>1. CASE Next
    BY <2>1, StepFresh DEF Next
  <2>2. CASE UNCHANGED vars
    BY <2>2 DEF vars, KInv, FreshOK, Running, Undisturbed, Keeps, Sid
  <2> QED
    BY <2>1, <2>2
<1>3. Inv /\ KInv => AnswersKept
  <2> SUFFICES ASSUME Inv, KInv, NEW c \in Calls, pc[c] = "answered",
                      Undisturbed(c)
               PROVE  /\ Keeps(stored[key[c]], c, said[c])
                      /\ \A d \in Calls :
                           (Running(d) /\ key[d] = key[c])
                             => Keeps(copy[d], c, said[c])
    BY DEF AnswersKept
  <2>1. Keeps(stored[key[c]], c, said[c])
    BY DEF KInv, FreshOK
  <2>2. ASSUME NEW d \in Calls, Running(d), key[d] = key[c]
        PROVE  copy[d] = stored[key[c]]
    <3>1. Undisturbed(d)
      BY <2>2 DEF Undisturbed, Sid
    <3> QED
      BY <2>2, <3>1 DEF KInv, FreshOK
  <2> QED
    BY <2>1, <2>2
<1> QED
  BY <1>1, <1>2, <1>3, InvHolds, PTL DEF Spec
=============================================================================
