---------------------------- MODULE LeaveService ----------------------------
(***************************************************************************)
(* What the Leave tools of the MCP server promise: each state-changing     *)
(* tool of LeaveTools is one atomic step over the tables leave_request and *)
(* leave_balance.  This is the behaviour of the code when calls do not     *)
(* overlap; LeaveTools says what happens when they do.                     *)
(*                                                                         *)
(* A call that throws (unknown id, wrong status, bad dates) changes        *)
(* nothing and is a stuttering step.                                       *)
(***************************************************************************)
EXTENDS LeaveData

VARIABLES
  request,   \* leave_request, by primary key
  balance    \* leave_balance, by its unique key

vars == <<request, balance>>

TypeOK ==
  /\ request \in [RequestIds -> Request \cup {NoRow}]
  /\ balance \in [Keys -> BalanceRow \cup {NoRow}]

Init ==
  /\ request = [i \in RequestIds |-> NoRow]
  /\ balance = [k \in Keys |-> NoRow]

-----------------------------------------------------------------------------
(* The tools. *)

HasStatus(id, status) == request[id] # NoRow /\ request[id].status = status

\* A new PENDING row; neither the balance nor an overlap is looked at.
ApplyForLeave(id, e, t, start, end) ==
  /\ request[id] = NoRow
  /\ ValidDates(start, end)
  /\ request' = [request EXCEPT ![id] = PendingRow(e, t, start, end)]
  /\ UNCHANGED balance

\* The balance row a request is charged to, and writing it: unpaid leave has
\* none.
BalanceOf(id) == balance[KeyOf(request[id])]

Rebalance(id, row) ==
  IF request[id].type = Unpaid
  THEN UNCHANGED balance
  ELSE balance' = [balance EXCEPT ![KeyOf(request[id])] = row]

Charged(id) == Charge(BalanceOf(id), InclusiveDays(request[id]))

Refunded(id) == Refund(BalanceOf(id), InclusiveDays(request[id]))

DecideOnLeaveRequest(id, approve, m) ==
  /\ HasStatus(id, "PENDING")
  /\ request' = [request EXCEPT ![id] = Decided(@, approve, m)]
  /\ IF approve THEN Rebalance(id, Charged(id)) ELSE UNCHANGED balance

CancelLeave(id) ==
  /\ HasStatus(id, "PENDING") \/ HasStatus(id, "APPROVED")
  /\ request' = [request EXCEPT ![id] = Cancelled(@)]
  /\ IF HasStatus(id, "APPROVED")
     THEN Rebalance(id, Refunded(id)) ELSE UNCHANGED balance

\* Wrong on purpose: decided requests can be modified, too.
ModifyAnyRequest(id, start, end) ==
  /\ request[id] # NoRow
  /\ ValidDates(start, end)
  /\ request' = [request EXCEPT ![id] = Redated(@, start, end)]
  /\ UNCHANGED balance

ModifyLeaveRequest(id, start, end) ==
  /\ HasStatus(id, "PENDING")
  /\ ValidDates(start, end)
  /\ request' = [request EXCEPT ![id] = Redated(@, start, end)]
  /\ UNCHANGED balance

\* One employee or all of them; a row that exists is left as it is.
SeedLeaveBalances(emps, year) ==
  /\ balance' = [k \in Keys |->
       IF k[1] \in emps /\ k[2] # Unpaid /\ k[3] = year /\ balance[k] = NoRow
       THEN QuotaRow(k[2]) ELSE balance[k]]
  /\ UNCHANGED request

Next ==
  \/ \E id \in RequestIds, e \in Employees, t \in LeaveTypes,
        start, end \in Dates : ApplyForLeave(id, e, t, start, end)
  \/ \E id \in RequestIds, approve \in BOOLEAN, m \in Managers :
        DecideOnLeaveRequest(id, approve, m)
  \/ \E id \in RequestIds : CancelLeave(id)
  \/ \E id \in RequestIds, start, end \in Dates :
        ModifyLeaveRequest(id, start, end)
  \/ \E emps \in {{e} : e \in Employees} \cup {Employees}, year \in Years :
        SeedLeaveBalances(emps, year)

Spec == Init /\ [][Next]_vars

-----------------------------------------------------------------------------
(* Properties of calls that do not overlap. *)

\* After any sequence of applications, modifications, decisions, seedings
\* and cancellations, the used days of a balance are exactly the days of
\* the approved requests charged to it: applyLeaveToBalance and
\* revertLeaveFromBalance are each other's inverse, whatever lies between.
LedgerExact ==
  \A k \in Keys :
    /\ k[2] = Unpaid => balance[k] = NoRow
    /\ k[2] # Unpaid =>
         (IF balance[k] = NoRow THEN 0 ELSE balance[k].used)
           = ApprovedDays(request, k)

\* A balance row is never in disagreement with itself: what remains is the
\* total less what was used, also when more was approved than the total.
RowsBalanced ==
  \A k \in Keys :
    balance[k] # NoRow =>
      balance[k].remaining = balance[k].total - balance[k].used

\* A request that checkLeaveEligibility finds eligible when it is approved
\* never overdraws its balance: the check and the charge count the same days
\* against the same row.
EligibleNeverOverdraws ==
  [][\A id \in RequestIds, m \in Managers :
       DecideOnLeaveRequest(id, TRUE, m) =>
         LET r == request[id]
             k == KeyOf(r)
         IN  (r.type # Unpaid /\ Eligible(balance[k], r.type, r.start, r.end))
               => balance'[k].remaining >= 0]_vars

\* Payroll never misses an unpaid day: whatever requests were applied for,
\* moved, approved and cancelled, getUnpaidLeaveDaysForMonth counts at least
\* the days of the month that approved unpaid leave covers.
NoUnpaidDayMissed ==
  \A e \in Employees, first, last \in Dates :
    UnpaidDays(request, e, first, last)
      >= Cardinality(UnpaidDates(request, e, first, last))

\* The inductive invariant behind them: with the types, only finitely many
\* requests were ever made, so that their days can be added up.
Made == {i \in RequestIds : request[i] # NoRow}

IInv == IsFiniteSet(Made) /\ RowsBalanced /\ LedgerExact

\* "Get total unpaid-leave days taken by an employee in a given month/year"
\* (LeaveTools.java:1022): no more days than the month has.
UnpaidDaysFitMonth ==
  \A e \in Employees, first, last \in Dates :
    first <= last => UnpaidDays(request, e, first, last) <= last - first + 1

\* Seeding gives an employee the default quota of every paid type ("Initialize
\* default leave balances for an employee", LeaveTools.java:1261).
SeedGrantsQuota ==
  [][\A emps \in {{e} : e \in Employees}, year \in Years :
       SeedLeaveBalances(emps, year) =>
         \A e \in emps, t \in PaidTypes :
           balance'[<<e, t, year>>].total = DefaultQuota[t]]_vars
=============================================================================
