----------------------------- MODULE LeaveData -----------------------------
(***************************************************************************)
(* The two tables of the Leave tools of the MCP server (leave_request and  *)
(* leave_balance) and the pure helpers LeaveTools computes rows with.  The *)
(* state machines over these tables are LeaveService (every tool call one  *)
(* atomic step) and LeaveTools (every tool call a transaction that reads a *)
(* snapshot and writes back later).                                        *)
(*                                                                         *)
(* A date is a natural number, counted in days; a row that does not exist  *)
(* is NoRow.  Reasons, holidays and weekends carry no state and are left   *)
(* out.                                                                    *)
(***************************************************************************)
EXTENDS Integers, FiniteSetsExt

CONSTANTS
  RequestIds,    \* primary keys of leave_request
  Employees,     \* employee ids
  Managers,      \* the manager ids a decision may carry
  PaidTypes,     \* SICK, CASUAL, EARNED: the types with a balance
  Unpaid,        \* LeaveType.UNPAID
  Dates,         \* the days a request may name
  DaysPerYear,   \* length of a year
  DefaultQuota,  \* defaultQuotaFor, a function of the paid type
  NoRow,         \* "no such row"
  NoManager      \* approvedByManagerId = null

ASSUME DatesAssumption == Dates \subseteq Nat /\ DaysPerYear \in Nat \ {0}
ASSUME QuotaAssumption == DefaultQuota \in [PaidTypes -> Nat]
ASSUME UnpaidAssumption == Unpaid \notin PaidTypes
ASSUME ManagerAssumption == NoManager \notin Managers

LeaveTypes == PaidTypes \cup {Unpaid}

Statuses == {"PENDING", "APPROVED", "REJECTED", "CANCELLED"}

\* validateDates holds of every stored row.
Request ==
  {r \in [emp : Employees, type : LeaveTypes, start : Dates, end : Dates,
          status : Statuses, approver : Managers \cup {NoManager}] :
     r.start <= r.end}

BalanceRow == [total : Nat, used : Nat, remaining : Int]

ASSUME NoRowAssumption == NoRow \notin Request /\ NoRow \notin BalanceRow

\* getStartDate().getYear()
YearOf(date) == date \div DaysPerYear

Years == {YearOf(d) : d \in Dates}

\* Uniqueness of (employeeId, leaveType, year): the table is a function.
Keys == Employees \X LeaveTypes \X Years

\* The balance row a request is charged to: all of it in the start's year.
KeyOf(r) == <<r.emp, r.type, YearOf(r.start)>>

InclusiveDays(r) == r.end - r.start + 1

\* Wrong on purpose: the order of the dates is not checked.
UnorderedDates(start, end) == start \in Dates /\ end \in Dates

ValidDates(start, end) == start \in Dates /\ end \in Dates /\ start <= end

PendingRow(e, t, start, end) ==
  [emp |-> e, type |-> t, start |-> start, end |-> end,
   status |-> "PENDING", approver |-> NoManager]

\* Wrong on purpose: a rejection does not record who rejected.
DecidedAnonymously(r, approve, m) ==
  IF approve THEN [r EXCEPT !.status = "APPROVED", !.approver = m]
  ELSE [r EXCEPT !.status = "REJECTED"]

Decided(r, approve, m) ==
  [r EXCEPT !.status = IF approve THEN "APPROVED" ELSE "REJECTED",
            !.approver = m]

Cancelled(r) == [r EXCEPT !.status = "CANCELLED"]

Redated(r, start, end) == [r EXCEPT !.start = start, !.end = end]

ZeroRow == [total |-> 0, used |-> 0, remaining |-> 0]

\* Wrong on purpose: the remaining days are not recomputed.
OnlyUsed(b, u) == [b EXCEPT !.used = u]

WithUsed(b, u) == [total |-> b.total, used |-> u, remaining |-> b.total - u]

\* applyLeaveToBalance: a missing row starts from zero; no check against
\* what remains.
Charge(b, days) ==
  LET row == IF b = NoRow THEN ZeroRow ELSE b
  IN  WithUsed(row, row.used + days)

\* revertLeaveFromBalance: a missing row stays missing; never below zero.
Refund(b, days) ==
  IF b = NoRow THEN NoRow
  ELSE WithUsed(b, IF b.used > days THEN b.used - days ELSE 0)

\* The rows a pending write leaves behind: NoRow stands for "not written".
Overlay(writes, table) ==
  [x \in DOMAIN table |-> IF writes[x] = NoRow THEN table[x] ELSE writes[x]]

QuotaRow(t) ==
  [total |-> DefaultQuota[t], used |-> 0, remaining |-> DefaultQuota[t]]

-----------------------------------------------------------------------------
(* Read-only tools, as functions of a table. *)

\* Wrong on purpose: a leave that starts on the last day is not seen.
OverlapsStrictly(r, from, to) == from <= r.end /\ to > r.start

Overlaps(r, from, to) == from <= r.end /\ to >= r.start

\* Wrong on purpose: an off-by-one in the days asked for.
EligibleOffByOne(b, t, start, end) ==
  t = Unpaid \/ (b # NoRow /\ b.remaining >= end - start)

\* checkLeaveEligibility.
Eligible(b, t, start, end) ==
  \/ t = Unpaid
  \/ b # NoRow /\ b.remaining >= end - start + 1

\* The days of a set of requests, added up.
DaysOf(table, ids) == MapThenSumSet(LAMBDA i : InclusiveDays(table[i]), ids)

\* The requests that getUnpaidLeaveDaysForMonth counts for [first, last].
UnpaidIn(table, e, first, last) ==
  {i \in DOMAIN table :
     /\ table[i] # NoRow
     /\ table[i].emp = e
     /\ table[i].type = Unpaid
     /\ table[i].status = "APPROVED"
     /\ Overlaps(table[i], first, last)}

UnpaidDays(table, e, first, last) ==
  DaysOf(table, UnpaidIn(table, e, first, last))

\* What the count should say: the days of the month that some approved unpaid
\* request covers.
UnpaidDates(table, e, first, last) ==
  {d \in first .. last :
     \E i \in DOMAIN table :
       /\ table[i] # NoRow
       /\ table[i].emp = e /\ table[i].type = Unpaid
       /\ table[i].status = "APPROVED"
       /\ d \in table[i].start .. table[i].end}

\* What the ledger should say: the days of the approved requests of a key.
ApprovedOn(table, key) ==
  {i \in DOMAIN table :
     /\ table[i] # NoRow
     /\ table[i].status = "APPROVED"
     /\ KeyOf(table[i]) = key}

ApprovedDays(table, key) == DaysOf(table, ApprovedOn(table, key))
=============================================================================
