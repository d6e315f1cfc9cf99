----------------------------- MODULE LeaveProofs -----------------------------
(***************************************************************************)
(* Theorems about LeaveTools, for any number of overlapping calls, any     *)
(* requests, employees, leave types, dates and quotas.                     *)
(***************************************************************************)
EXTENDS MCLeaveTools, TLAPS

(* Facts about the pure helpers. *)

\* A request's key is a key of the balance table.
LEMMA KeyOfType == ASSUME NEW r \in Request PROVE KeyOf(r) \in Keys
BY DEF KeyOf, Keys, Request, Years

\* A request takes at least one day.
LEMMA DaysPositive ==
  ASSUME NEW r \in Request PROVE InclusiveDays(r) \in Nat
<1>1. r.start \in Dates /\ r.end \in Dates /\ r.start <= r.end
  BY DEF Request
<1>2. r.start \in Nat /\ r.end \in Nat
  BY <1>1, DatesAssumption
<1>3. QED
  BY <1>1, <1>2 DEF InclusiveDays

\* The rows the tools compute are rows of the tables, and balanced.
LEMMA PendingRowType ==
  ASSUME NEW e \in Employees, NEW t \in LeaveTypes, NEW start, NEW end,
         ValidDates(start, end)
  PROVE  PendingRow(e, t, start, end) \in Request
BY DEF PendingRow, Request, ValidDates, Statuses

LEMMA DecidedType ==
  ASSUME NEW r \in Request, NEW approve \in BOOLEAN, NEW m \in Managers
  PROVE  Decided(r, approve, m) \in Request
BY DEF Decided, Request, Statuses

LEMMA CancelledType ==
  ASSUME NEW r \in Request PROVE Cancelled(r) \in Request
BY DEF Cancelled, Request, Statuses

LEMMA RedatedType ==
  ASSUME NEW r \in Request, NEW start, NEW end, ValidDates(start, end)
  PROVE  Redated(r, start, end) \in Request
BY DEF Redated, Request, ValidDates

LEMMA ChargeType ==
  ASSUME NEW b \in BalanceRow \cup {NoRow}, NEW days \in Nat
  PROVE  /\ Charge(b, days) \in BalanceRow
         /\ RowBalanced(Charge(b, days))
         /\ b # NoRow => Charge(b, days).total = b.total
BY DEF Charge, WithUsed, ZeroRow, BalanceRow, RowBalanced

LEMMA RefundType ==
  ASSUME NEW b \in BalanceRow \cup {NoRow}, NEW days \in Nat
  PROVE  /\ Refund(b, days) \in BalanceRow \cup {NoRow}
         /\ RowBalanced(Refund(b, days))
         /\ b = NoRow => Refund(b, days) = NoRow
         /\ b # NoRow => Refund(b, days) \in BalanceRow
                         /\ Refund(b, days).total = b.total
BY DEF Refund, WithUsed, BalanceRow, RowBalanced

LEMMA QuotaRowType ==
  ASSUME NEW t \in PaidTypes
  PROVE  QuotaRow(t) \in BalanceRow /\ RowBalanced(QuotaRow(t))
BY QuotaAssumption DEF QuotaAssumption, QuotaRow, BalanceRow, RowBalanced
-----------------------------------------------------------------------------
(* What a tool is going to write keeps the tables' properties. *)

\* The conditions of PendingWritesOK on the balance rows of w.
BalancesOK(w) ==
  \A k \in Keys :
    /\ RowBalanced(w.upd[k]) /\ RowBalanced(w.ins[k])
    /\ k[2] = Unpaid => w.upd[k] = NoRow /\ w.ins[k] = NoRow
    /\ w.upd[k] # NoRow =>
         balance[k] # NoRow /\ w.upd[k].total = balance[k].total

LEMMA OnlyRequestOK ==
  ASSUME NEW id \in RequestIds, NEW r \in Request
  PROVE  /\ OnlyRequest(id, r) \in Writes
         /\ BalancesOK(OnlyRequest(id, r))
         /\ OnlyRequest(id, r).upd = NoBalances
         /\ OnlyRequest(id, r).ins = NoBalances
         /\ \A i \in RequestIds : OnlyRequest(id, r).req[i]
                                    = IF i = id THEN r ELSE NoRow
BY DEF OnlyRequest, NoRequests, NoBalances, Writes, BalancesOK, RowBalanced

LEMMA WithBalanceOK ==
  ASSUME TypeOK,
         NEW key \in Keys, key[2] # Unpaid,
         NEW row \in BalanceRow \cup {NoRow}, RowBalanced(row),
         balance[key] # NoRow => row # NoRow /\ row.total = balance[key].total,
         NEW w \in Writes, w.upd = NoBalances, w.ins = NoBalances
  PROVE  /\ WithBalance(w, key, row) \in Writes
         /\ WithBalance(w, key, row).req = w.req
         /\ BalancesOK(WithBalance(w, key, row))
         /\ row # NoRow => \/ WithBalance(w, key, row).ins[key] # NoRow
                           \/ balance[key] # NoRow
<1>1. CASE balance[key] = NoRow
  <2>1. WithBalance(w, key, row) = [w EXCEPT !.ins[key] = row]
    BY <1>1 DEF WithBalance
  <2>2. QED
    BY <1>1, <2>1 DEF Writes, NoBalances, BalancesOK, RowBalanced
<1>2. CASE balance[key] # NoRow /\ row = balance[key]
  <2>1. WithBalance(w, key, row) = w
    BY <1>2 DEF WithBalance
  <2>2. QED
    BY <1>2, <2>1 DEF NoBalances, BalancesOK, RowBalanced
<1>3. CASE balance[key] # NoRow /\ row # balance[key]
  <2>1. WithBalance(w, key, row) = [w EXCEPT !.upd[key] = row]
    BY <1>3 DEF WithBalance
  <2>2. QED
    BY <1>3, <2>1 DEF Writes, NoBalances, BalancesOK, RowBalanced
<1>4. QED
  BY <1>1, <1>2, <1>3

LEMMA DecisionOK ==
  ASSUME TypeOK, IInv,
         NEW id \in RequestIds, HasStatus(id, "PENDING"),
         NEW approve \in BOOLEAN, NEW m \in Managers
  PROVE  /\ DecisionWrites(id, approve, m) \in Writes
         /\ PendingWritesOK(DecisionWrites(id, approve, m), balance)
<1> DEFINE r == request[id]
           d == Decided(r, approve, m)
           w == OnlyRequest(id, d)
           row == Charge(balance[KeyOf(r)], InclusiveDays(r))
<1>1. r \in Request
  BY DEF TypeOK, HasStatus
<1>2. /\ d \in Request
      /\ KeyOf(d) = KeyOf(r)
      /\ d.type = r.type
      /\ d.status = (IF approve THEN "APPROVED" ELSE "REJECTED")
      /\ d.approver = m
  BY <1>1, DecidedType DEF Decided, Request, KeyOf
<1>3. w \in Writes /\ BalancesOK(w)
      /\ w.upd = NoBalances /\ w.ins = NoBalances
      /\ \A i \in RequestIds : w.req[i] = IF i = id THEN d ELSE NoRow
  BY <1>2, OnlyRequestOK
<1>4. d # NoRow /\ ApproverOK(d) /\ ApproverOK(NoRow) /\ ~ApprovedPaid(NoRow)
  BY <1>2, NoRowAssumption, ManagerAssumption DEF ApproverOK, ApprovedPaid
<1>5. CASE approve /\ r.type # Unpaid
  <2>1. DecisionWrites(id, approve, m) = WithBalance(w, KeyOf(r), row)
    BY <1>5 DEF DecisionWrites, Rebalanced, Charged, BalanceOf
  <2>2. KeyOf(r) \in Keys /\ KeyOf(r)[2] # Unpaid
    BY <1>1, <1>5, KeyOfType DEF KeyOf
  <2>3. balance[KeyOf(r)] \in BalanceRow \cup {NoRow}
    BY <2>2 DEF TypeOK
  <2>4. /\ row \in BalanceRow /\ RowBalanced(row)
        /\ balance[KeyOf(r)] # NoRow => row.total = balance[KeyOf(r)].total
    BY <1>1, <2>3, ChargeType, DaysPositive
  <2>5. row # NoRow
    BY <2>4, NoRowAssumption
  <2>6. LET v == WithBalance(w, KeyOf(r), row)
        IN  /\ v \in Writes /\ v.req = w.req /\ BalancesOK(v)
            /\ v.ins[KeyOf(r)] # NoRow \/ balance[KeyOf(r)] # NoRow
    BY <1>3, <2>2, <2>4, <2>5, WithBalanceOK
  <2>7. QED
    BY <1>2, <1>3, <1>4, <2>1, <2>6 DEF PendingWritesOK, BalancesOK
<1>6. CASE ~(approve /\ r.type # Unpaid)
  <2>1. DecisionWrites(id, approve, m) = w
    BY <1>6 DEF DecisionWrites, Rebalanced, Charged, BalanceOf
  <2>2. ~ApprovedPaid(d)
    BY <1>2, <1>6 DEF ApprovedPaid
  <2>3. QED
    BY <1>3, <1>4, <2>1, <2>2 DEF PendingWritesOK, BalancesOK
<1>7. QED
  BY <1>5, <1>6

LEMMA CancelOK ==
  ASSUME TypeOK, IInv,
         NEW id \in RequestIds,
         HasStatus(id, "PENDING") \/ HasStatus(id, "APPROVED")
  PROVE  /\ CancelWrites(id) \in Writes
         /\ PendingWritesOK(CancelWrites(id), balance)
<1> DEFINE r == request[id]
           d == Cancelled(r)
           w == OnlyRequest(id, d)
           row == Refund(balance[KeyOf(r)], InclusiveDays(r))
<1>1. r \in Request
  BY DEF TypeOK, HasStatus
<1>2. d \in Request /\ d.status = "CANCELLED"
  BY <1>1, CancelledType DEF Cancelled, Request
<1>3. w \in Writes /\ BalancesOK(w)
      /\ w.upd = NoBalances /\ w.ins = NoBalances
      /\ \A i \in RequestIds : w.req[i] = IF i = id THEN d ELSE NoRow
  BY <1>2, OnlyRequestOK
<1>4. \A i \in RequestIds : ApproverOK(w.req[i]) /\ ~ApprovedPaid(w.req[i])
  BY <1>2, <1>3 DEF ApproverOK, ApprovedPaid
<1>5. CASE HasStatus(id, "APPROVED") /\ r.type # Unpaid
  <2>1. CancelWrites(id) = WithBalance(w, KeyOf(r), row)
    BY <1>5 DEF CancelWrites, Rebalanced, Refunded, BalanceOf
  <2>2. KeyOf(r) \in Keys /\ KeyOf(r)[2] # Unpaid
    BY <1>1, <1>5, KeyOfType DEF KeyOf
  <2>3. balance[KeyOf(r)] \in BalanceRow \cup {NoRow}
    BY <2>2 DEF TypeOK
  <2>4. /\ row \in BalanceRow \cup {NoRow} /\ RowBalanced(row)
        /\ balance[KeyOf(r)] # NoRow =>
             row \in BalanceRow /\ row.total = balance[KeyOf(r)].total
    BY <1>1, <2>3, RefundType, DaysPositive
  <2>5. balance[KeyOf(r)] # NoRow => row # NoRow
    BY <2>4, NoRowAssumption
  <2>6. LET v == WithBalance(w, KeyOf(r), row)
        IN  v \in Writes /\ v.req = w.req /\ BalancesOK(v)
    BY <1>3, <2>2, <2>4, <2>5, WithBalanceOK
  <2>7. QED
    BY <1>4, <2>1, <2>6 DEF PendingWritesOK, BalancesOK
<1>6. CASE ~(HasStatus(id, "APPROVED") /\ r.type # Unpaid)
  <2>1. CancelWrites(id) = w
    BY <1>6 DEF CancelWrites, Rebalanced, Refunded, BalanceOf
  <2>2. QED
    BY <1>3, <1>4, <2>1 DEF PendingWritesOK, BalancesOK
<1>7. QED
  BY <1>5, <1>6

LEMMA ModifyOK ==
  ASSUME TypeOK, IInv,
         NEW id \in RequestIds, HasStatus(id, "PENDING"),
         NEW start, NEW end, ValidDates(start, end)
  PROVE  /\ ModifyWrites(id, start, end) \in Writes
         /\ PendingWritesOK(ModifyWrites(id, start, end), balance)
<1> DEFINE r == request[id]
           d == Redated(r, start, end)
           w == OnlyRequest(id, d)
<1>1. r \in Request /\ r.status = "PENDING" /\ r.approver = NoManager
  BY DEF TypeOK, HasStatus, IInv, ApproverOK
<1>2. d \in Request /\ d.status = "PENDING" /\ d.approver = NoManager
  BY <1>1, RedatedType DEF Redated, Request
<1>3. w \in Writes /\ BalancesOK(w)
      /\ \A i \in RequestIds : w.req[i] = IF i = id THEN d ELSE NoRow
  BY <1>2, OnlyRequestOK
<1>4. \A i \in RequestIds : ApproverOK(w.req[i]) /\ ~ApprovedPaid(w.req[i])
  BY <1>2, <1>3 DEF ApproverOK, ApprovedPaid
<1>5. QED
  BY <1>3, <1>4 DEF ModifyWrites, PendingWritesOK, BalancesOK

LEMMA SeedOK ==
  ASSUME NEW emps \in SUBSET Employees, NEW year \in Years
  PROVE  /\ SeedWrites(emps, year) \in Writes
         /\ PendingWritesOK(SeedWrites(emps, year), balance)
<1> DEFINE w == SeedWrites(emps, year)
<1>1. \A k \in Keys : k[2] # Unpaid => k[2] \in PaidTypes
  BY DEF Keys, LeaveTypes
<1>2. \A k \in Keys : /\ w.ins[k] \in BalanceRow \cup {NoRow}
                      /\ RowBalanced(w.ins[k])
                      /\ k[2] = Unpaid => w.ins[k] = NoRow
  BY <1>1, QuotaRowType DEF SeedWrites, RowBalanced
<1>3. w.req = NoRequests /\ w.upd = NoBalances
  BY DEF SeedWrites
<1>4. w \in Writes
  BY <1>2, <1>3 DEF SeedWrites, Writes, NoRequests, NoBalances
<1>5. QED
  BY <1>2, <1>3, <1>4
  DEF PendingWritesOK, NoRequests, NoBalances, RowBalanced, ApproverOK,
      ApprovedPaid
-----------------------------------------------------------------------------
(* Type correctness. *)

LEMMA InitType == Init => TypeOK
BY DEF Init, TypeOK

LEMMA StartType ==
  ASSUME TypeOK, NEW c \in Calls, NEW w \in Writes, Start(c, w)
  PROVE  TypeOK'
BY DEF Start, TypeOK

LEMMA CommitType ==
  ASSUME TypeOK, NEW c \in Calls, Commit(c)
  PROVE  TypeOK'
<1>1. call[c] \in Writes
  BY DEF Commit, TypeOK
<1>2. request' \in [RequestIds -> Request \cup {NoRow}]
  BY <1>1 DEF Commit, Overlay, Writes, TypeOK
<1>3. balance' \in [Keys -> BalanceRow \cup {NoRow}]
  BY <1>1 DEF Commit, Overlay, Writes, TypeOK
<1>4. call' \in [Calls -> Writes \cup {Idle}]
  BY DEF Commit, TypeOK
<1>5. QED
  BY <1>2, <1>3, <1>4 DEF TypeOK

\* A table row only ever gives way to another row, and a balance row keeps
\* its total.
LEMMA CommitKeepsRows ==
  ASSUME TypeOK, IInv, NEW c \in Calls, Commit(c), NEW k \in Keys,
         balance[k] # NoRow
  PROVE  balance'[k] # NoRow /\ balance'[k].total = balance[k].total
<1>1. call[c] \in Writes /\ PendingWritesOK(call[c], balance)
  BY DEF Commit, TypeOK, IInv
<1>2. balance'[k] = IF call[c].upd[k] = NoRow THEN balance[k]
                    ELSE call[c].upd[k]
  BY DEF Commit, Overlay, TypeOK
<1>3. QED
  BY <1>1, <1>2 DEF PendingWritesOK

\* PendingWritesOK looks at the balance table only for rows and totals.
LEMMA PendingStable ==
  ASSUME NEW w \in Writes, PendingWritesOK(w, balance),
         \A k \in Keys : balance[k] # NoRow =>
           balance'[k] # NoRow /\ balance'[k].total = balance[k].total
  PROVE  PendingWritesOK(w, balance')
<1>1. \A id \in RequestIds : ApprovedPaid(w.req[id]) =>
        KeyOf(w.req[id]) \in Keys
  BY KeyOfType, NoRowAssumption DEF Writes, ApprovedPaid
<1>2. QED
  BY <1>1 DEF PendingWritesOK

-----------------------------------------------------------------------------
(* The inductive invariant, one lemma per kind of step. *)

LEMMA InitInv == Init => IInv
BY IdleAssumption
DEF Init, IInv, RowsBalanced, ApprovedIsCharged, HasStatus, ApproverOK

LEMMA ApplyInv ==
  ASSUME TypeOK, IInv,
         NEW id \in RequestIds, NEW e \in Employees, NEW t \in LeaveTypes,
         NEW start \in Dates, NEW end \in Dates,
         ApplyForLeave(id, e, t, start, end)
  PROVE  TypeOK' /\ IInv'
<1> DEFINE row == PendingRow(e, t, start, end)
<1>1. row \in Request /\ row.status = "PENDING" /\ row.approver = NoManager
  BY PendingRowType DEF ApplyForLeave, PendingRow
<1>2. /\ request' = [request EXCEPT ![id] = row]
      /\ balance' = balance /\ call' = call
  BY DEF ApplyForLeave
<1>3. TypeOK'
  BY <1>1, <1>2 DEF TypeOK
<1>4. RowsBalanced'
  BY <1>2 DEF IInv, RowsBalanced
<1>5. ApprovedIsCharged'
  BY <1>1, <1>2 DEF IInv, ApprovedIsCharged, HasStatus, TypeOK
<1>6. \A i \in RequestIds : ApproverOK(request'[i])
  BY <1>1, <1>2 DEF IInv, ApproverOK, TypeOK
<1>7. \A c \in Calls : call'[c] # Idle => PendingWritesOK(call'[c], balance')
  BY <1>2 DEF IInv, PendingWritesOK
<1>8. QED
  BY <1>3, <1>4, <1>5, <1>6, <1>7 DEF IInv

LEMMA StartInv ==
  ASSUME TypeOK, IInv, NEW c \in Calls, NEW w \in Writes,
         PendingWritesOK(w, balance), Start(c, w)
  PROVE  TypeOK' /\ IInv'
<1>1. TypeOK'
  BY StartType
<1>2. /\ request' = request /\ balance' = balance
      /\ call' = [call EXCEPT ![c] = w]
  BY DEF Start
<1>3. RowsBalanced' /\ ApprovedIsCharged'
      /\ \A i \in RequestIds : ApproverOK(request'[i])
  BY <1>2 DEF IInv, RowsBalanced, ApprovedIsCharged, HasStatus
<1>4. \A d \in Calls : call'[d] # Idle => PendingWritesOK(call'[d], balance')
  BY <1>2 DEF IInv, PendingWritesOK, TypeOK
<1>5. QED
  BY <1>1, <1>3, <1>4 DEF IInv

LEMMA CommitInv ==
  ASSUME TypeOK, IInv, NEW c \in Calls, Commit(c)
  PROVE  TypeOK' /\ IInv'
<1> DEFINE w == call[c]
<1>1. TypeOK'
  BY CommitType
<1>2. w \in Writes /\ PendingWritesOK(w, balance)
  BY DEF Commit, TypeOK, IInv
<1>3. \A k \in Keys : balance[k] # NoRow =>
        balance'[k] # NoRow /\ balance'[k].total = balance[k].total
  BY CommitKeepsRows
<1>4. \A i \in RequestIds :
        request'[i] = IF w.req[i] = NoRow THEN request[i] ELSE w.req[i]
  BY DEF Commit, Overlay, TypeOK
<1>5. \A k \in Keys :
        balance'[k] = IF w.ins[k] # NoRow THEN w.ins[k]
                      ELSE IF w.upd[k] # NoRow THEN w.upd[k] ELSE balance[k]
  BY DEF Commit, Overlay, TypeOK
<1>6. RowsBalanced'
  BY <1>2, <1>5 DEF IInv, RowsBalanced, PendingWritesOK, RowBalanced
<1>7. ApprovedIsCharged'
  <2>1. \A k \in Keys : k[2] = Unpaid => balance'[k] = NoRow
    BY <1>2, <1>5 DEF IInv, ApprovedIsCharged, PendingWritesOK
  <2>2. ASSUME NEW i \in RequestIds, ApprovedPaid(request'[i])
        PROVE  balance'[KeyOf(request'[i])] # NoRow
    <3>1. request'[i] \in Request /\ KeyOf(request'[i]) \in Keys
      BY <1>1, <2>2, KeyOfType DEF TypeOK, ApprovedPaid
    <3>2. CASE w.req[i] = NoRow
      <4>1. request'[i] = request[i] /\ HasStatus(i, "APPROVED")
        BY <1>4, <3>2, <2>2 DEF ApprovedPaid, HasStatus
      <4>2. QED
        BY <1>3, <2>2, <3>1, <4>1 DEF IInv, ApprovedIsCharged, ApprovedPaid
    <3>3. CASE w.req[i] # NoRow
      <4>1. request'[i] = w.req[i]
        BY <1>4, <3>3
      <4>2. \/ w.ins[KeyOf(request'[i])] # NoRow
            \/ balance[KeyOf(request'[i])] # NoRow
        BY <1>2, <2>2, <4>1 DEF PendingWritesOK
      <4>3. QED
        BY <1>3, <1>5, <3>1, <4>2
    <3>4. QED
      BY <3>2, <3>3
  <2>3. QED
    BY <2>1, <2>2 DEF ApprovedIsCharged, HasStatus, ApprovedPaid
<1>8. \A i \in RequestIds : ApproverOK(request'[i])
  BY <1>2, <1>4 DEF IInv, PendingWritesOK
<1>9. \A d \in Calls : call'[d] # Idle => PendingWritesOK(call'[d], balance')
  <2> SUFFICES ASSUME NEW d \in Calls, call'[d] # Idle
               PROVE  PendingWritesOK(call'[d], balance')
    OBVIOUS
  <2>1. d # c /\ call'[d] = call[d] /\ call[d] \in Writes
    BY DEF Commit, TypeOK
  <2>2. PendingWritesOK(call[d], balance)
    BY <2>1 DEF IInv
  <2>3. QED
    BY <1>3, <2>1, <2>2, PendingStable
<1>10. QED
  BY <1>1, <1>6, <1>7, <1>8, <1>9 DEF IInv

LEMMA RollbackInv ==
  ASSUME TypeOK, IInv, NEW c \in Calls, Rollback(c)
  PROVE  TypeOK' /\ IInv'
<1>1. /\ request' = request /\ balance' = balance
      /\ call' = [call EXCEPT ![c] = Idle]
  BY DEF Rollback
<1>2. TypeOK'
  BY <1>1 DEF TypeOK
<1>3. \A d \in Calls : call'[d] # Idle => PendingWritesOK(call'[d], balance')
  BY <1>1 DEF IInv, TypeOK
<1>4. QED
  BY <1>1, <1>2, <1>3
  DEF IInv, RowsBalanced, ApprovedIsCharged, HasStatus

LEMMA NextInv == TypeOK /\ IInv /\ [Next]_vars => TypeOK' /\ IInv'
<1> SUFFICES ASSUME TypeOK, IInv, [Next]_vars PROVE TypeOK' /\ IInv'
  OBVIOUS
<1>1. ASSUME NEW id \in RequestIds, NEW e \in Employees, NEW t \in LeaveTypes,
             NEW start \in Dates, NEW end \in Dates,
             ApplyForLeave(id, e, t, start, end)
      PROVE  TypeOK' /\ IInv'
  BY <1>1, ApplyInv
<1>2. ASSUME NEW c \in Calls, NEW id \in RequestIds,
             NEW approve \in BOOLEAN, NEW m \in Managers,
             DecideOnLeaveRequest(c, id, approve, m)
      PROVE  TypeOK' /\ IInv'
  BY <1>2, DecisionOK, StartInv DEF DecideOnLeaveRequest
<1>3. ASSUME NEW c \in Calls, NEW id \in RequestIds, CancelLeave(c, id)
      PROVE  TypeOK' /\ IInv'
  BY <1>3, CancelOK, StartInv DEF CancelLeave
<1>4. ASSUME NEW c \in Calls, NEW id \in RequestIds,
             NEW start \in Dates, NEW end \in Dates,
             ModifyLeaveRequest(c, id, start, end)
      PROVE  TypeOK' /\ IInv'
  BY <1>4, ModifyOK, StartInv DEF ModifyLeaveRequest
<1>5. ASSUME NEW c \in Calls,
             NEW emps \in {{e} : e \in Employees} \cup {Employees},
             NEW year \in Years, SeedLeaveBalances(c, emps, year)
      PROVE  TypeOK' /\ IInv'
  <2>1. emps \in SUBSET Employees
    OBVIOUS
  <2>2. QED
    BY <1>5, <2>1, SeedOK, StartInv DEF SeedLeaveBalances
<1>6. ASSUME NEW c \in Calls, Commit(c) PROVE TypeOK' /\ IInv'
  BY <1>6, CommitInv
<1>7. ASSUME NEW c \in Calls, Rollback(c) PROVE TypeOK' /\ IInv'
  BY <1>7, RollbackInv
<1>8. CASE UNCHANGED vars
  BY <1>8 DEF vars, TypeOK, IInv, RowsBalanced, ApprovedIsCharged, HasStatus
<1>9. QED
  BY <1>1, <1>2, <1>3, <1>4, <1>5, <1>6, <1>7, <1>8 DEF Next

-----------------------------------------------------------------------------
(* The theorems. *)

\* Every table row and every pending write has its type, and every stored
\* request has valid dates, however the calls interleave.
THEOREM TypeCorrect == Spec => []TypeOK
BY InitType, InitInv, NextInv, PTL DEF Spec

\* The inductive invariant holds of every reachable state.
THEOREM Invariance == Spec => []IInv
BY InitType, InitInv, NextInv, PTL DEF Spec

\* However calls overwrite each other's rows, a balance row's remaining days
\* are its total less its used days.
THEOREM RowsStayBalanced == Spec => []RowsBalanced
<1>1. IInv => RowsBalanced
  BY DEF IInv
<1>2. QED
  BY <1>1, Invariance, PTL

\* An approved paid request always has the balance row it was charged to, and
\* unpaid leave never gets one.
THEOREM ApprovedStayCharged == Spec => []ApprovedIsCharged
<1>1. IInv => ApprovedIsCharged
  BY DEF IInv
<1>2. QED
  BY <1>1, Invariance, PTL

\* Status and approver are never mixed from two decisions.
THEOREM ApproverAlwaysMatches == Spec => []ApproverMatchesStatus
<1>1. IInv => ApproverMatchesStatus
  BY DEF IInv, ApproverMatchesStatus, ApproverOK, HasStatus
<1>2. QED
  BY <1>1, Invariance, PTL

\* The total of a balance row never changes and no balance row disappears.
THEOREM TotalsStayFixed == Spec => TotalsFixed
<1>1. ASSUME TypeOK, IInv, [Next]_vars
      PROVE  [\A k \in Keys : balance[k] # NoRow =>
                balance'[k] # NoRow
                  /\ balance'[k].total = balance[k].total]_vars
  <2>1. CASE \E c \in Calls : Commit(c)
    BY <1>1, <2>1, CommitKeepsRows
  <2>2. CASE UNCHANGED balance
    BY <2>2
  <2>3. CASE UNCHANGED vars
    BY <2>3
  <2>4. QED
    BY <1>1, <2>1, <2>2, <2>3
    DEF Next, ApplyForLeave, DecideOnLeaveRequest, CancelLeave,
        ModifyLeaveRequest, SeedLeaveBalances, Start, Rollback
<1>2. QED
  BY <1>1, TypeCorrect, Invariance, PTL DEF Spec, TotalsFixed

-----------------------------------------------------------------------------
(* One call at a time: the transactions implement the atomic tools. *)

\* The helpers LeaveService extends LeaveData with are the same ones.
LEMMA SameHelpers ==
  /\ Service!Keys = Keys
  /\ Service!Years = Years
  /\ Service!LeaveTypes = LeaveTypes
  /\ \A r : Service!KeyOf(r) = KeyOf(r)
  /\ \A r : Service!InclusiveDays(r) = InclusiveDays(r)
  /\ \A r : Service!Cancelled(r) = Cancelled(r)
  /\ \A r, approve, m : Service!Decided(r, approve, m) = Decided(r, approve, m)
  /\ \A r, start, end : Service!Redated(r, start, end) = Redated(r, start, end)
  /\ \A e, t, start, end :
       Service!PendingRow(e, t, start, end) = PendingRow(e, t, start, end)
  /\ \A start, end : Service!ValidDates(start, end) = ValidDates(start, end)
  /\ \A b, days : Service!Charge(b, days) = Charge(b, days)
  /\ \A b, days : Service!Refund(b, days) = Refund(b, days)
  /\ \A t : Service!QuotaRow(t) = QuotaRow(t)
BY DEF Keys, Years, LeaveTypes, YearOf, KeyOf, InclusiveDays, Cancelled,
       Decided, Redated, PendingRow, ValidDates, ZeroRow, WithUsed, Charge,
       Refund, QuotaRow,
       Service!Keys, Service!Years, Service!LeaveTypes, Service!YearOf,
       Service!KeyOf, Service!InclusiveDays, Service!Cancelled,
       Service!Decided, Service!Redated, Service!PendingRow,
       Service!ValidDates, Service!ZeroRow, Service!WithUsed, Service!Charge,
       Service!Refund, Service!QuotaRow

\* w is what some tool would write if it read the tables now.
UpToDate(w) ==
  \/ \E id \in RequestIds, approve \in BOOLEAN, m \in Managers :
       HasStatus(id, "PENDING") /\ w = DecisionWrites(id, approve, m)
  \/ \E id \in RequestIds :
       /\ HasStatus(id, "PENDING") \/ HasStatus(id, "APPROVED")
       /\ w = CancelWrites(id)
  \/ \E id \in RequestIds, start, end \in Dates :
       /\ HasStatus(id, "PENDING") /\ ValidDates(start, end)
       /\ w = ModifyWrites(id, start, end)
  \/ \E emps \in {{e} : e \in Employees} \cup {Employees}, year \in Years :
       w = SeedWrites(emps, year)

SerialInv == OneCall /\ \A c \in Calls : call[c] # Idle => UpToDate(call[c])

\* Writing the rows of w over the tables.
LEMMA OverlayRequest ==
  ASSUME TypeOK, NEW id \in RequestIds, NEW r \in Request, NEW w \in Writes,
         \A i \in RequestIds : w.req[i] = IF i = id THEN r ELSE NoRow
  PROVE  Overlay(w.req, request) = [request EXCEPT ![id] = r]
BY NoRowAssumption DEF Overlay, TypeOK

LEMMA OverlayNothing ==
  ASSUME TypeOK, NEW w \in Writes, w.upd = NoBalances, w.ins = NoBalances
  PROVE  Overlay(w.ins, Overlay(w.upd, balance)) = balance
BY DEF Overlay, NoBalances, TypeOK

LEMMA OverlayBalance ==
  ASSUME TypeOK, NEW key \in Keys, NEW row \in BalanceRow \cup {NoRow},
         balance[key] # NoRow => row # NoRow,
         NEW w \in Writes, w.upd = NoBalances, w.ins = NoBalances
  PROVE  LET v == WithBalance(w, key, row)
         IN  Overlay(v.ins, Overlay(v.upd, balance))
               = [balance EXCEPT ![key] = row]
<1> DEFINE v == WithBalance(w, key, row)
<1>1. CASE balance[key] = NoRow
  <2>1. v = [w EXCEPT !.ins[key] = row]
    BY <1>1 DEF WithBalance
  <2>2. v.upd = NoBalances /\ v.ins = [NoBalances EXCEPT ![key] = row]
    BY <2>1 DEF Writes
  <2>3. QED
    BY <1>1, <2>2 DEF Overlay, NoBalances, TypeOK
<1>2. CASE balance[key] # NoRow /\ row = balance[key]
  <2>1. v = w
    BY <1>2 DEF WithBalance
  <2>2. QED
    BY <1>2, <2>1, OverlayNothing DEF TypeOK
<1>3. CASE balance[key] # NoRow /\ row # balance[key]
  <2>1. v = [w EXCEPT !.upd[key] = row]
    BY <1>3 DEF WithBalance
  <2>2. v.ins = NoBalances /\ v.upd = [NoBalances EXCEPT ![key] = row]
    BY <2>1 DEF Writes
  <2>3. QED
    BY <1>3, <2>2 DEF Overlay, NoBalances, TypeOK
<1>4. QED
  BY <1>1, <1>2, <1>3

LEMMA DecisionStep ==
  ASSUME TypeOK, NEW c \in Calls, Commit(c),
         NEW id \in RequestIds, NEW approve \in BOOLEAN, NEW m \in Managers,
         HasStatus(id, "PENDING"), call[c] = DecisionWrites(id, approve, m)
  PROVE  Service!DecideOnLeaveRequest(id, approve, m)
<1> DEFINE r == request[id]
           d == Decided(r, approve, m)
           w == OnlyRequest(id, d)
           row == Charge(balance[KeyOf(r)], InclusiveDays(r))
<1>1. r \in Request /\ d \in Request
  BY DecidedType DEF TypeOK, HasStatus
<1>2. w \in Writes /\ w.upd = NoBalances /\ w.ins = NoBalances
      /\ \A i \in RequestIds : w.req[i] = IF i = id THEN d ELSE NoRow
  BY <1>1, OnlyRequestOK
<1>3. /\ request' = Overlay(call[c].req, request)
      /\ balance' = Overlay(call[c].ins, Overlay(call[c].upd, balance))
  BY DEF Commit
<1>4. KeyOf(r) \in Keys
  BY <1>1, KeyOfType
<1>5. row \in BalanceRow /\ row # NoRow
  BY <1>1, <1>4, ChargeType, DaysPositive, NoRowAssumption DEF TypeOK
<1>6. CASE approve /\ r.type # Unpaid
  <2>1. call[c] = WithBalance(w, KeyOf(r), row)
    BY <1>6 DEF DecisionWrites, Rebalanced, Charged, BalanceOf
  <2>2. call[c].req = w.req
    BY <1>2, <2>1 DEF WithBalance, Writes
  <2>3. request' = [request EXCEPT ![id] = d]
    BY <1>1, <1>2, <1>3, <2>2, OverlayRequest
  <2>4. balance' = [balance EXCEPT ![KeyOf(r)] = row]
    BY <1>2, <1>3, <1>4, <1>5, <2>1, OverlayBalance
  <2>5. QED
    BY <1>6, <2>3, <2>4, SameHelpers
    DEF Service!DecideOnLeaveRequest, Service!HasStatus, Service!Rebalance,
        Service!Charged, Service!BalanceOf, HasStatus
<1>7. CASE ~(approve /\ r.type # Unpaid)
  <2>1. call[c] = w
    BY <1>7 DEF DecisionWrites, Rebalanced, Charged, BalanceOf
  <2>2. request' = [request EXCEPT ![id] = d]
    BY <1>1, <1>2, <1>3, <2>1, OverlayRequest
  <2>3. balance' = balance
    BY <1>2, <1>3, <2>1, OverlayNothing
  <2>4. QED
    BY <1>7, <2>2, <2>3, SameHelpers
    DEF Service!DecideOnLeaveRequest, Service!HasStatus, Service!Rebalance,
        Service!Charged, Service!BalanceOf, HasStatus
<1>8. QED
  BY <1>6, <1>7

LEMMA CancelStep ==
  ASSUME TypeOK, NEW c \in Calls, Commit(c), NEW id \in RequestIds,
         HasStatus(id, "PENDING") \/ HasStatus(id, "APPROVED"),
         call[c] = CancelWrites(id)
  PROVE  Service!CancelLeave(id)
<1> DEFINE r == request[id]
           d == Cancelled(r)
           w == OnlyRequest(id, d)
           row == Refund(balance[KeyOf(r)], InclusiveDays(r))
<1>1. r \in Request /\ d \in Request
  BY CancelledType DEF TypeOK, HasStatus
<1>2. w \in Writes /\ w.upd = NoBalances /\ w.ins = NoBalances
      /\ \A i \in RequestIds : w.req[i] = IF i = id THEN d ELSE NoRow
  BY <1>1, OnlyRequestOK
<1>3. /\ request' = Overlay(call[c].req, request)
      /\ balance' = Overlay(call[c].ins, Overlay(call[c].upd, balance))
  BY DEF Commit
<1>4. KeyOf(r) \in Keys
  BY <1>1, KeyOfType
<1>5. row \in BalanceRow \cup {NoRow}
      /\ (balance[KeyOf(r)] # NoRow => row # NoRow)
  BY <1>1, <1>4, RefundType, DaysPositive, NoRowAssumption DEF TypeOK
<1>6. CASE HasStatus(id, "APPROVED") /\ r.type # Unpaid
  <2>1. call[c] = WithBalance(w, KeyOf(r), row)
    BY <1>6 DEF CancelWrites, Rebalanced, Refunded, BalanceOf
  <2>2. call[c].req = w.req
    BY <1>2, <2>1 DEF WithBalance, Writes
  <2>3. request' = [request EXCEPT ![id] = d]
    BY <1>1, <1>2, <1>3, <2>2, OverlayRequest
  <2>4. balance' = [balance EXCEPT ![KeyOf(r)] = row]
    BY <1>2, <1>3, <1>4, <1>5, <2>1, OverlayBalance
  <2>5. QED
    BY <1>6, <2>3, <2>4, SameHelpers
    DEF Service!CancelLeave, Service!HasStatus, Service!Rebalance,
        Service!Refunded, Service!BalanceOf, HasStatus
<1>7. CASE ~(HasStatus(id, "APPROVED") /\ r.type # Unpaid)
  <2>1. call[c] = w
    BY <1>7 DEF CancelWrites, Rebalanced, Refunded, BalanceOf
  <2>2. request' = [request EXCEPT ![id] = d]
    BY <1>1, <1>2, <1>3, <2>1, OverlayRequest
  <2>3. balance' = balance
    BY <1>2, <1>3, <2>1, OverlayNothing
  <2>4. QED
    BY <1>7, <2>2, <2>3, SameHelpers
    DEF Service!CancelLeave, Service!HasStatus, Service!Rebalance,
        Service!Refunded, Service!BalanceOf, HasStatus
<1>8. QED
  BY <1>6, <1>7

LEMMA ModifyStep ==
  ASSUME TypeOK, NEW c \in Calls, Commit(c), NEW id \in RequestIds,
         NEW start \in Dates, NEW end \in Dates, HasStatus(id, "PENDING"),
         ValidDates(start, end), call[c] = ModifyWrites(id, start, end)
  PROVE  Service!ModifyLeaveRequest(id, start, end)
<1> DEFINE d == Redated(request[id], start, end)
           w == OnlyRequest(id, d)
<1>1. d \in Request
  BY RedatedType DEF TypeOK, HasStatus
<1>2. w \in Writes /\ w.upd = NoBalances /\ w.ins = NoBalances
      /\ \A i \in RequestIds : w.req[i] = IF i = id THEN d ELSE NoRow
  BY <1>1, OnlyRequestOK
<1>3. call[c] = w
  BY DEF ModifyWrites
<1>4. request' = [request EXCEPT ![id] = d]
  BY <1>1, <1>2, <1>3, OverlayRequest DEF Commit
<1>5. balance' = balance
  BY <1>2, <1>3, OverlayNothing DEF Commit
<1>6. QED
  BY <1>4, <1>5, SameHelpers
  DEF Service!ModifyLeaveRequest, Service!HasStatus, HasStatus

LEMMA SeedStep ==
  ASSUME TypeOK, NEW c \in Calls, Commit(c),
         NEW emps \in SUBSET Employees, NEW year \in Years,
         call[c] = SeedWrites(emps, year)
  PROVE  Service!SeedLeaveBalances(emps, year)
<1>1. call[c].req = NoRequests /\ call[c].upd = NoBalances
      /\ call[c].ins = [k \in Keys |->
           IF k[1] \in emps /\ k[2] # Unpaid /\ k[3] = year
              /\ balance[k] = NoRow
           THEN QuotaRow(k[2]) ELSE NoRow]
  BY DEF SeedWrites
<1>2. request' = request
  BY <1>1 DEF Commit, Overlay, NoRequests, TypeOK
<1>3. \A k \in Keys : k[2] # Unpaid => QuotaRow(k[2]) # NoRow
  BY QuotaRowType, NoRowAssumption DEF Keys, LeaveTypes
<1>4. balance' = [k \in Keys |->
        IF k[1] \in emps /\ k[2] # Unpaid /\ k[3] = year /\ balance[k] = NoRow
        THEN QuotaRow(k[2]) ELSE balance[k]]
  BY <1>1, <1>3 DEF Commit, Overlay, NoBalances, TypeOK
<1>5. QED
  BY <1>2, <1>4, SameHelpers DEF Service!SeedLeaveBalances

\* A commit of an up-to-date call is the step of the tool that started it.
LEMMA CommitStep ==
  ASSUME TypeOK, NEW c \in Calls, Commit(c), UpToDate(call[c])
  PROVE  Service!Next
<1>1. ASSUME NEW id \in RequestIds, NEW approve \in BOOLEAN,
             NEW m \in Managers, HasStatus(id, "PENDING"),
             call[c] = DecisionWrites(id, approve, m)
      PROVE  Service!Next
  BY <1>1, DecisionStep DEF Service!Next
<1>2. ASSUME NEW id \in RequestIds,
             HasStatus(id, "PENDING") \/ HasStatus(id, "APPROVED"),
             call[c] = CancelWrites(id)
      PROVE  Service!Next
  BY <1>2, CancelStep DEF Service!Next
<1>3. ASSUME NEW id \in RequestIds, NEW start \in Dates, NEW end \in Dates,
             HasStatus(id, "PENDING"), ValidDates(start, end),
             call[c] = ModifyWrites(id, start, end)
      PROVE  Service!Next
  BY <1>3, ModifyStep DEF Service!Next
<1>4. ASSUME NEW emps \in {{e} : e \in Employees} \cup {Employees},
             NEW year \in Years, call[c] = SeedWrites(emps, year)
      PROVE  Service!Next
  <2>1. emps \in SUBSET Employees
    OBVIOUS
  <2>2. Service!SeedLeaveBalances(emps, year)
    BY <1>4, <2>1, SeedStep
  <2>3. QED
    BY <2>2, SameHelpers DEF Service!Next
<1>5. QED
  BY <1>1, <1>2, <1>3, <1>4 DEF UpToDate

\* What a tool is going to write depends on the request it found and on the
\* balances alone.
LEMMA WritesStable ==
  ASSUME \A i \in RequestIds : request[i] # NoRow => request'[i] = request[i],
         balance' = balance
  PROVE  /\ \A id \in RequestIds : \A approve, m, start, end :
              request[id] # NoRow =>
                /\ DecisionWrites(id, approve, m)'
                     = DecisionWrites(id, approve, m)
                /\ CancelWrites(id)' = CancelWrites(id)
                /\ ModifyWrites(id, start, end)' = ModifyWrites(id, start, end)
         /\ \A id \in RequestIds : \A s :
              HasStatus(id, s) => HasStatus(id, s)' /\ request[id] # NoRow
         /\ \A emps, year : SeedWrites(emps, year)' = SeedWrites(emps, year)
BY DEF DecisionWrites, CancelWrites, ModifyWrites, SeedWrites,
       Rebalanced, WithBalance, Charged, Refunded, BalanceOf, HasStatus

LEMMA UpToDateStable ==
  ASSUME \A i \in RequestIds : request[i] # NoRow => request'[i] = request[i],
         balance' = balance,
         NEW c \in Calls, call'[c] = call[c], UpToDate(call[c])
  PROVE  UpToDate(call[c])'
<1>1. CASE \E id \in RequestIds, approve \in BOOLEAN, m \in Managers :
             /\ HasStatus(id, "PENDING")
             /\ call[c] = DecisionWrites(id, approve, m)
  BY <1>1, WritesStable DEF UpToDate
<1>2. CASE \E id \in RequestIds :
             /\ HasStatus(id, "PENDING") \/ HasStatus(id, "APPROVED")
             /\ call[c] = CancelWrites(id)
  BY <1>2, WritesStable DEF UpToDate
<1>3. CASE \E id \in RequestIds, start, end \in Dates :
             /\ HasStatus(id, "PENDING") /\ ValidDates(start, end)
             /\ call[c] = ModifyWrites(id, start, end)
  BY <1>3, WritesStable DEF UpToDate, ValidDates
<1>4. CASE \E emps \in {{e} : e \in Employees} \cup {Employees},
              year \in Years : call[c] = SeedWrites(emps, year)
  BY <1>4, WritesStable DEF UpToDate
<1>5. QED
  BY <1>1, <1>2, <1>3, <1>4 DEF UpToDate

\* A tool's first step leaves its call up to date.
LEMMA StartUpToDate ==
  ASSUME TypeOK, NEW c \in Calls, UpToDate(call'[c]),
         request' = request, balance' = balance
  PROVE  UpToDate(call[c])'
<1>1. CASE \E id \in RequestIds, approve \in BOOLEAN, m \in Managers :
             /\ HasStatus(id, "PENDING")
             /\ call'[c] = DecisionWrites(id, approve, m)
  BY <1>1, WritesStable DEF UpToDate
<1>2. CASE \E id \in RequestIds :
             /\ HasStatus(id, "PENDING") \/ HasStatus(id, "APPROVED")
             /\ call'[c] = CancelWrites(id)
  BY <1>2, WritesStable DEF UpToDate
<1>3. CASE \E id \in RequestIds, start, end \in Dates :
             /\ HasStatus(id, "PENDING") /\ ValidDates(start, end)
             /\ call'[c] = ModifyWrites(id, start, end)
  BY <1>3, WritesStable DEF UpToDate, ValidDates
<1>4. CASE \E emps \in {{e} : e \in Employees} \cup {Employees},
              year \in Years : call'[c] = SeedWrites(emps, year)
  BY <1>4, WritesStable DEF UpToDate
<1>5. QED
  BY <1>1, <1>2, <1>3, <1>4 DEF UpToDate

LEMMA SerialStep ==
  ASSUME TypeOK, SerialInv, Next, OneCall'
  PROVE  SerialInv' /\ [Service!Next]_Service!vars
<1>1. ASSUME NEW c \in Calls, NEW w, Start(c, w), UpToDate(w)
      PROVE  SerialInv' /\ [Service!Next]_Service!vars
  <2>1. /\ request' = request /\ balance' = balance
        /\ \A d \in Calls : call'[d] = IF d = c THEN w ELSE call[d]
    BY <1>1 DEF Start, TypeOK
  <2>2. UpToDate(call[c])'
    BY <1>1, <2>1, StartUpToDate
  <2>3. ASSUME NEW d \in Calls, call'[d] # Idle, d # c
        PROVE  UpToDate(call[d])'
    BY <2>1, <2>3, UpToDateStable DEF SerialInv
  <2>4. QED
    BY <2>1, <2>2, <2>3 DEF SerialInv, Service!vars
<1>2. ASSUME NEW id \in RequestIds, NEW e \in Employees, NEW t \in LeaveTypes,
             NEW start \in Dates, NEW end \in Dates,
             ApplyForLeave(id, e, t, start, end)
      PROVE  SerialInv' /\ [Service!Next]_Service!vars
  <2>1. /\ \A i \in RequestIds : request[i] # NoRow => request'[i] = request[i]
        /\ balance' = balance /\ call' = call
    BY <1>2 DEF ApplyForLeave, TypeOK
  <2>2. SerialInv'
    BY <2>1, UpToDateStable DEF SerialInv
  <2>3. Service!ApplyForLeave(id, e, t, start, end)
    BY <1>2, SameHelpers DEF ApplyForLeave, Service!ApplyForLeave
  <2>4. QED
    BY <2>2, <2>3, SameHelpers DEF Service!Next
<1>3. ASSUME NEW c \in Calls, Commit(c)
      PROVE  SerialInv' /\ [Service!Next]_Service!vars
  <2>1. SerialInv'
    BY <1>3 DEF SerialInv, OneCall, Commit, TypeOK
  <2>2. UpToDate(call[c])
    BY <1>3 DEF SerialInv, Commit
  <2>3. QED
    BY <1>3, <2>1, <2>2, CommitStep
<1>4. ASSUME NEW c \in Calls, Rollback(c)
      PROVE  SerialInv' /\ [Service!Next]_Service!vars
  BY <1>4 DEF SerialInv, OneCall, Rollback, TypeOK, Service!vars
<1>6. ASSUME NEW c \in Calls, NEW id \in RequestIds,
             NEW approve \in BOOLEAN, NEW m \in Managers,
             DecideOnLeaveRequest(c, id, approve, m)
      PROVE  SerialInv' /\ [Service!Next]_Service!vars
  <2>1. UpToDate(DecisionWrites(id, approve, m))
    BY <1>6 DEF DecideOnLeaveRequest, UpToDate
  <2>2. QED
    BY <1>1, <1>6, <2>1 DEF DecideOnLeaveRequest
<1>7. ASSUME NEW c \in Calls, NEW id \in RequestIds, CancelLeave(c, id)
      PROVE  SerialInv' /\ [Service!Next]_Service!vars
  <2>1. UpToDate(CancelWrites(id))
    BY <1>7 DEF CancelLeave, UpToDate
  <2>2. QED
    BY <1>1, <1>7, <2>1 DEF CancelLeave
<1>8. ASSUME NEW c \in Calls, NEW id \in RequestIds,
             NEW start \in Dates, NEW end \in Dates,
             ModifyLeaveRequest(c, id, start, end)
      PROVE  SerialInv' /\ [Service!Next]_Service!vars
  <2>1. UpToDate(ModifyWrites(id, start, end))
    BY <1>8 DEF ModifyLeaveRequest, UpToDate
  <2>2. QED
    BY <1>1, <1>8, <2>1 DEF ModifyLeaveRequest
<1>9. ASSUME NEW c \in Calls,
             NEW emps \in {{e} : e \in Employees} \cup {Employees},
             NEW year \in Years, SeedLeaveBalances(c, emps, year)
      PROVE  SerialInv' /\ [Service!Next]_Service!vars
  <2>1. UpToDate(SeedWrites(emps, year))
    BY DEF UpToDate
  <2>2. QED
    BY <1>1, <1>9, <2>1 DEF SeedLeaveBalances
<1>10. QED
  BY <1>2, <1>3, <1>4, <1>6, <1>7, <1>8, <1>9 DEF Next

LEMMA SerialStutter ==
  ASSUME SerialInv, UNCHANGED vars
  PROVE  SerialInv' /\ UNCHANGED Service!vars
BY UpToDateStable DEF SerialInv, OneCall, vars, Service!vars

LEMMA SerialInit == Init => SerialInv /\ Service!Init
  BY SameHelpers DEF Init, SerialInv, OneCall, Service!Init

\* When calls do not overlap, every behaviour of the transactions, roll-backs
\* included, is a behaviour of the atomic tools of LeaveService.
THEOREM SerialImplementsService == SerialSpec => ImplementsService
<1>1. Init => TypeOK /\ IInv /\ SerialInv /\ Service!Init
  BY InitType, InitInv, SerialInit
<1>2. TypeOK /\ IInv /\ SerialInv /\ [Next /\ OneCall']_vars
        => (TypeOK /\ IInv /\ SerialInv)' /\ [Service!Next]_Service!vars
  BY NextInv, SerialStep, SerialStutter
<1>3. QED
  BY <1>1, <1>2, PTL DEF SerialSpec, ImplementsService, Service!Spec
-----------------------------------------------------------------------------
(* What LeaveServiceProofs proves of the atomic tools holds of calls that   *)
(* do not overlap.                                                          *)

Ledger == INSTANCE LeaveServiceProofs

LEMMA LedgerStep ==
  [Service!Next]_Service!vars => [Ledger!Next]_Ledger!vars
BY
   DEF Service!Keys, Service!Years, Service!LeaveTypes, Service!YearOf,
       Service!KeyOf, Service!InclusiveDays, Service!Cancelled,
       Service!Decided, Service!Redated, Service!PendingRow,
       Service!ValidDates, Service!ZeroRow, Service!WithUsed, Service!Charge,
       Service!Refund, Service!QuotaRow, Service!Next, Service!ApplyForLeave,
       Service!DecideOnLeaveRequest, Service!CancelLeave,
       Service!ModifyLeaveRequest, Service!SeedLeaveBalances,
       Service!Rebalance, Service!HasStatus, Service!Charged,
       Service!Refunded, Service!BalanceOf, Service!vars, Ledger!Keys,
       Ledger!Years, Ledger!LeaveTypes, Ledger!YearOf, Ledger!KeyOf,
       Ledger!InclusiveDays, Ledger!Cancelled, Ledger!Decided, Ledger!Redated,
       Ledger!PendingRow, Ledger!ValidDates, Ledger!ZeroRow, Ledger!WithUsed,
       Ledger!Charge, Ledger!Refund, Ledger!QuotaRow, Ledger!Next,
       Ledger!ApplyForLeave, Ledger!DecideOnLeaveRequest, Ledger!CancelLeave,
       Ledger!ModifyLeaveRequest, Ledger!SeedLeaveBalances, Ledger!Rebalance,
       Ledger!HasStatus, Ledger!Charged, Ledger!Refunded, Ledger!BalanceOf,
       Ledger!vars

LEMMA LedgerIsSame ==
  Ledger!LedgerExact =>
    \A k \in Keys : balance[k] # NoRow =>
      balance[k].used = ApprovedDays(request, k)
BY DEF Ledger!LedgerExact, Ledger!Keys, Ledger!LeaveTypes, Ledger!Years,
       Ledger!YearOf, Ledger!ApprovedDays, Ledger!ApprovedOn, Ledger!KeyOf,
       Ledger!DaysOf, Ledger!InclusiveDays, Ledger!MapThenSumSet,
       Ledger!MapThenFoldSet,
       Keys, LeaveTypes, Years, YearOf, ApprovedDays, ApprovedOn, KeyOf,
       DaysOf, InclusiveDays, MapThenSumSet, MapThenFoldSet

\* Calls that do not overlap keep the ledger: once no call is in progress, the
\* used days of a balance are the days of the approved requests, wherever calls
\* failed.  (Calls that overlap break it: applyLeaveToBalance takes no lock.)
THEOREM SerialLedgerExact == SerialSpec => []QuietLedgerExact
<1>1. Service!Init => Ledger!Init
  BY DEF Service!Init, Service!Keys, Service!LeaveTypes, Service!Years,
         Service!YearOf, Ledger!Init, Ledger!Keys, Ledger!LeaveTypes,
         Ledger!Years, Ledger!YearOf
<1>2. Ledger!LedgerExact => QuietLedgerExact
  BY LedgerIsSame DEF QuietLedgerExact
<1>3. Ledger!Spec => []Ledger!LedgerExact
  BY Ledger!LedgerStaysExact, DatesAssumption, QuotaAssumption,
     UnpaidAssumption, ManagerAssumption, NoRowAssumption
  DEF Statuses, LeaveTypes, Request, BalanceRow, Ledger!Statuses,
      Ledger!LeaveTypes, Ledger!Request, Ledger!BalanceRow
<1>4. QED
  BY <1>1, <1>2, <1>3, LedgerStep, SerialImplementsService, PTL
  DEF ImplementsService, Service!Spec, Ledger!Spec

-----------------------------------------------------------------------------
(* The same of the behaviours of MCLeaveTools: of those that are alone the  *)
(* tables are those of LeaveService, of the others empty tables are.        *)

LEMMA AloneHelpers ==
  /\ Alone!Keys = Keys
  /\ Alone!Years = Years
  /\ Alone!LeaveTypes = LeaveTypes
  /\ \A r : Alone!KeyOf(r) = KeyOf(r)
  /\ \A r : Alone!InclusiveDays(r) = InclusiveDays(r)
  /\ \A r : Alone!Cancelled(r) = Cancelled(r)
  /\ \A r, approve, m : Alone!Decided(r, approve, m) = Decided(r, approve, m)
  /\ \A r, start, end : Alone!Redated(r, start, end) = Redated(r, start, end)
  /\ \A e, t, start, end :
       Alone!PendingRow(e, t, start, end) = PendingRow(e, t, start, end)
  /\ \A start, end : Alone!ValidDates(start, end) = ValidDates(start, end)
  /\ \A b, days : Alone!Charge(b, days) = Charge(b, days)
  /\ \A b, days : Alone!Refund(b, days) = Refund(b, days)
  /\ \A t : Alone!QuotaRow(t) = QuotaRow(t)
BY DEF Keys, Years, LeaveTypes, YearOf, KeyOf, InclusiveDays, Cancelled,
       Decided, Redated, PendingRow, ValidDates, ZeroRow, WithUsed, Charge,
       Refund, QuotaRow,
       Alone!Keys, Alone!Years, Alone!LeaveTypes, Alone!YearOf, Alone!KeyOf,
       Alone!InclusiveDays, Alone!Cancelled, Alone!Decided, Alone!Redated,
       Alone!PendingRow, Alone!ValidDates, Alone!ZeroRow, Alone!WithUsed,
       Alone!Charge, Alone!Refund, Alone!QuotaRow

LEMMA AloneStep ==
  ASSUME alone, alone', [Service!Next]_Service!vars
  PROVE  [Alone!Next]_Alone!vars
<1>1. CASE UNCHANGED Service!vars
  BY <1>1 DEF Service!vars, Alone!vars, NoRequests, NoBalances
<1>2. ASSUME NEW id \in RequestIds, NEW e \in Employees, NEW t \in LeaveTypes,
             NEW start \in Dates, NEW end \in Dates,
             Service!ApplyForLeave(id, e, t, start, end)
      PROVE  Alone!Next
  <2>1. Alone!ApplyForLeave(id, e, t, start, end)
    BY <1>2, SameHelpers, AloneHelpers
    DEF Service!ApplyForLeave, Alone!ApplyForLeave
  <2>2. QED
    BY <2>1, AloneHelpers DEF Alone!Next
<1>3. ASSUME NEW id \in RequestIds, NEW approve \in BOOLEAN,
             NEW m \in Managers,
             Service!DecideOnLeaveRequest(id, approve, m)
      PROVE  Alone!Next
  <2>1. Alone!DecideOnLeaveRequest(id, approve, m)
    BY <1>3, SameHelpers, AloneHelpers
    DEF Service!DecideOnLeaveRequest, Service!HasStatus, Service!Rebalance,
        Service!Charged, Service!BalanceOf, Alone!DecideOnLeaveRequest,
        Alone!HasStatus, Alone!Rebalance, Alone!Charged, Alone!BalanceOf
  <2>2. QED
    BY <2>1 DEF Alone!Next
<1>4. ASSUME NEW id \in RequestIds, Service!CancelLeave(id)
      PROVE  Alone!Next
  <2>1. Alone!CancelLeave(id)
    BY <1>4, SameHelpers, AloneHelpers
    DEF Service!CancelLeave, Service!HasStatus, Service!Rebalance,
        Service!Refunded, Service!BalanceOf, Alone!CancelLeave,
        Alone!HasStatus, Alone!Rebalance, Alone!Refunded, Alone!BalanceOf
  <2>2. QED
    BY <2>1 DEF Alone!Next
<1>5. ASSUME NEW id \in RequestIds, NEW start \in Dates, NEW end \in Dates,
             Service!ModifyLeaveRequest(id, start, end)
      PROVE  Alone!Next
  <2>1. Alone!ModifyLeaveRequest(id, start, end)
    BY <1>5, SameHelpers, AloneHelpers
    DEF Service!ModifyLeaveRequest, Service!HasStatus,
        Alone!ModifyLeaveRequest, Alone!HasStatus
  <2>2. QED
    BY <2>1 DEF Alone!Next
<1>6. ASSUME NEW emps \in {{e} : e \in Employees} \cup {Employees},
             NEW year \in Years, Service!SeedLeaveBalances(emps, year)
      PROVE  Alone!Next
  <2>1. Alone!SeedLeaveBalances(emps, year)
    BY <1>6, SameHelpers, AloneHelpers
    DEF Service!SeedLeaveBalances, Alone!SeedLeaveBalances
  <2>2. QED
    BY <2>1, AloneHelpers DEF Alone!Next
<1>7. QED
  BY <1>1, <1>2, <1>3, <1>4, <1>5, <1>6, SameHelpers DEF Service!Next

LEMMA OverlappingStep ==
  ASSUME alone = FALSE, alone' = alone
  PROVE  UNCHANGED Alone!vars
BY DEF Alone!vars, NoRequests, NoBalances

LEMMA AloneInit == MCInit => Alone!Init
BY SerialInit, SameHelpers
   DEF MCInit, Init, Alone!Init, Alone!Keys, Alone!LeaveTypes, Alone!Years,
       Alone!YearOf, Keys, LeaveTypes, Years, YearOf, NoRequests, NoBalances

\* The property AloneImplementsService, for any constants.
THEOREM AloneAreAtomic == MCSpec => AloneImplementsService
<1> DEFINE Inv == /\ TypeOK /\ IInv /\ alone \in BOOLEAN
                  /\ alone => SerialInv
<1>1. MCInit => Inv /\ Alone!Init
  BY InitType, InitInv, SerialInit, AloneInit DEF MCInit
<1>2. Inv /\ [MCNext]_<<vars, alone>> => Inv' /\ [Alone!Next]_Alone!vars
  <2> SUFFICES ASSUME Inv, [MCNext]_<<vars, alone>>
               PROVE  Inv' /\ [Alone!Next]_Alone!vars
    OBVIOUS
  <2>1. [Next]_vars /\ alone' = alone /\ (alone => OneCall' \/ UNCHANGED vars)
    BY DEF MCNext
  <2>2. TypeOK' /\ IInv' /\ alone' \in BOOLEAN
    BY <2>1, NextInv
  <2>3. CASE alone
    <3>1. SerialInv' /\ [Service!Next]_Service!vars
      BY <2>1, <2>3, SerialStep, SerialStutter
    <3>2. QED
      BY <2>1, <2>2, <2>3, <3>1, AloneStep
  <2>4. CASE ~alone
    BY <2>1, <2>2, <2>4, OverlappingStep
  <2>5. QED
    BY <2>3, <2>4
<1>3. QED
  BY <1>1, <1>2, PTL DEF MCSpec, AloneImplementsService, Alone!Spec
=============================================================================
