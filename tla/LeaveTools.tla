----------------------------- MODULE LeaveTools -----------------------------
(***************************************************************************)
(* The Leave tools of the MCP server as they run: several agents call them *)
(* at the same time, and every call is a database transaction.  A call     *)
(* reads a snapshot (MySQL's default REPEATABLE READ; no row is locked and *)
(* no entity has a @Version), computes whole rows from it, and writes them *)
(* at commit, over whatever is there by then.  An UPDATE always goes       *)
(* through; an INSERT of a balance row fails on the unique key when the    *)
(* row exists by then, and rolls the whole call back.                      *)
(*                                                                         *)
(* A call is two steps: the step of its tool, which reads and decides, and *)
(* Commit.  Rollback is a lost connection, a lock timeout or a crash of    *)
(* the server before the commit.                                           *)
(***************************************************************************)
EXTENDS LeaveData

CONSTANTS
  Calls,   \* tool calls that may be in progress at the same time
  Idle,    \* no call in progress
  MaxUsed  \* bound: no approval brings a balance's used days above it

VARIABLES
  request,   \* leave_request, by primary key
  balance,   \* leave_balance, by its unique key
  call       \* what each call in progress is going to write

vars == <<request, balance, call>>

(* The pending writes of a call; NoRow where it writes nothing. *)
Writes ==
  [req : [RequestIds -> Request \cup {NoRow}],      \* UPDATE leave_request
   upd : [Keys -> BalanceRow \cup {NoRow}],         \* UPDATE leave_balance
   ins : [Keys -> BalanceRow \cup {NoRow}]]         \* INSERT leave_balance

ASSUME IdleAssumption == Idle \notin Writes

TypeOK ==
  /\ request \in [RequestIds -> Request \cup {NoRow}]
  /\ balance \in [Keys -> BalanceRow \cup {NoRow}]
  /\ call \in [Calls -> Writes \cup {Idle}]

Init ==
  /\ request = [i \in RequestIds |-> NoRow]
  /\ balance = [k \in Keys |-> NoRow]
  /\ call = [c \in Calls |-> Idle]

-----------------------------------------------------------------------------
(* What the tools write, computed from the tables as they are when read. *)

HasStatus(id, status) == request[id] # NoRow /\ request[id].status = status

NoRequests == [i \in RequestIds |-> NoRow]
NoBalances == [k \in Keys |-> NoRow]

OnlyRequest(id, row) ==
  [req |-> [NoRequests EXCEPT ![id] = row],
   upd |-> NoBalances, ins |-> NoBalances]

\* Wrong on purpose: a missing balance row is skipped, not created.
WithBalanceIfPresent(w, key, row) ==
  IF balance[key] = NoRow THEN w ELSE [w EXCEPT !.upd[key] = row]

\* Hibernate writes a managed row only when it differs from the one read.
WithBalance(w, key, row) ==
  IF balance[key] = NoRow THEN [w EXCEPT !.ins[key] = row]
  ELSE IF row = balance[key] THEN w
  ELSE [w EXCEPT !.upd[key] = row]

\* The balance row a request is charged to, and writing it: unpaid leave has
\* none.
BalanceOf(id) == balance[KeyOf(request[id])]

Rebalanced(id, w, row) ==
  IF request[id].type = Unpaid THEN w
  ELSE WithBalance(w, KeyOf(request[id]), row)

Charged(id) == Charge(BalanceOf(id), InclusiveDays(request[id]))

Refunded(id) == Refund(BalanceOf(id), InclusiveDays(request[id]))

DecisionWrites(id, approve, m) ==
  LET w == OnlyRequest(id, Decided(request[id], approve, m))
  IN  IF approve THEN Rebalanced(id, w, Charged(id)) ELSE w

\* Wrong on purpose: a pending request is refunded as well.
RefundAlways(id) ==
  Rebalanced(id, OnlyRequest(id, Cancelled(request[id])), Refunded(id))

CancelWrites(id) ==
  LET w == OnlyRequest(id, Cancelled(request[id]))
  IN  IF HasStatus(id, "APPROVED") THEN Rebalanced(id, w, Refunded(id)) ELSE w

ModifyWrites(id, start, end) ==
  OnlyRequest(id, Redated(request[id], start, end))

SeedWrites(emps, year) ==
  [req |-> NoRequests,
   upd |-> NoBalances,
   ins |-> [k \in Keys |->
     IF k[1] \in emps /\ k[2] # Unpaid /\ k[3] = year /\ balance[k] = NoRow
     THEN QuotaRow(k[2]) ELSE NoRow]]

-----------------------------------------------------------------------------
(* The tools. *)

Start(c, writes) ==
  /\ call[c] = Idle
  /\ call' = [call EXCEPT ![c] = writes]
  /\ UNCHANGED <<request, balance>>

\* Reads nothing and inserts one row under a fresh key: a single step.
ApplyForLeave(id, e, t, start, end) ==
  /\ request[id] = NoRow
  /\ ValidDates(start, end)
  /\ request' = [request EXCEPT ![id] = PendingRow(e, t, start, end)]
  /\ UNCHANGED <<balance, call>>

DecideOnLeaveRequest(c, id, approve, m) ==
  /\ HasStatus(id, "PENDING")
  /\ \A k \in Keys : LET row == DecisionWrites(id, approve, m).upd[k]
                    IN  row # NoRow => row.used <= MaxUsed
  /\ Start(c, DecisionWrites(id, approve, m))

CancelLeave(c, id) ==
  /\ HasStatus(id, "PENDING") \/ HasStatus(id, "APPROVED")
  /\ Start(c, CancelWrites(id))

\* Not @Transactional: the row is read in one transaction, detached, and
\* merged back by save in another, which overwrites the row all the same.
ModifyLeaveRequest(c, id, start, end) ==
  /\ HasStatus(id, "PENDING")
  /\ ValidDates(start, end)
  /\ Start(c, ModifyWrites(id, start, end))

SeedLeaveBalances(c, emps, year) == Start(c, SeedWrites(emps, year))

\* Wrong on purpose: leave_balance without its unique constraint.
CommitUnchecked(c) ==
  /\ call[c] # Idle
  /\ request' = Overlay(call[c].req, request)
  /\ balance' = Overlay(call[c].ins, Overlay(call[c].upd, balance))
  /\ call' = [call EXCEPT ![c] = Idle]

\* The flush and the commit.
Commit(c) ==
  /\ call[c] # Idle
  /\ \A k \in Keys : call[c].ins[k] = NoRow \/ balance[k] = NoRow
  /\ request' = Overlay(call[c].req, request)
  /\ balance' = Overlay(call[c].ins, Overlay(call[c].upd, balance))
  /\ call' = [call EXCEPT ![c] = Idle]

\* The call throws: a duplicate key, a lost connection, a crash.
Rollback(c) ==
  /\ call[c] # Idle
  /\ call' = [call EXCEPT ![c] = Idle]
  /\ UNCHANGED <<request, balance>>

Next ==
  \/ \E id \in RequestIds, e \in Employees, t \in LeaveTypes,
        start, end \in Dates : ApplyForLeave(id, e, t, start, end)
  \/ \E c \in Calls :
       \/ \E id \in RequestIds, approve \in BOOLEAN, m \in Managers :
            DecideOnLeaveRequest(c, id, approve, m)
       \/ \E id \in RequestIds : CancelLeave(c, id)
       \/ \E id \in RequestIds, start, end \in Dates :
            ModifyLeaveRequest(c, id, start, end)
       \/ \E emps \in {{e} : e \in Employees} \cup {Employees},
             year \in Years : SeedLeaveBalances(c, emps, year)
       \/ Commit(c)
       \/ Rollback(c)

Spec == Init /\ [][Next]_vars

\* Calls that do not overlap; they may fail all the same.
OneCall == \A c, d \in Calls : call[c] # Idle /\ call[d] # Idle => c = d

SerialSpec == Init /\ [][Next /\ OneCall']_vars

-----------------------------------------------------------------------------
(* Properties that survive every interleaving of the calls. *)

\* However calls overwrite each other, a balance row is never in disagreement
\* with itself: what remains is the total less what was used.
RowsBalanced ==
  \A k \in Keys :
    balance[k] # NoRow =>
      balance[k].remaining = balance[k].total - balance[k].used

\* Whatever two decisions, a cancellation and a modification of one request
\* overwrite of each other, an approved paid request has a balance row for
\* the employee, type and start year it shows, and unpaid leave has none.
ApprovedIsCharged ==
  /\ \A id \in RequestIds :
       HasStatus(id, "APPROVED") /\ request[id].type # Unpaid
         => balance[KeyOf(request[id])] # NoRow
  /\ \A k \in Keys : k[2] = Unpaid => balance[k] = NoRow

\* Status and approver come from the same decision: a pending request names
\* no manager, a decided one does, whichever of two racing calls wrote last.
ApproverMatchesStatus ==
  \A id \in RequestIds :
    /\ HasStatus(id, "PENDING") => request[id].approver = NoManager
    /\ HasStatus(id, "APPROVED") \/ HasStatus(id, "REJECTED")
         => request[id].approver \in Managers

\* The total a row was created with is never changed again: a call that
\* overwrites a balance row from an old snapshot, or a seeding that races
\* the first approval, loses used days but never changes the quota.
TotalsFixed ==
  [][\A k \in Keys : balance[k] # NoRow =>
       balance'[k] # NoRow /\ balance'[k].total = balance[k].total]_vars

\* Where calls do not overlap, every behaviour of the transactions is a
\* behaviour of the atomic tools: a commit is the step of its tool, reading
\* and rolling back change nothing.
Service == INSTANCE LeaveService

ImplementsService == Service!Spec

-----------------------------------------------------------------------------
(* The inductive invariant behind the properties above: the rows a call in *)
(* progress is about to write have, already, what the tables must have.    *)

RowBalanced(b) == b # NoRow => b.remaining = b.total - b.used

ApproverOK(r) ==
  r # NoRow =>
    /\ r.status = "PENDING" => r.approver = NoManager
    /\ r.status \in {"APPROVED", "REJECTED"} => r.approver \in Managers

ApprovedPaid(r) == r # NoRow /\ r.status = "APPROVED" /\ r.type # Unpaid

PendingWritesOK(w, table) ==
  /\ \A id \in RequestIds :
       /\ ApproverOK(w.req[id])
       /\ ApprovedPaid(w.req[id]) =>
            \/ w.ins[KeyOf(w.req[id])] # NoRow
            \/ table[KeyOf(w.req[id])] # NoRow
  /\ \A k \in Keys :
       /\ RowBalanced(w.upd[k]) /\ RowBalanced(w.ins[k])
       /\ k[2] = Unpaid => w.upd[k] = NoRow /\ w.ins[k] = NoRow
       /\ w.upd[k] # NoRow =>
            table[k] # NoRow /\ w.upd[k].total = table[k].total

IInv ==
  /\ RowsBalanced
  /\ ApprovedIsCharged
  /\ \A id \in RequestIds : ApproverOK(request[id])
  /\ \A c \in Calls : call[c] # Idle => PendingWritesOK(call[c], balance)

-----------------------------------------------------------------------------
(* What the code says of itself and overlapping calls break. *)

\* "Applies approved leave to the employee's balance row"
\* (LeaveTools.java:937): once no call is in progress, the used days are the
\* days of the approved requests.
QuietLedgerExact ==
  (\A c \in Calls : call[c] = Idle) =>
    \A k \in Keys : balance[k] # NoRow =>
      balance[k].used = ApprovedDays(request, k)
=============================================================================
