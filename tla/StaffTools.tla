----------------------------- MODULE StaffTools -----------------------------
(***************************************************************************)
(* The employee, HR and payroll tools of the MCP server: EmployeeTools,    *)
(* HrTools and PayrollTools over the tables employee, hr and payroll.      *)
(*                                                                         *)
(* None of these tools is @Transactional: every repository call is a       *)
(* transaction of its own.  A tool reads an employee or a slip, gets a     *)
(* detached object, changes a field and saves the whole object back, over  *)
(* whatever the row is by then; recordPromotion, recordTransfer and        *)
(* recordExit then go on to further tables.  A call in progress is a       *)
(* record with the step it is at.  Several calls run at the same time, and *)
(* a call may fail between any two steps, leaving what it wrote.           *)
(*                                                                         *)
(* Calls start with the row they need already read (the read itself        *)
(* changes nothing); a call whose row is missing throws and is not a step. *)
(***************************************************************************)
EXTENDS Integers, FiniteSets

CONSTANTS
  Employees,   \* ids the employee table may hand out
  Months,      \* the (month, year) pairs of slips and events
  Titles,      \* departments and designations
  Emails,      \* work e-mail addresses
  Salaries,    \* basicSalary + allowances, per call
  Rates,       \* perDayRate, per call
  MaxUnpaid,   \* bound: unpaid days of one month
  Calls,       \* tool calls in progress at the same time
  Idle,        \* no call in progress
  Null         \* no such row, no such argument

ASSUME SalaryAssumption == Salaries \subseteq Nat /\ Rates \subseteq Nat
ASSUME UnpaidAssumption == MaxUnpaid \in Nat

VARIABLES
  employee,  \* employee, by primary key
  slip,      \* payroll, by its unique key (employeeId, month, year)
  event,     \* hr: the kinds of lifecycle events logged
  unpaid,    \* getUnpaidLeaveDaysForMonth, changed by the leave tools
  call,      \* the calls in progress
  recreated  \* those createEmployee saved over since their exit (history)

vars == <<employee, recreated, slip, event, unpaid, call>>

EmployeeRow ==
  [status : {"ACTIVE", "TERMINATED"}, dept : Titles, title : Titles,
   email : Emails]

Slip ==
  [pay : Nat, deduction : Nat, net : Int, status : {"GENERATED", "PAID"}]

Event ==
  [emp : Employees, month : Months,
   type : {"ONBOARDING", "PROMOTION", "TRANSFER", "EXIT"}]

SlipKeys == Employees \X Months

\* What a call has left to do: row and slip are the detached objects it will
\* save, insert says that no slip was found.
Call ==
  [op : {"create", "update", "promote", "transfer", "exit", "generate",
         "pay"},
   at : {"saveEmployee", "countUnpaid", "findSlip", "saveSlip", "saveEvent"},
   emp : Employees, month : Months \cup {Null},
   pay : Salaries \cup {Null}, rate : Rates \cup {Null},
   row : EmployeeRow \cup {Null}, slip : Slip \cup {Null},
   insert : BOOLEAN]

ASSUME RowAssumption ==
  Null \notin EmployeeRow /\ Null \notin Slip /\ Idle \notin Call

TypeOK ==
  /\ employee \in [Employees -> EmployeeRow \cup {Null}]
  /\ slip \in [SlipKeys -> Slip \cup {Null}]
  /\ event \subseteq Event
  /\ unpaid \in [SlipKeys -> 0 .. MaxUnpaid]
  /\ call \in [Calls -> Call \cup {Idle}]
  /\ recreated \subseteq Employees

Init ==
  /\ employee = [e \in Employees |-> Null]
  /\ slip = [k \in SlipKeys |-> Null]
  /\ event = {}
  /\ unpaid = [k \in SlipKeys |-> 0]
  /\ call = [c \in Calls |-> Idle]
  /\ recreated = {}

-----------------------------------------------------------------------------
(* Starting a call. *)

SalarySlip(pay, deduction) ==
  [pay |-> pay, deduction |-> deduction, net |-> pay - deduction,
   status |-> "GENERATED"]

Paid(s) == [s EXCEPT !.status = "PAID"]

NewCall(op, at, e, m) ==
  [op |-> op, at |-> at, emp |-> e, month |-> m,
   pay |-> Null, rate |-> Null, row |-> Null, slip |-> Null,
   insert |-> FALSE]

Start(c, new) ==
  /\ call[c] = Idle
  /\ call' = [call EXCEPT ![c] = new]
  /\ UNCHANGED <<employee, recreated, slip, event, unpaid>>

NewEmployee(dept, title, email) ==
  [status |-> "ACTIVE", dept |-> dept, title |-> title, email |-> email]

\* createEmployee with the id of an employee: save is a merge, over that row.
RecreateEmployee(c, e, dept, title, email) ==
  /\ employee[e] # Null
  /\ Start(c, [NewCall("create", "saveEmployee", e, Null) EXCEPT
        !.row = NewEmployee(dept, title, email)])

\* updateEmployeeDetails and updateMyContactDetails: any of the fields.
UpdateEmployeeDetails(c, e, dept, title) ==
  /\ employee[e] # Null
  /\ Start(c, [NewCall("update", "saveEmployee", e, Null) EXCEPT
        !.row = [employee[e] EXCEPT !.dept = dept, !.title = title]])

\* Wrong on purpose: the row is saved as for a new employee.
ContactsAsNewEmployee(c, e, email) ==
  /\ employee[e] # Null
  /\ Start(c, [NewCall("update", "saveEmployee", e, Null) EXCEPT
        !.row = [employee[e] EXCEPT !.email = email, !.status = "ACTIVE"]])

UpdateMyContactDetails(c, e, email) ==
  /\ employee[e] # Null
  /\ Start(c, [NewCall("update", "saveEmployee", e, Null) EXCEPT
        !.row = [employee[e] EXCEPT !.email = email]])

RecordPromotion(c, e, m, title) ==
  /\ employee[e] # Null
  /\ Start(c, [NewCall("promote", "saveEmployee", e, m) EXCEPT
        !.row = [employee[e] EXCEPT !.title = title]])

RecordTransfer(c, e, m, dept) ==
  /\ employee[e] # Null
  /\ Start(c, [NewCall("transfer", "saveEmployee", e, m) EXCEPT
        !.row = [employee[e] EXCEPT !.dept = dept]])

RecordExit(c, e, m, pay, rate) ==
  /\ employee[e] # Null
  /\ Start(c, [NewCall("exit", "saveEmployee", e, m) EXCEPT
        !.row = [employee[e] EXCEPT !.status = "TERMINATED"],
        !.pay = pay, !.rate = rate])

\* The employee is not looked up: a slip may be generated for any id.
GenerateSalarySlip(c, e, m, pay, rate) ==
  Start(c, [NewCall("generate", "countUnpaid", e, m) EXCEPT
        !.pay = pay, !.rate = rate])

MarkSalarySlipAsPaid(c, e, m) ==
  /\ slip[<<e, m>>] # Null
  /\ Start(c, [NewCall("pay", "saveSlip", e, m) EXCEPT
        !.slip = Paid(slip[<<e, m>>])])

-----------------------------------------------------------------------------
(* Steps of a call. *)

At(c, step) == call[c] # Idle /\ call[c].at = step

Goto(c, step) == call' = [call EXCEPT ![c].at = step]

Finish(c) == call' = [call EXCEPT ![c] = Idle]

EmailFree(e, email) ==
  \A other \in Employees \ {e} :
    employee[other] # Null => employee[other].email # email

\* Wrong on purpose: the exit is logged before the settlement.
LogExitFirst(op) ==
  IF op \in {"promote", "transfer", "exit"} THEN "saveEvent" ELSE "done"

\* Wrong on purpose: a plain update is logged as well.
LogEverySave(op) == IF op = "exit" THEN "countUnpaid" ELSE "saveEvent"

\* What follows employeeRepository.save.
AfterSave(op) ==
  CASE op = "exit" -> "countUnpaid"
    [] op \in {"promote", "transfer"} -> "saveEvent"
    [] OTHER -> "done"

\* merge and commit: the whole detached row; e-mails are unique.
SaveEmployee(c) ==
  /\ At(c, "saveEmployee")
  /\ LET r == call[c]
     IN  /\ EmailFree(r.emp, r.row.email)
         /\ employee' = [employee EXCEPT ![r.emp] = r.row]
         /\ recreated' = CASE r.op = "create" -> recreated \cup {r.emp}
                           [] r.op = "exit" -> recreated \ {r.emp}
                           [] OTHER -> recreated
         /\ IF AfterSave(r.op) = "done" THEN Finish(c)
            ELSE Goto(c, AfterSave(r.op))
  /\ UNCHANGED <<slip, event, unpaid>>

\* Wrong on purpose: the net salary leaves out the deduction.
CountIntoDeductionOnly(c) ==
  /\ At(c, "countUnpaid")
  /\ LET r == call[c]
         d == unpaid[<<r.emp, r.month>>] * r.rate
     IN  call' = [call EXCEPT ![c].at = "findSlip",
           ![c].slip = [SalarySlip(r.pay, d) EXCEPT !.net = r.pay]]
  /\ UNCHANGED <<employee, recreated, slip, event, unpaid>>

\* leaveTools.getUnpaidLeaveDaysForMonth, and the amounts.
CountUnpaid(c) ==
  /\ At(c, "countUnpaid")
  /\ LET r == call[c]
         deduction == unpaid[<<r.emp, r.month>>] * r.rate
     IN  call' = [call EXCEPT ![c].at = "findSlip",
           ![c].slip = SalarySlip(r.pay, deduction)]
  /\ UNCHANGED <<employee, recreated, slip, event, unpaid>>

\* Wrong on purpose: a slip is always inserted.
FindNothing(c) ==
  /\ At(c, "findSlip")
  /\ call' = [call EXCEPT ![c].at = "saveSlip", ![c].insert = TRUE]
  /\ UNCHANGED <<employee, recreated, slip, event, unpaid>>

\* findByEmployeeIdAndMonthAndYear(...).orElseGet(Payroll::new)
FindSlip(c) ==
  /\ At(c, "findSlip")
  /\ call' = [call EXCEPT ![c].at = "saveSlip",
        ![c].insert = slip[<<call[c].emp, call[c].month>>] = Null]
  /\ UNCHANGED <<employee, recreated, slip, event, unpaid>>

Duplicate(r) == r.insert /\ slip[<<r.emp, r.month>>] # Null

SaveSlip(c) ==
  /\ At(c, "saveSlip")
  /\ ~Duplicate(call[c])
  /\ slip' = [slip EXCEPT ![<<call[c].emp, call[c].month>>] = call[c].slip]
  /\ IF call[c].op = "exit" THEN Goto(c, "saveEvent") ELSE Finish(c)
  /\ UNCHANGED <<employee, recreated, event, unpaid>>

EventOf(op) ==
  CASE op = "promote" -> "PROMOTION"
    [] op = "transfer" -> "TRANSFER"
    [] OTHER -> "EXIT"

SaveEvent(c) ==
  /\ At(c, "saveEvent")
  /\ event' = event \cup
       {[emp |-> call[c].emp, month |-> call[c].month,
         type |-> EventOf(call[c].op)]}
  /\ Finish(c)
  /\ UNCHANGED <<employee, recreated, slip, unpaid>>

\* A unique key refuses what the call saves, and the tool throws.
Refuse(c) ==
  /\ \/ /\ At(c, "saveEmployee")
        /\ ~EmailFree(call[c].emp, call[c].row.email)
     \/ At(c, "saveSlip") /\ Duplicate(call[c])
  /\ Finish(c)
  /\ UNCHANGED <<employee, recreated, slip, event, unpaid>>

\* A lost database connection or a crash of the server.
Fail(c) ==
  /\ call[c] # Idle
  /\ Finish(c)
  /\ UNCHANGED <<employee, recreated, slip, event, unpaid>>

-----------------------------------------------------------------------------
(* Single steps. *)

\* createEmployee with no id given: the table hands out a fresh one.
CreateEmployee(e, dept, title, email) ==
  /\ employee[e] = Null
  /\ EmailFree(e, email)
  /\ employee' = [employee EXCEPT ![e] = NewEmployee(dept, title, email)]
  /\ UNCHANGED <<recreated, slip, event, unpaid, call>>

\* The employee is not looked up.
RecordOnboarding(e, m) ==
  /\ event' = event \cup {[emp |-> e, month |-> m, type |-> "ONBOARDING"]}
  /\ UNCHANGED <<employee, recreated, slip, unpaid, call>>

\* The leave tools approve or cancel unpaid leave.
LeaveChanges(e, m, days) ==
  /\ unpaid' = [unpaid EXCEPT ![<<e, m>>] = days]
  /\ UNCHANGED <<employee, recreated, slip, event, call>>

Step(c) ==
  SaveEmployee(c) \/ CountUnpaid(c) \/ FindSlip(c) \/ SaveSlip(c)
    \/ SaveEvent(c) \/ Refuse(c)

Work ==
  \/ \E e \in Employees, dept, title \in Titles, email \in Emails :
       CreateEmployee(e, dept, title, email)
  \/ \E e \in Employees, m \in Months : RecordOnboarding(e, m)
  \/ \E e \in Employees, m \in Months, days \in 0 .. MaxUnpaid :
       LeaveChanges(e, m, days)
  \/ \E c \in Calls, e \in Employees :
       \/ \E dept, title \in Titles : UpdateEmployeeDetails(c, e, dept, title)
       \/ \E email \in Emails : UpdateMyContactDetails(c, e, email)
       \/ \E dept, title \in Titles, email \in Emails :
            RecreateEmployee(c, e, dept, title, email)
  \/ \E c \in Calls, e \in Employees, m \in Months :
       \/ \E title \in Titles : RecordPromotion(c, e, m, title)
       \/ \E dept \in Titles : RecordTransfer(c, e, m, dept)
       \/ \E pay \in Salaries, rate \in Rates :
            \/ RecordExit(c, e, m, pay, rate)
            \/ GenerateSalarySlip(c, e, m, pay, rate)
       \/ MarkSalarySlipAsPaid(c, e, m)
  \/ \E c \in Calls : Step(c)

Next == Work \/ \E c \in Calls : Fail(c)

Spec == Init /\ [][Next]_vars

\* Calls that come one at a time and do not fail.
OneCall == \A c, d \in Calls : call[c] # Idle /\ call[d] # Idle => c = d

SerialSpec == Init /\ [][Work /\ OneCall']_vars

\* A call that was taken up is run to its end by its thread.
FairSpec == Spec /\ \A c \in Calls : WF_vars(Step(c))

-----------------------------------------------------------------------------
(* Properties that survive every interleaving and every failure. *)

Logged(e, m, type) == [emp |-> e, month |-> m, type |-> type] \in event

\* Whatever else writes the two tables meanwhile and wherever calls fail, an
\* exit is in the history only when its month has a salary slip, and no
\* promotion, transfer or exit is in the history of an unknown employee
\* (recordExit: save, settle, log, in this order).
ExitWasSettled ==
  \A e \in Employees, m \in Months :
    /\ Logged(e, m, "EXIT") => slip[<<e, m>>] # Null
    /\ \A type \in {"PROMOTION", "TRANSFER", "EXIT"} :
         Logged(e, m, type) => employee[e] # Null

\* The amounts of a slip always add up, whichever of a regeneration, a
\* settlement and a payment that read an older slip wrote it last.
SlipAddsUp ==
  \A k \in SlipKeys : slip[k] # Null =>
    slip[k].net = slip[k].pay - slip[k].deduction

(* The inductive invariant behind them: what a call at each step has done  *)
(* and carries.                                                            *)

AddsUp(s) == s # Null => s.net = s.pay - s.deduction

RowOps == {"create", "update", "promote", "transfer", "exit"}

CallOK(r, employees, slips) ==
  /\ r.op \notin {"create", "update"} => r.month \in Months
  /\ r.op \in {"exit", "generate"} => r.pay \in Salaries /\ r.rate \in Rates
  /\ r.op \in RowOps => employees[r.emp] # Null
  /\ r.at = "saveEmployee" => r.row # Null /\ r.op \in RowOps
  /\ r.at = "countUnpaid" => r.op \in {"exit", "generate"}
  /\ r.at \in {"findSlip", "saveSlip"} =>
       r.slip # Null /\ r.op \in {"exit", "generate", "pay"}
  /\ r.at = "saveEvent" =>
       /\ r.op \in {"promote", "transfer", "exit"}
       /\ r.op = "exit" => slips[<<r.emp, r.month>>] # Null
  /\ AddsUp(r.slip)

IInv ==
  /\ ExitWasSettled
  /\ SlipAddsUp
  /\ \A c \in Calls : call[c] # Idle => CallOK(call[c], employee, slip)

-----------------------------------------------------------------------------
(* Properties of calls that neither overlap nor fail. *)

Quiet == \A c \in Calls : call[c] = Idle

Terminated(e) == employee[e] # Null /\ employee[e].status = "TERMINATED"

ExitLogged(e) == \E m \in Months : Logged(e, m, "EXIT")

\* Between calls an employee is TERMINATED exactly when an exit is in the
\* history that no createEmployee came after: but for that tool, which takes
\* the id of its argument and saves ACTIVE over whatever row has it, none
\* undoes an exit, and none but recordExit ends an employment.
TerminatedIffExited ==
  Quiet => \A e \in Employees :
             Terminated(e) <=> ExitLogged(e) /\ e \notin recreated

\* Its inductive invariant: an exit is under way from the save of the
\* employee to the save of the event, and nothing a call has read is stale.
Leaving(c, e) ==
  /\ call[c] # Idle /\ call[c].op = "exit" /\ call[c].emp = e
  /\ call[c].at # "saveEmployee"

Fresh(r) ==
  /\ r.at = "saveEmployee" =>
       r.row.status = CASE r.op = "exit" -> "TERMINATED"
                        [] r.op = "create" -> "ACTIVE"
                        [] OTHER -> employee[r.emp].status
  /\ r.at = "saveSlip" /\ r.insert => slip[<<r.emp, r.month>>] = Null

SInv ==
  /\ OneCall
  /\ \A c \in Calls : call[c] # Idle => Fresh(call[c])
  /\ \A e \in Employees :
       Terminated(e) <=> /\ ExitLogged(e) \/ \E c \in Calls : Leaving(c, e)
                         /\ e \notin recreated

\* Every exit that took effect is settled and logged in the end.
ExitGetsLogged ==
  \A e \in Employees : Terminated(e) ~> ExitLogged(e)

-----------------------------------------------------------------------------
(* What recordExit promises ("Record an employee exit: marks the employee  *)
(* TERMINATED, triggers final payroll settlement, and logs the lifecycle   *)
(* event", HrTools.java:79) and overlapping calls break.                   *)

\* An employee with an exit in the history is TERMINATED, unless createEmployee
\* was called with its id since.
ExitedIsTerminated ==
  \A e \in Employees : ExitLogged(e) /\ e \notin recreated => Terminated(e)
=============================================================================
