----------------------------- MODULE StaffProofs -----------------------------
(***************************************************************************)
(* Theorems about StaffTools, for any number of overlapping and failing    *)
(* calls, any employees, months, salaries and rates.                       *)
(***************************************************************************)
EXTENDS StaffTools, TLAPS

(* Rows and calls the tools build. *)

LEMMA SalarySlipType ==
  ASSUME NEW pay \in Salaries, NEW rate \in Rates, NEW days \in Nat
  PROVE  /\ SalarySlip(pay, days * rate) \in Slip
         /\ AddsUp(SalarySlip(pay, days * rate))
<1>1. pay \in Nat /\ rate \in Nat /\ days * rate \in Nat
  BY SalaryAssumption
<1>2. QED
  BY <1>1 DEF SalarySlip, Slip, AddsUp

LEMMA NewEmployeeType ==
  ASSUME NEW dept \in Titles, NEW title \in Titles, NEW email \in Emails
  PROVE  /\ NewEmployee(dept, title, email) \in EmployeeRow
         /\ NewEmployee(dept, title, email) # Null
         /\ NewEmployee(dept, title, email).status = "ACTIVE"
<1>1. NewEmployee(dept, title, email) \in EmployeeRow
  BY DEF NewEmployee, EmployeeRow
<1>2. QED
  BY <1>1, RowAssumption DEF NewEmployee

LEMMA PaidType ==
  ASSUME NEW s \in Slip, AddsUp(s)
  PROVE  Paid(s) \in Slip /\ AddsUp(Paid(s)) /\ Paid(s) # Null
BY RowAssumption DEF Paid, Slip, AddsUp

\* Rows only appear: what a call relied on stays true.
Grows == /\ \A e \in Employees : employee[e] # Null => employee'[e] # Null
         /\ \A k \in SlipKeys : slip[k] # Null => slip'[k] # Null

\* A call that is written as new, while the others keep what they have.
LEMMA CallWritten ==
  ASSUME TypeOK, IInv, Grows, NEW c \in Calls, NEW new \in Call \cup {Idle},
         new # Idle => CallOK(new, employee', slip'),
         call' = [call EXCEPT ![c] = new]
  PROVE  /\ call' \in [Calls -> Call \cup {Idle}]
         /\ \A d \in Calls :
           call'[d] # Idle => CallOK(call'[d], employee', slip')
<1>1. call \in [Calls -> Call \cup {Idle}]
  BY DEF TypeOK
<1>2. ASSUME NEW d \in Calls, call'[d] # Idle
      PROVE  CallOK(call'[d], employee', slip')
  <2>1. CASE d = c
    BY <1>1, <1>2, <2>1
  <2>2. CASE d # c
    <3>1. call'[d] = call[d] /\ call[d] \in Call
      BY <1>1, <1>2, <2>2
    <3>2. CallOK(call[d], employee, slip)
      BY <1>2, <3>1 DEF IInv
    <3>3. call[d].emp \in Employees
      BY <3>1 DEF Call
    <3>4. call[d].op = "exit" => <<call[d].emp, call[d].month>> \in SlipKeys
      BY <3>2, <3>3 DEF CallOK, RowOps, SlipKeys
    <3>5. QED
      BY <3>1, <3>2, <3>3, <3>4 DEF CallOK, RowOps, Grows
  <2>3. QED
    BY <2>1, <2>2
<1>3. QED
  BY <1>1, <1>2

\* A step that only starts, moves or ends a call.
LEMMA OnlyCall ==
  ASSUME TypeOK, IInv, NEW c \in Calls, NEW new \in Call \cup {Idle},
         new # Idle => CallOK(new, employee, slip),
         call' = [call EXCEPT ![c] = new],
         UNCHANGED <<employee, recreated, slip, event, unpaid>>
  PROVE  TypeOK' /\ IInv'
<1>1. Grows
  BY DEF Grows
<1>2. new # Idle => CallOK(new, employee', slip')
  OBVIOUS
<1>3. /\ call' \in [Calls -> Call \cup {Idle}]
      /\ \A d \in Calls :
           call'[d] # Idle => CallOK(call'[d], employee', slip')
  BY <1>1, <1>2, CallWritten
<1>4. TypeOK'
  BY <1>3 DEF TypeOK
<1>5. (ExitWasSettled /\ SlipAddsUp)'
  BY DEF IInv, ExitWasSettled, SlipAddsUp, Logged
<1>6. QED
  BY <1>3, <1>4, <1>5 DEF IInv

\* What is known of a call in progress.
LEMMA InProgress ==
  ASSUME TypeOK, IInv, NEW c \in Calls, call[c] # Idle
  PROVE  call[c] \in Call /\ CallOK(call[c], employee, slip)
BY DEF TypeOK, IInv
-----------------------------------------------------------------------------
(* Starting a call. *)

LEMMA StartRow ==
  ASSUME TypeOK, IInv, NEW c \in Calls, NEW e \in Employees,
         NEW m \in Months \cup {Null}, NEW row \in EmployeeRow,
         NEW op \in {"create", "update", "promote", "transfer"},
         op \notin {"create", "update"} => m \in Months, employee[e] # Null,
         Start(c, [NewCall(op, "saveEmployee", e, m) EXCEPT !.row = row])
  PROVE  TypeOK' /\ IInv'
<1> DEFINE new == [NewCall(op, "saveEmployee", e, m) EXCEPT !.row = row]
<1>1. row # Null
  BY RowAssumption
<1>2. new \in Call
  BY DEF NewCall, Call
<1>3. CallOK(new, employee, slip)
  BY <1>1 DEF NewCall, CallOK, RowOps, AddsUp
<1>4. QED
  BY <1>2, <1>3, OnlyCall DEF Start

LEMMA StartExit ==
  ASSUME TypeOK, IInv, NEW c \in Calls, NEW e \in Employees, NEW m \in Months,
         NEW pay \in Salaries, NEW rate \in Rates,
         RecordExit(c, e, m, pay, rate)
  PROVE  TypeOK' /\ IInv'
<1> DEFINE row == [employee[e] EXCEPT !.status = "TERMINATED"]
           new == [NewCall("exit", "saveEmployee", e, m) EXCEPT
                     !.row = row, !.pay = pay, !.rate = rate]
<1>1. row \in EmployeeRow /\ row # Null
  BY RowAssumption DEF RecordExit, TypeOK, EmployeeRow
<1>2. new \in Call
  BY <1>1 DEF NewCall, Call
<1>3. CallOK(new, employee, slip)
  BY <1>1 DEF NewCall, CallOK, RowOps, AddsUp, RecordExit
<1>4. Start(c, new)
  BY DEF RecordExit
<1>5. QED
  BY <1>2, <1>3, <1>4, OnlyCall DEF Start

LEMMA StartGenerate ==
  ASSUME TypeOK, IInv, NEW c \in Calls, NEW e \in Employees, NEW m \in Months,
         NEW pay \in Salaries, NEW rate \in Rates,
         GenerateSalarySlip(c, e, m, pay, rate)
  PROVE  TypeOK' /\ IInv'
<1> DEFINE new == [NewCall("generate", "countUnpaid", e, m) EXCEPT
                     !.pay = pay, !.rate = rate]
<1>1. new \in Call
  BY DEF NewCall, Call
<1>2. CallOK(new, employee, slip)
  BY DEF NewCall, CallOK, RowOps, AddsUp
<1>3. QED
  BY <1>1, <1>2, OnlyCall DEF Start, GenerateSalarySlip

LEMMA StartPay ==
  ASSUME TypeOK, IInv, NEW c \in Calls, NEW e \in Employees, NEW m \in Months,
         MarkSalarySlipAsPaid(c, e, m)
  PROVE  TypeOK' /\ IInv'
<1> DEFINE s == Paid(slip[<<e, m>>])
           new == [NewCall("pay", "saveSlip", e, m) EXCEPT !.slip = s]
<1>1. <<e, m>> \in SlipKeys
  BY DEF SlipKeys
<1>2. slip[<<e, m>>] \in Slip /\ AddsUp(slip[<<e, m>>])
  BY <1>1 DEF TypeOK, MarkSalarySlipAsPaid, IInv, SlipAddsUp, AddsUp
<1>3. s \in Slip /\ AddsUp(s) /\ s # Null
  BY <1>2, PaidType
<1>4. new \in Call
  BY <1>3 DEF NewCall, Call
<1>5. CallOK(new, employee, slip)
  BY <1>3 DEF NewCall, CallOK, RowOps
<1>6. QED
  BY <1>4, <1>5, OnlyCall DEF Start, MarkSalarySlipAsPaid
-----------------------------------------------------------------------------
(* The steps of a call. *)

LEMMA SaveEmployeeOK ==
  ASSUME TypeOK, IInv, NEW c \in Calls, SaveEmployee(c)
  PROVE  TypeOK' /\ IInv'
<1> DEFINE r == call[c]
           new == IF AfterSave(r.op) = "done" THEN Idle
                  ELSE [r EXCEPT !.at = AfterSave(r.op)]
<1>1. /\ r \in Call /\ CallOK(r, employee, slip)
      /\ r.at = "saveEmployee" /\ r.emp \in Employees
      /\ r.row \in EmployeeRow /\ r.row # Null
      /\ r.op \in RowOps
  <2>1. r # Idle /\ r.at = "saveEmployee"
    BY DEF SaveEmployee, At
  <2>2. r \in Call /\ CallOK(r, employee, slip)
    BY <2>1, InProgress
  <2>3. QED
    BY <2>1, <2>2 DEF CallOK, RowOps, Call
<1>2. /\ employee' = [employee EXCEPT ![r.emp] = r.row]
      /\ UNCHANGED <<slip, event, unpaid>>
      /\ recreated' \in SUBSET (recreated \cup {r.emp})
      /\ call' = [call EXCEPT ![c] = new]
  <2>1. CASE AfterSave(r.op) = "done"
    BY <2>1 DEF SaveEmployee, Finish
  <2>2. CASE AfterSave(r.op) # "done"
    <3>1. call' = [call EXCEPT ![c].at = AfterSave(r.op)]
      BY <2>2 DEF SaveEmployee, Goto
    <3>2. QED
      BY <2>2, <3>1 DEF SaveEmployee
  <2>3. QED
    BY <2>1, <2>2
<1>3. employee' \in [Employees -> EmployeeRow \cup {Null}]
  BY <1>1, <1>2 DEF TypeOK
<1>4. \A e \in Employees : employee[e] # Null => employee'[e] # Null
  BY <1>1, <1>2 DEF TypeOK
<1>5. Grows
  BY <1>2, <1>4 DEF Grows
<1>6. AfterSave(r.op) = IF r.op = "exit" THEN "countUnpaid"
                        ELSE IF r.op \in {"create", "update"} THEN "done"
                        ELSE "saveEvent"
  BY <1>1 DEF AfterSave, RowOps
<1>7. new \in Call \cup {Idle}
  BY <1>1, <1>6 DEF Call
<1>8. new # Idle => CallOK(new, employee', slip')
  <2>1. CASE r.op \in {"create", "update"}
    BY <1>6, <2>1
  <2>2. CASE r.op \notin {"create", "update"}
    <3>1. new = [r EXCEPT !.at = AfterSave(r.op)]
      BY <1>6, <2>2
    <3>2. /\ new.op = r.op /\ new.emp = r.emp /\ new.month = r.month
          /\ new.pay = r.pay /\ new.rate = r.rate /\ new.slip = r.slip
          /\ new.at = IF r.op = "exit" THEN "countUnpaid" ELSE "saveEvent"
      BY <1>1, <1>6, <2>2, <3>1 DEF Call
    <3>3. employee'[r.emp] # Null
      BY <1>1, <1>2 DEF TypeOK
    <3>4. QED
      BY <1>1, <1>2, <2>2, <3>2, <3>3 DEF CallOK, RowOps
  <2>3. QED
    BY <2>1, <2>2
<1>9. /\ call' \in [Calls -> Call \cup {Idle}]
      /\ \A d \in Calls :
           call'[d] # Idle => CallOK(call'[d], employee', slip')
  BY <1>2, <1>5, <1>7, <1>8, CallWritten
<1>10. TypeOK'
  BY <1>1, <1>2, <1>3, <1>9 DEF TypeOK
<1>11. (ExitWasSettled /\ SlipAddsUp)'
  BY <1>2, <1>4 DEF IInv, ExitWasSettled, SlipAddsUp, Logged
<1>12. QED
  BY <1>9, <1>10, <1>11 DEF IInv

LEMMA CountUnpaidOK ==
  ASSUME TypeOK, IInv, NEW c \in Calls, CountUnpaid(c)
  PROVE  TypeOK' /\ IInv'
<1> DEFINE r == call[c]
           s == SalarySlip(r.pay, unpaid[<<r.emp, r.month>>] * r.rate)
           new == [r EXCEPT !.at = "findSlip", !.slip = s]
<1>1. /\ r \in Call /\ CallOK(r, employee, slip) /\ r.at = "countUnpaid"
  BY InProgress DEF CountUnpaid, At
<1>2. /\ r.op \in {"exit", "generate"} /\ r.emp \in Employees
      /\ r.month \in Months /\ r.pay \in Salaries /\ r.rate \in Rates
  BY <1>1 DEF CallOK, RowOps, Call
<1>3. unpaid[<<r.emp, r.month>>] \in Nat
  <2>1. <<r.emp, r.month>> \in SlipKeys
    BY <1>2 DEF SlipKeys
  <2>2. unpaid[<<r.emp, r.month>>] \in 0 .. MaxUnpaid
    BY <2>1 DEF TypeOK
  <2>3. QED
    BY <2>2, UnpaidAssumption
<1>4. s \in Slip /\ AddsUp(s) /\ s # Null
  BY <1>2, <1>3, SalarySlipType, RowAssumption
<1>5. new \in Call
  BY <1>1, <1>4 DEF Call
<1>6. CallOK(new, employee, slip)
  BY <1>1, <1>2, <1>4 DEF CallOK, RowOps, Call
<1>7. /\ call' = [call EXCEPT ![c] = new]
      /\ UNCHANGED <<employee, recreated, slip, event, unpaid>>
  BY DEF CountUnpaid, TypeOK
<1>8. QED
  BY <1>5, <1>6, <1>7, OnlyCall

LEMMA FindSlipOK ==
  ASSUME TypeOK, IInv, NEW c \in Calls, FindSlip(c)
  PROVE  TypeOK' /\ IInv'
<1> DEFINE r == call[c]
           new == [r EXCEPT !.at = "saveSlip",
                            !.insert = (slip[<<r.emp, r.month>>] = Null)]
<1>1. r \in Call /\ CallOK(r, employee, slip) /\ r.at = "findSlip"
  BY InProgress DEF FindSlip, At
<1>2. new \in Call
  BY <1>1 DEF Call
<1>3. CallOK(new, employee, slip)
  BY <1>1 DEF CallOK, RowOps, Call
<1>4. /\ call' = [call EXCEPT ![c] = new]
      /\ UNCHANGED <<employee, recreated, slip, event, unpaid>>
  BY DEF FindSlip, TypeOK
<1>5. QED
  BY <1>2, <1>3, <1>4, OnlyCall

LEMMA SaveSlipOK ==
  ASSUME TypeOK, IInv, NEW c \in Calls, SaveSlip(c)
  PROVE  TypeOK' /\ IInv'
<1> DEFINE r == call[c]
           new == IF r.op = "exit" THEN [r EXCEPT !.at = "saveEvent"] ELSE Idle
<1>1. r \in Call /\ CallOK(r, employee, slip) /\ r.at = "saveSlip"
  BY InProgress DEF SaveSlip, At
<1>2. /\ r.slip \in Slip /\ r.slip # Null /\ AddsUp(r.slip)
      /\ r.op \in {"exit", "generate", "pay"}
      /\ <<r.emp, r.month>> \in SlipKeys
  BY <1>1 DEF CallOK, RowOps, Call, SlipKeys
<1>3. /\ slip' = [slip EXCEPT ![<<r.emp, r.month>>] = r.slip]
      /\ UNCHANGED <<employee, recreated, event, unpaid>>
      /\ call' = [call EXCEPT ![c] = new]
  BY DEF SaveSlip, Goto, Finish
<1>4. slip' \in [SlipKeys -> Slip \cup {Null}]
  BY <1>2, <1>3 DEF TypeOK
<1>5. Grows
  BY <1>2, <1>3 DEF Grows, TypeOK
<1>6. new \in Call \cup {Idle}
  BY <1>1 DEF Call
<1>7. new # Idle => CallOK(new, employee', slip')
  <2>1. slip'[<<r.emp, r.month>>] # Null
    BY <1>2, <1>3 DEF TypeOK
  <2>2. QED
    BY <1>1, <1>2, <1>3, <2>1 DEF CallOK, RowOps, Call
<1>8. /\ call' \in [Calls -> Call \cup {Idle}]
      /\ \A d \in Calls :
           call'[d] # Idle => CallOK(call'[d], employee', slip')
  BY <1>3, <1>5, <1>6, <1>7, CallWritten
<1>9. TypeOK'
  BY <1>3, <1>4, <1>8 DEF TypeOK
<1>10. SlipAddsUp'
  BY <1>2, <1>3 DEF IInv, SlipAddsUp, AddsUp, TypeOK
<1>11. ExitWasSettled'
  BY <1>3, <1>5 DEF IInv, ExitWasSettled, Logged, Grows, SlipKeys
<1>12. QED
  BY <1>8, <1>9, <1>10, <1>11 DEF IInv

LEMMA SaveEventOK ==
  ASSUME TypeOK, IInv, NEW c \in Calls, SaveEvent(c)
  PROVE  TypeOK' /\ IInv'
<1> DEFINE r == call[c]
           new == [emp |-> r.emp, month |-> r.month, type |-> EventOf(r.op)]
<1>1. r \in Call /\ CallOK(r, employee, slip) /\ r.at = "saveEvent"
  BY InProgress DEF SaveEvent, At
<1>2. /\ r.op \in {"promote", "transfer", "exit"}
      /\ r.emp \in Employees /\ r.month \in Months
      /\ employee[r.emp] # Null
      /\ r.op = "exit" => slip[<<r.emp, r.month>>] # Null
  BY <1>1 DEF CallOK, RowOps, Call
<1>3. /\ EventOf(r.op) \in {"PROMOTION", "TRANSFER", "EXIT"}
      /\ EventOf(r.op) = "EXIT" => r.op = "exit"
  BY <1>2 DEF EventOf
<1>4. /\ event' = event \cup {new}
      /\ call' = [call EXCEPT ![c] = Idle]
      /\ UNCHANGED <<employee, recreated, slip, unpaid>>
  BY DEF SaveEvent, Finish
<1>5. Grows
  BY <1>4 DEF Grows
<1>6. /\ call' \in [Calls -> Call \cup {Idle}]
      /\ \A d \in Calls :
           call'[d] # Idle => CallOK(call'[d], employee', slip')
  BY <1>4, <1>5, CallWritten
<1>7. new \in Event
  BY <1>2, <1>3 DEF Event
<1>8. TypeOK'
  BY <1>4, <1>6, <1>7 DEF TypeOK
<1>9. SlipAddsUp'
  BY <1>4 DEF IInv, SlipAddsUp
<1>10. ExitWasSettled'
  <2> SUFFICES ASSUME NEW e \in Employees, NEW m \in Months
               PROVE  /\ Logged(e, m, "EXIT")' => slip[<<e, m>>] # Null
                      /\ \A type \in {"PROMOTION", "TRANSFER", "EXIT"} :
                           Logged(e, m, type)' => employee[e] # Null
    BY <1>4 DEF ExitWasSettled
  <2>1. \A type : Logged(e, m, type)' =>
          \/ Logged(e, m, type)
          \/ e = r.emp /\ m = r.month /\ type = EventOf(r.op)
    BY <1>4 DEF Logged
  <2>2. QED
    BY <1>2, <1>3, <2>1 DEF IInv, ExitWasSettled
<1>11. QED
  BY <1>6, <1>8, <1>9, <1>10 DEF IInv

LEMMA EndOK ==
  ASSUME TypeOK, IInv, NEW c \in Calls, Refuse(c) \/ Fail(c)
  PROVE  TypeOK' /\ IInv'
<1>1. /\ call' = [call EXCEPT ![c] = Idle]
      /\ UNCHANGED <<employee, recreated, slip, event, unpaid>>
  BY DEF Refuse, Fail, Finish
<1>2. QED
  BY <1>1, OnlyCall
-----------------------------------------------------------------------------
(* The single steps. *)

\* A step that leaves the calls alone and lets rows appear.
LEMMA CallsKept ==
  ASSUME TypeOK, IInv, Grows, UNCHANGED call
  PROVE  \A d \in Calls :
           call'[d] # Idle => CallOK(call'[d], employee', slip')
<1> SUFFICES ASSUME NEW d \in Calls, call[d] # Idle
             PROVE  CallOK(call[d], employee', slip')
  OBVIOUS
<1>1. call[d] \in Call /\ CallOK(call[d], employee, slip)
  BY InProgress
<1>2. call[d].emp \in Employees
  BY <1>1 DEF Call
<1>3. call[d].op = "exit" => <<call[d].emp, call[d].month>> \in SlipKeys
  BY <1>1, <1>2 DEF CallOK, RowOps, SlipKeys
<1>4. QED
  BY <1>1, <1>2, <1>3 DEF CallOK, RowOps, Grows

LEMMA CreateEmployeeOK ==
  ASSUME TypeOK, IInv, NEW e \in Employees, NEW dept \in Titles,
         NEW title \in Titles, NEW email \in Emails,
         CreateEmployee(e, dept, title, email)
  PROVE  TypeOK' /\ IInv'
<1> DEFINE row == NewEmployee(dept, title, email)
<1>1. row \in EmployeeRow /\ row # Null
  BY NewEmployeeType
<1>2. /\ employee' = [employee EXCEPT ![e] = row]
      /\ UNCHANGED <<recreated, slip, event, unpaid, call>>
  BY DEF CreateEmployee
<1>3. TypeOK'
  BY <1>1, <1>2 DEF TypeOK
<1>4. \A x \in Employees : employee[x] # Null => employee'[x] # Null
  BY <1>1, <1>2 DEF TypeOK
<1>5. Grows
  BY <1>2, <1>4 DEF Grows
<1>6. (ExitWasSettled /\ SlipAddsUp)'
  BY <1>2, <1>4 DEF IInv, ExitWasSettled, SlipAddsUp, Logged
<1>7. QED
  BY <1>2, <1>3, <1>5, <1>6, CallsKept DEF IInv

LEMMA OnboardingOK ==
  ASSUME TypeOK, IInv, NEW e \in Employees, NEW m \in Months,
         RecordOnboarding(e, m)
  PROVE  TypeOK' /\ IInv'
<1> DEFINE new == [emp |-> e, month |-> m, type |-> "ONBOARDING"]
<1>1. /\ event' = event \cup {new} /\ new \in Event
      /\ UNCHANGED <<employee, recreated, slip, unpaid, call>>
  BY DEF RecordOnboarding, Event
<1>2. TypeOK'
  BY <1>1 DEF TypeOK
<1>3. Grows
  BY <1>1 DEF Grows
<1>4. \A x, y : \A type \in {"PROMOTION", "TRANSFER", "EXIT"} :
        Logged(x, y, type)' => Logged(x, y, type)
  BY <1>1 DEF Logged
<1>5. (ExitWasSettled /\ SlipAddsUp)'
  BY <1>1, <1>4 DEF IInv, ExitWasSettled, SlipAddsUp
<1>6. QED
  BY <1>1, <1>2, <1>3, <1>5, CallsKept DEF IInv

LEMMA LeaveChangesOK ==
  ASSUME TypeOK, IInv, NEW e \in Employees, NEW m \in Months,
         NEW days \in 0 .. MaxUnpaid, LeaveChanges(e, m, days)
  PROVE  TypeOK' /\ IInv'
<1>1. TypeOK'
  BY DEF TypeOK, LeaveChanges
<1>2. IInv'
  BY DEF IInv, LeaveChanges, ExitWasSettled, SlipAddsUp, Logged
<1>3. QED
  BY <1>1, <1>2

\* A step that changes nothing.
LEMMA StutterOK ==
  ASSUME TypeOK, IInv, UNCHANGED vars PROVE TypeOK' /\ IInv'
BY DEF TypeOK, IInv, vars, ExitWasSettled, SlipAddsUp, Logged
-----------------------------------------------------------------------------
LEMMA RowsRead ==
  ASSUME TypeOK, NEW e \in Employees, employee[e] # Null
  PROVE  /\ \A d, t \in Titles :
              [employee[e] EXCEPT !.dept = d, !.title = t] \in EmployeeRow
         /\ \A d \in Titles : [employee[e] EXCEPT !.dept = d] \in EmployeeRow
         /\ \A t \in Titles : [employee[e] EXCEPT !.title = t] \in EmployeeRow
         /\ \A x \in Emails : [employee[e] EXCEPT !.email = x] \in EmployeeRow
<1>1. employee[e] \in EmployeeRow
  BY DEF TypeOK
<1>2. QED
  BY <1>1 DEF EmployeeRow

LEMMA InitOK == Init => TypeOK /\ IInv
BY UnpaidAssumption
   DEF Init, TypeOK, IInv, ExitWasSettled, SlipAddsUp, Logged, SlipKeys

LEMMA NextOK ==
  ASSUME TypeOK, IInv, [Next]_vars PROVE TypeOK' /\ IInv'
<1>1. ASSUME NEW e \in Employees, NEW dept \in Titles, NEW title \in Titles,
             NEW email \in Emails, CreateEmployee(e, dept, title, email)
      PROVE  TypeOK' /\ IInv'
  BY <1>1, CreateEmployeeOK
<1>2. ASSUME NEW e \in Employees, NEW m \in Months, RecordOnboarding(e, m)
      PROVE  TypeOK' /\ IInv'
  BY <1>2, OnboardingOK
<1>3. ASSUME NEW e \in Employees, NEW m \in Months,
             NEW days \in 0 .. MaxUnpaid, LeaveChanges(e, m, days)
      PROVE  TypeOK' /\ IInv'
  BY <1>3, LeaveChangesOK
<1>4. ASSUME NEW c \in Calls, NEW e \in Employees, NEW dept \in Titles,
             NEW title \in Titles, UpdateEmployeeDetails(c, e, dept, title)
      PROVE  TypeOK' /\ IInv'
  BY <1>4, RowsRead, StartRow DEF UpdateEmployeeDetails
<1>5. ASSUME NEW c \in Calls, NEW e \in Employees, NEW email \in Emails,
             UpdateMyContactDetails(c, e, email)
      PROVE  TypeOK' /\ IInv'
  BY <1>5, RowsRead, StartRow DEF UpdateMyContactDetails
<1>6. ASSUME NEW c \in Calls, NEW e \in Employees, NEW m \in Months,
             NEW title \in Titles, RecordPromotion(c, e, m, title)
      PROVE  TypeOK' /\ IInv'
  BY <1>6, RowsRead, StartRow DEF RecordPromotion
<1>7. ASSUME NEW c \in Calls, NEW e \in Employees, NEW m \in Months,
             NEW dept \in Titles, RecordTransfer(c, e, m, dept)
      PROVE  TypeOK' /\ IInv'
  BY <1>7, RowsRead, StartRow DEF RecordTransfer
<1>8. ASSUME NEW c \in Calls, NEW e \in Employees, NEW m \in Months,
             NEW pay \in Salaries, NEW rate \in Rates,
             \/ RecordExit(c, e, m, pay, rate)
             \/ GenerateSalarySlip(c, e, m, pay, rate)
      PROVE  TypeOK' /\ IInv'
  BY <1>8, StartExit, StartGenerate
<1>9. ASSUME NEW c \in Calls, NEW e \in Employees, NEW m \in Months,
             MarkSalarySlipAsPaid(c, e, m)
      PROVE  TypeOK' /\ IInv'
  BY <1>9, StartPay
<1>10. ASSUME NEW c \in Calls, Step(c) \/ Fail(c)
       PROVE  TypeOK' /\ IInv'
  BY <1>10, SaveEmployeeOK, CountUnpaidOK, FindSlipOK, SaveSlipOK, SaveEventOK,
     EndOK DEF Step
<1>11. ASSUME NEW c \in Calls, NEW e \in Employees, NEW dept \in Titles,
              NEW title \in Titles, NEW email \in Emails,
              RecreateEmployee(c, e, dept, title, email)
       PROVE  TypeOK' /\ IInv'
  BY <1>11, NewEmployeeType, StartRow DEF RecreateEmployee
<1>12. CASE UNCHANGED vars
  BY <1>12, StutterOK
<1>13. QED
  BY <1>1, <1>2, <1>3, <1>4, <1>5, <1>6, <1>7, <1>8, <1>9, <1>10, <1>11,
     <1>12
  DEF Next, Work
-----------------------------------------------------------------------------
\* Every row, every logged event and every call in progress has its type.
THEOREM TypeCorrect == Spec => []TypeOK
<1>1. TypeOK /\ IInv /\ [Next]_vars => (TypeOK /\ IInv)'
  BY NextOK
<1>2. QED
  BY <1>1, InitOK, PTL DEF Spec

\* What a call at each step has done and carries (IInv) is inductive together
\* with the types, for overlapping and failing calls.
THEOREM Invariance == Spec => []IInv
<1>1. TypeOK /\ IInv /\ [Next]_vars => (TypeOK /\ IInv)'
  BY NextOK
<1>2. QED
  BY <1>1, InitOK, PTL DEF Spec

\* An exit in the history was settled and belongs to an employee, wherever
\* recordExit or any other call fails.
THEOREM ExitsAreSettled == Spec => []ExitWasSettled
<1>1. IInv => ExitWasSettled
  BY DEF IInv
<1>2. QED
  BY <1>1, Invariance, PTL

\* The amounts of every salary slip add up, whichever call wrote it last.
THEOREM SlipsAddUp == Spec => []SlipAddsUp
<1>1. IInv => SlipAddsUp
  BY DEF IInv
<1>2. QED
  BY <1>1, Invariance, PTL
-----------------------------------------------------------------------------
(* Calls that come one at a time and do not fail. *)

\* Once a call has taken its step, it is the only one.
LEMMA Only ==
  ASSUME TypeOK, OneCall, OneCall', NEW c \in Calls,
         NEW new \in Call \cup {Idle},
         call' = [call EXCEPT ![c] = new], call[c] # Idle \/ new # Idle
  PROVE  /\ call'[c] = new
         /\ \A d \in Calls \ {c} : call[d] = Idle /\ call'[d] = Idle
BY DEF TypeOK, OneCall

\* A call starts: no exit is under way before or after.
LEMMA SerialStart ==
  ASSUME TypeOK, SInv, OneCall', NEW c \in Calls, NEW new \in Call,
         Start(c, new), new.op = "exit" => new.at = "saveEmployee", Fresh(new)
  PROVE  SInv'
<1>1. new # Idle
  BY RowAssumption
<1>2. /\ call[c] = Idle /\ call' = [call EXCEPT ![c] = new]
      /\ UNCHANGED <<employee, recreated, slip, event, unpaid>>
  BY DEF Start
<1>3. /\ call'[c] = new
      /\ \A d \in Calls \ {c} : call[d] = Idle /\ call'[d] = Idle
  BY <1>1, <1>2, Only DEF SInv
<1>4. \A d \in Calls : (call[d] # Idle => Fresh(call[d]))'
  BY <1>2, <1>3 DEF Fresh
<1>5. \A d \in Calls, e \in Employees : ~Leaving(d, e) /\ ~Leaving(d, e)'
  BY <1>2, <1>3 DEF Leaving
<1>6. \A e \in Employees :
        /\ Terminated(e)' <=> Terminated(e)
        /\ ExitLogged(e)' <=> ExitLogged(e)
  BY <1>2 DEF Terminated, ExitLogged, Logged
<1>7. QED
  BY <1>2, <1>4, <1>5, <1>6 DEF SInv

\* A call whose employee was saved goes on to a later step.
LEMMA SerialMove ==
  ASSUME TypeOK, SInv, OneCall', NEW c \in Calls, NEW new \in Call,
         call[c] # Idle, call' = [call EXCEPT ![c] = new],
         UNCHANGED <<employee, recreated, event>>, call[c].at # "saveEmployee",
         new.at # "saveEmployee", new.op = call[c].op, new.emp = call[c].emp,
         new.at = "saveSlip" /\ new.insert =>
           slip'[<<new.emp, new.month>>] = Null
  PROVE  SInv'
<1>1. new # Idle
  BY RowAssumption
<1>2. /\ call'[c] = new
      /\ \A d \in Calls \ {c} : call[d] = Idle /\ call'[d] = Idle
  BY <1>1, Only DEF SInv
<1>3. \A d \in Calls : (call[d] # Idle => Fresh(call[d]))'
  BY <1>2 DEF Fresh
<1>4. \A d \in Calls, e \in Employees : Leaving(d, e)' <=> Leaving(d, e)
  BY <1>1, <1>2 DEF Leaving
<1>5. \A e \in Employees :
        /\ Terminated(e)' <=> Terminated(e)
        /\ ExitLogged(e)' <=> ExitLogged(e)
  BY DEF Terminated, ExitLogged, Logged
<1>6. QED
  BY <1>3, <1>4, <1>5 DEF SInv

\* A call that is no exit, or that the employee table refuses, ends.
LEMMA SerialEnd ==
  ASSUME TypeOK, SInv, OneCall', NEW c \in Calls, call[c] # Idle, Finish(c),
         UNCHANGED <<employee, recreated, event>>,
         call[c].op = "exit" => call[c].at = "saveEmployee"
  PROVE  SInv'
<1>1. \A d \in Calls : call'[d] = Idle /\ (d # c => call[d] = Idle)
  BY Only DEF SInv, Finish
<1>2. \A d \in Calls, e \in Employees : ~Leaving(d, e) /\ ~Leaving(d, e)'
  BY <1>1 DEF Leaving
<1>3. \A e \in Employees :
        /\ Terminated(e)' <=> Terminated(e)
        /\ ExitLogged(e)' <=> ExitLogged(e)
  BY DEF Terminated, ExitLogged, Logged
<1>4. QED
  BY <1>1, <1>2, <1>3 DEF SInv

LEMMA SerialSaveEmployee ==
  ASSUME TypeOK, IInv, SInv, OneCall', NEW c \in Calls, SaveEmployee(c)
  PROVE  SInv'
<1> DEFINE r == call[c]
           new == IF r.op \in {"create", "update"} THEN Idle
                  ELSE [r EXCEPT !.at = AfterSave(r.op)]
<1>1. /\ r # Idle /\ r \in Call /\ CallOK(r, employee, slip)
      /\ r.at = "saveEmployee" /\ r.emp \in Employees /\ Fresh(r)
      /\ employee[r.emp] # Null /\ r.row # Null
      /\ r.op \in RowOps
  BY InProgress DEF SaveEmployee, At, CallOK, RowOps, Call, SInv
<1>2. AfterSave(r.op) = IF r.op = "exit" THEN "countUnpaid"
                        ELSE IF r.op \in {"create", "update"} THEN "done"
                        ELSE "saveEvent"
  BY <1>1 DEF AfterSave, RowOps
<1>3. /\ employee' = [employee EXCEPT ![r.emp] = r.row]
      /\ UNCHANGED <<slip, event, unpaid>>
      /\ call' = [call EXCEPT ![c] = new]
  BY <1>2 DEF SaveEmployee, Finish, Goto, TypeOK
<1>4. new \in Call \cup {Idle}
  BY <1>1, <1>2 DEF Call
<1>5. /\ call'[c] = new
      /\ \A d \in Calls \ {c} : call[d] = Idle /\ call'[d] = Idle
  BY <1>1, <1>3, <1>4, Only DEF SInv
<1>6. \A d \in Calls : (call[d] # Idle => Fresh(call[d]))'
  <2>1. r.op \notin {"create", "update"} =>
          new.at \in {"countUnpaid", "saveEvent"}
    BY <1>1, <1>2 DEF Call
  <2>2. QED
    BY <1>5, <2>1 DEF Fresh
<1>7. \A d \in Calls, e \in Employees :
        /\ ~Leaving(d, e)
        /\ Leaving(d, e)' <=> d = c /\ e = r.emp /\ r.op = "exit"
  <2>1. \A d \in Calls, e \in Employees : ~Leaving(d, e)
    BY <1>1, <1>5 DEF Leaving
  <2>2. \A d \in Calls \ {c}, e \in Employees : ~Leaving(d, e)'
    BY <1>5 DEF Leaving
  <2>3. CASE r.op \in {"create", "update"}
    BY <1>5, <2>1, <2>2, <2>3 DEF Leaving
  <2>4. CASE r.op \notin {"create", "update"}
    <3>1. /\ new # Idle /\ new.op = r.op /\ new.emp = r.emp
          /\ new.at # "saveEmployee"
      BY <1>1, <1>2, <1>4, <2>4, RowAssumption DEF Call
    <3>2. QED
      BY <1>5, <2>1, <2>2, <3>1 DEF Leaving
  <2>5. QED
    BY <2>3, <2>4
<1>8. \A e \in Employees :
        e \in recreated' <=> IF e = r.emp /\ r.op \in {"create", "exit"}
                             THEN r.op = "create" ELSE e \in recreated
  BY <1>1 DEF SaveEmployee, RowOps
<1>9. \A e \in Employees :
        Terminated(e)' <=> IF e = r.emp /\ r.op \in {"create", "exit"}
                           THEN r.op = "exit" ELSE Terminated(e)
  <2>1. employee'[r.emp] = r.row
    BY <1>1, <1>3 DEF TypeOK
  <2>2. \A e \in Employees \ {r.emp} : employee'[e] = employee[e]
    BY <1>3 DEF TypeOK
  <2>3. r.row.status = IF r.op = "exit" THEN "TERMINATED"
                       ELSE IF r.op = "create" THEN "ACTIVE"
                       ELSE employee[r.emp].status
    BY <1>1 DEF Fresh, RowOps
  <2>4. QED
    BY <1>1, <2>1, <2>2, <2>3 DEF Terminated
<1>10. \A e \in Employees : ExitLogged(e)' <=> ExitLogged(e)
  BY <1>3 DEF ExitLogged, Logged
<1>11. QED
  BY <1>6, <1>7, <1>8, <1>9, <1>10 DEF SInv

LEMMA SerialSaveEvent ==
  ASSUME TypeOK, IInv, SInv, OneCall', NEW c \in Calls, SaveEvent(c)
  PROVE  SInv'
<1> DEFINE r == call[c]
<1>1. /\ r # Idle /\ r \in Call /\ CallOK(r, employee, slip)
      /\ r.at = "saveEvent" /\ r.emp \in Employees /\ r.month \in Months
      /\ r.op \in {"promote", "transfer", "exit"}
  BY InProgress DEF SaveEvent, At, CallOK, RowOps, Call
<1>2. /\ call' = [call EXCEPT ![c] = Idle]
      /\ event' = event \cup
           {[emp |-> r.emp, month |-> r.month, type |-> EventOf(r.op)]}
      /\ UNCHANGED <<employee, recreated, slip, unpaid>>
  BY DEF SaveEvent, Finish
<1>3. \A d \in Calls : call'[d] = Idle /\ (d # c => call[d] = Idle)
  BY <1>1, <1>2, Only DEF SInv
<1>4. EventOf(r.op) = "EXIT" <=> r.op = "exit"
  BY <1>1 DEF EventOf
<1>5. \A e \in Employees :
        ExitLogged(e)' <=> ExitLogged(e) \/ (e = r.emp /\ r.op = "exit")
  BY <1>1, <1>2, <1>4 DEF ExitLogged, Logged
<1>6. \A d \in Calls, e \in Employees :
        /\ Leaving(d, e) <=> d = c /\ e = r.emp /\ r.op = "exit"
        /\ ~Leaving(d, e)'
  BY <1>1, <1>3 DEF Leaving
<1>7. \A e \in Employees : Terminated(e)' <=> Terminated(e)
  BY <1>2 DEF Terminated
<1>8. QED
  BY <1>2, <1>3, <1>5, <1>6, <1>7 DEF SInv

LEMMA SerialCreateEmployee ==
  ASSUME TypeOK, IInv, SInv, OneCall', NEW e \in Employees,
         NEW dept \in Titles, NEW title \in Titles, NEW email \in Emails,
         CreateEmployee(e, dept, title, email)
  PROVE  SInv'
<1>1. /\ employee[e] = Null /\ employee'[e].status = "ACTIVE"
      /\ \A x \in Employees \ {e} : employee'[x] = employee[x]
      /\ UNCHANGED <<recreated, slip, event, call>>
  BY NewEmployeeType DEF CreateEmployee, TypeOK
<1>2. \A d \in Calls : (call[d] # Idle => Fresh(call[d]))'
  <2> SUFFICES ASSUME NEW d \in Calls, call[d] # Idle
               PROVE  Fresh(call[d])'
    BY <1>1
  <2>1. /\ Fresh(call[d]) /\ CallOK(call[d], employee, slip)
        /\ call[d] \in Call /\ call[d].emp \in Employees
    BY InProgress DEF SInv, Call
  <2>2. call[d].at = "saveEmployee" => call[d].emp # e
    BY <1>1, <2>1 DEF CallOK, RowOps
  <2>3. QED
    BY <1>1, <2>1, <2>2 DEF Fresh
<1>3. \A x \in Employees : Terminated(x)' <=> Terminated(x)
  BY <1>1 DEF Terminated
<1>4. \A x \in Employees :
        /\ ExitLogged(x)' <=> ExitLogged(x)
        /\ \A d \in Calls : Leaving(d, x)' <=> Leaving(d, x)
  BY <1>1 DEF ExitLogged, Logged, Leaving
<1>5. QED
  BY <1>1, <1>2, <1>3, <1>4 DEF SInv

\* Neither rows, calls nor exits change.
LEMMA SerialElse ==
  ASSUME SInv, OneCall', UNCHANGED <<employee, recreated, slip, call>>,
         \A e \in Employees, m \in Months :
           Logged(e, m, "EXIT")' <=> Logged(e, m, "EXIT")
  PROVE  SInv'
<1>1. \A d \in Calls : (call[d] # Idle => Fresh(call[d]))'
  BY DEF SInv, Fresh
<1>2. \A x \in Employees :
        /\ Terminated(x)' <=> Terminated(x)
        /\ ExitLogged(x)' <=> ExitLogged(x)
        /\ \A d \in Calls : Leaving(d, x)' <=> Leaving(d, x)
  BY DEF Terminated, ExitLogged, Leaving
<1>3. QED
  BY <1>1, <1>2 DEF SInv

\* The steps that only move or end a call.
LEMMA SerialStep ==
  ASSUME TypeOK, IInv, SInv, OneCall', NEW c \in Calls, Step(c)
  PROVE  SInv'
<1> DEFINE r == call[c]
<1>1. /\ r # Idle /\ r \in Call /\ CallOK(r, employee, slip) /\ Fresh(r)
  BY InProgress
     DEF SInv, Step, SaveEmployee, CountUnpaid, FindSlip, SaveSlip,
         SaveEvent, Refuse, At
<1>2. CASE CountUnpaid(c)
  <2> DEFINE s == SalarySlip(r.pay, unpaid[<<r.emp, r.month>>] * r.rate)
             new == [r EXCEPT !.at = "findSlip", !.slip = s]
  <2>1. /\ call' = [call EXCEPT ![c] = new] /\ r.at = "countUnpaid"
        /\ UNCHANGED <<employee, recreated, event>>
    BY <1>2 DEF CountUnpaid, At, TypeOK
  <2>2. new \in Call
    <3>1. /\ r.pay \in Salaries /\ r.rate \in Rates
          /\ <<r.emp, r.month>> \in SlipKeys
      BY <1>1, <2>1 DEF CallOK, RowOps, Call, SlipKeys
    <3>2. unpaid[<<r.emp, r.month>>] \in Nat
      BY <3>1, UnpaidAssumption DEF TypeOK
    <3>3. QED
      BY <1>1, <3>1, <3>2, SalarySlipType DEF Call
  <2>3. /\ new.at = "findSlip" /\ new.op = r.op /\ new.emp = r.emp
    BY <1>1 DEF Call
  <2>4. QED
    BY <1>1, <2>1, <2>2, <2>3, SerialMove
<1>3. CASE FindSlip(c)
  <2> DEFINE new == [r EXCEPT !.at = "saveSlip",
                              !.insert = (slip[<<r.emp, r.month>>] = Null)]
  <2>1. /\ call' = [call EXCEPT ![c] = new] /\ r.at = "findSlip"
        /\ UNCHANGED <<employee, recreated, slip, event>>
    BY <1>3 DEF FindSlip, At, TypeOK
  <2>2. /\ new \in Call /\ new.at = "saveSlip" /\ new.op = r.op
        /\ new.emp = r.emp /\ new.month = r.month
        /\ new.insert => slip[<<r.emp, r.month>>] = Null
    BY <1>1 DEF Call
  <2>3. QED
    BY <1>1, <2>1, <2>2, SerialMove
<1>4. CASE SaveSlip(c)
  <2>1. r.at = "saveSlip" /\ UNCHANGED <<employee, recreated, event>>
    BY <1>4 DEF SaveSlip, At
  <2>2. CASE r.op = "exit"
    <3> DEFINE new == [r EXCEPT !.at = "saveEvent"]
    <3>1. call' = [call EXCEPT ![c] = new]
      BY <1>4, <2>2 DEF SaveSlip, Goto, TypeOK
    <3>2. /\ new \in Call /\ new.at = "saveEvent" /\ new.op = r.op
          /\ new.emp = r.emp
      BY <1>1 DEF Call
    <3>3. QED
      BY <1>1, <2>1, <3>1, <3>2, SerialMove
  <2>3. CASE r.op # "exit"
    <3>1. Finish(c)
      BY <1>4, <2>3 DEF SaveSlip
    <3>2. QED
      BY <1>1, <2>1, <2>3, <3>1, SerialEnd
  <2>4. QED
    BY <2>2, <2>3
<1>5. CASE Refuse(c)
  <2>1. r.at = "saveEmployee" \/ (r.at = "saveSlip" /\ Duplicate(r))
    BY <1>5 DEF Refuse, At
  <2>2. r.at = "saveEmployee"
    BY <1>1, <2>1 DEF Fresh, Duplicate
  <2>3. Finish(c) /\ UNCHANGED <<employee, recreated, event>>
    BY <1>5 DEF Refuse
  <2>4. QED
    BY <1>1, <2>2, <2>3, SerialEnd
<1>6. QED
  BY <1>2, <1>3, <1>4, <1>5, SerialSaveEmployee, SerialSaveEvent DEF Step

LEMMA SerialNext ==
  ASSUME TypeOK, IInv, SInv, [Work /\ OneCall']_vars
  PROVE  SInv'
<1>1. CASE UNCHANGED vars
  <2>1. OneCall'
    BY <1>1 DEF vars, SInv, OneCall
  <2>2. QED
    BY <1>1, <2>1, SerialElse DEF vars, Logged
<1> SUFFICES ASSUME Work, OneCall' PROVE SInv'
  BY <1>1
<1>2. ASSUME NEW e \in Employees, NEW dept \in Titles, NEW title \in Titles,
             NEW email \in Emails, CreateEmployee(e, dept, title, email)
      PROVE  SInv'
  BY <1>2, SerialCreateEmployee
<1>3. ASSUME NEW e \in Employees, NEW m \in Months, RecordOnboarding(e, m)
      PROVE  SInv'
  BY <1>3, SerialElse DEF RecordOnboarding, Logged
<1>4. ASSUME NEW e \in Employees, NEW m \in Months,
             NEW days \in 0 .. MaxUnpaid, LeaveChanges(e, m, days)
      PROVE  SInv'
  BY <1>4, SerialElse DEF LeaveChanges, Logged
<1>5. ASSUME NEW c \in Calls, NEW e \in Employees,
             NEW m \in Months \cup {Null}, NEW row \in EmployeeRow,
             NEW op \in {"create", "update", "promote", "transfer"},
             row.status = IF op = "create" THEN "ACTIVE"
                          ELSE employee[e].status,
             Start(c, [NewCall(op, "saveEmployee", e, m) EXCEPT !.row = row])
      PROVE  SInv'
  <2> DEFINE new == [NewCall(op, "saveEmployee", e, m) EXCEPT !.row = row]
  <2>1. new \in Call /\ new.op # "exit" /\ Fresh(new)
    BY <1>5 DEF NewCall, Call, Fresh
  <2>2. QED
    BY <1>5, <2>1, SerialStart
<1>6. ASSUME NEW c \in Calls, NEW e \in Employees, NEW dept \in Titles,
             NEW title \in Titles, UpdateEmployeeDetails(c, e, dept, title)
      PROVE  SInv'
  <2>1. [employee[e] EXCEPT !.dept = dept, !.title = title].status
           = employee[e].status
    BY <1>6 DEF UpdateEmployeeDetails, TypeOK, EmployeeRow
  <2>2. QED
    BY <1>5, <1>6, <2>1, RowsRead DEF UpdateEmployeeDetails
<1>7. ASSUME NEW c \in Calls, NEW e \in Employees, NEW email \in Emails,
             UpdateMyContactDetails(c, e, email)
      PROVE  SInv'
  <2>1. [employee[e] EXCEPT !.email = email].status = employee[e].status
    BY <1>7 DEF UpdateMyContactDetails, TypeOK, EmployeeRow
  <2>2. QED
    BY <1>5, <1>7, <2>1, RowsRead DEF UpdateMyContactDetails
<1>8. ASSUME NEW c \in Calls, NEW e \in Employees, NEW m \in Months,
             NEW title \in Titles, RecordPromotion(c, e, m, title)
      PROVE  SInv'
  <2>1. [employee[e] EXCEPT !.title = title].status = employee[e].status
    BY <1>8 DEF RecordPromotion, TypeOK, EmployeeRow
  <2>2. QED
    BY <1>5, <1>8, <2>1, RowsRead DEF RecordPromotion
<1>9. ASSUME NEW c \in Calls, NEW e \in Employees, NEW m \in Months,
             NEW dept \in Titles, RecordTransfer(c, e, m, dept)
      PROVE  SInv'
  <2>1. [employee[e] EXCEPT !.dept = dept].status = employee[e].status
    BY <1>9 DEF RecordTransfer, TypeOK, EmployeeRow
  <2>2. QED
    BY <1>5, <1>9, <2>1, RowsRead DEF RecordTransfer
<1>10. ASSUME NEW c \in Calls, NEW e \in Employees, NEW m \in Months,
              NEW pay \in Salaries, NEW rate \in Rates,
              RecordExit(c, e, m, pay, rate)
       PROVE  SInv'
  <2> DEFINE row == [employee[e] EXCEPT !.status = "TERMINATED"]
             new == [NewCall("exit", "saveEmployee", e, m) EXCEPT
                       !.row = row, !.pay = pay, !.rate = rate]
  <2>1. row \in EmployeeRow /\ row.status = "TERMINATED"
    BY <1>10 DEF RecordExit, TypeOK, EmployeeRow
  <2>2. new \in Call /\ new.at = "saveEmployee" /\ Fresh(new)
    BY <1>10, <2>1 DEF NewCall, Call, Fresh
  <2>3. Start(c, new)
    BY <1>10 DEF RecordExit
  <2>4. QED
    BY <2>2, <2>3, SerialStart
<1>11. ASSUME NEW c \in Calls, NEW e \in Employees, NEW m \in Months,
              NEW pay \in Salaries, NEW rate \in Rates,
              GenerateSalarySlip(c, e, m, pay, rate)
       PROVE  SInv'
  <2> DEFINE new == [NewCall("generate", "countUnpaid", e, m) EXCEPT
                       !.pay = pay, !.rate = rate]
  <2>1. new \in Call /\ new.op # "exit" /\ Fresh(new)
    BY <1>11 DEF NewCall, Call, Fresh
  <2>2. QED
    BY <1>11, <2>1, SerialStart DEF GenerateSalarySlip
<1>12. ASSUME NEW c \in Calls, NEW e \in Employees, NEW m \in Months,
              MarkSalarySlipAsPaid(c, e, m)
       PROVE  SInv'
  <2> DEFINE s == Paid(slip[<<e, m>>])
             new == [NewCall("pay", "saveSlip", e, m) EXCEPT !.slip = s]
  <2>1. s \in Slip
    BY <1>12, PaidType
       DEF MarkSalarySlipAsPaid, TypeOK, IInv, SlipAddsUp, AddsUp, SlipKeys
  <2>2. new \in Call /\ new.op # "exit" /\ Fresh(new)
    BY <2>1 DEF NewCall, Call, Fresh
  <2>3. QED
    BY <1>12, <2>2, SerialStart DEF MarkSalarySlipAsPaid
<1>13. ASSUME NEW c \in Calls, Step(c)
       PROVE  SInv'
  BY <1>13, SerialStep
<1>14. ASSUME NEW c \in Calls, NEW e \in Employees, NEW dept \in Titles,
              NEW title \in Titles, NEW email \in Emails,
              RecreateEmployee(c, e, dept, title, email)
       PROVE  SInv'
  BY <1>5, <1>14, NewEmployeeType DEF RecreateEmployee
<1>15. QED
  BY <1>2, <1>3, <1>4, <1>6, <1>7, <1>8, <1>9, <1>10, <1>11, <1>12, <1>13,
     <1>14
  DEF Work

\* Where calls come one at a time and none fails, an employee is TERMINATED
\* between them exactly when an exit is in the history that no createEmployee
\* with the employee's id came after: recordExit always gets to its end, and
\* no other tool undoes it or ends an employment.
THEOREM ExitsLast == SerialSpec => []TerminatedIffExited
<1>1. Init => TypeOK /\ IInv /\ SInv
  BY InitOK
     DEF Init, SInv, OneCall, Leaving, Terminated, ExitLogged, Logged
<1>2. TypeOK /\ IInv /\ SInv /\ [Work /\ OneCall']_vars
        => (TypeOK /\ IInv /\ SInv)'
  BY NextOK, SerialNext DEF Next
<1>3. SInv => TerminatedIffExited
  BY DEF SInv, TerminatedIffExited, Quiet, Leaving
<1>4. QED
  BY <1>1, <1>2, <1>3, PTL DEF SerialSpec
=============================================================================
