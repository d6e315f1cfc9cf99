---------------------------- MODULE ServerProofs ----------------------------
(* The invariants of AttendanceTools and RecordTools, proved for any number *)
(* of employees, days, expenses, candidates, overlapping calls and restarts,*)
(* and those of MCServerTools, the server that has the staff tools as well. *)
EXTENDS MCServerTools, StaffProofs

-----------------------------------------------------------------------------
(* The attendance tools: the rows. *)

AttendanceOK == Attendance!TypeOK /\ Attendance!IInv

LEMMA NothingElse ==
  Nothing \notin Attendance!Times /\ Nothing \notin Attendance!Row
  BY NothingAssumption
     DEF Times, Row, AttendanceStatus, Attendance!Times, Attendance!Row,
         Attendance!AttendanceStatus

LEMMA DateType ==
  ASSUME NEW time \in Attendance!Times
  PROVE  Attendance!DateOf(time) \in Attendance!Days
  BY DEF Attendance!Days

LEMMA NewRowOK ==
  /\ \A t \in Attendance!Times :
       /\ Attendance!NewRow(t, "PRESENT") \in Attendance!Row
       /\ Attendance!NewRow(t, "PRESENT").checkIn = t
       /\ Attendance!RowFits(Attendance!DateOf(t),
                              Attendance!NewRow(t, "PRESENT"))
  /\ \A s \in Attendance!AttendanceStatus, date \in Attendance!Days :
       /\ Attendance!NewRow(Nothing, s) \in Attendance!Row
       /\ Attendance!NewRow(Nothing, s).checkIn = Nothing
       /\ Attendance!RowFits(date, Attendance!NewRow(Nothing, s))
  BY NothingElse
     DEF Attendance!NewRow, Attendance!Row, Attendance!RowFits,
         Attendance!AttendanceStatus, Attendance!Times

\* Within a day the times of day differ by what the times differ by.
LEMMA WorkedSameDay ==
  ASSUME NEW in \in Attendance!Times, NEW out \in Attendance!Times,
         Attendance!DateOf(in) = Attendance!DateOf(out)
  PROVE  Attendance!Worked(in, out) = out - in
<1>1. /\ DayLength \in Nat \ {0} /\ in \in Nat /\ out \in Nat
  BY TimeAssumption DEF Attendance!Times
<1>2. /\ in = DayLength * (in \div DayLength) + (in % DayLength)
      /\ out = DayLength * (out \div DayLength) + (out % DayLength)
      /\ in % DayLength \in Int /\ out % DayLength \in Int
      /\ in \div DayLength \in Int
  BY <1>1
<1>3. in \div DayLength = out \div DayLength
  BY DEF Attendance!DateOf
<1>4. DayLength * (in \div DayLength) = DayLength * (out \div DayLength)
  BY <1>3
<1>5. DayLength * (in \div DayLength) \in Int
  BY <1>1, <1>2
<1> QED
  BY <1>1, <1>2, <1>4, <1>5 DEF Attendance!Worked

LEMMA CheckedOutOK ==
  ASSUME NEW row \in Attendance!Row, NEW date \in Attendance!Days,
         NEW out \in Attendance!Times,
         Attendance!Open(row), Attendance!RowFits(date, row),
         Attendance!DateOf(out) = date
  PROVE  LET new == Attendance!CheckedOut(row, out)
         IN  /\ new \in Attendance!Row
             /\ Attendance!RowFits(date, new)
             /\ new.checkIn = row.checkIn /\ new.checkIn # Nothing
             /\ new.checkOut # Nothing
<1> DEFINE new == Attendance!CheckedOut(row, out)
<1>1. row.checkIn \in Attendance!Times /\ row.checkIn # Nothing
  BY DEF Attendance!Open, Attendance!Row
<1>2. Attendance!DateOf(row.checkIn) = date
  BY <1>1 DEF Attendance!RowFits
<1>3. Attendance!Worked(row.checkIn, out) = out - row.checkIn
  BY <1>1, <1>2, WorkedSameDay
<1>4. /\ out \in Nat /\ row.checkIn \in Nat /\ HalfDay \in Nat \ {0}
      /\ out # Nothing
  BY <1>1, TimeAssumption, NothingElse DEF Attendance!Times
<1>5. Attendance!Hours(row.checkIn, out) =
        IF out > row.checkIn THEN out - row.checkIn ELSE 0
  BY <1>3, <1>4 DEF Attendance!Hours
<1>6. Attendance!Hours(row.checkIn, out) \in Nat
  BY <1>4, <1>5
<1>7. /\ new.checkIn = row.checkIn
      /\ new.checkOut = out
      /\ new.hours = Attendance!Hours(row.checkIn, out)
      /\ new.status = IF out - row.checkIn < HalfDay THEN "HALF_DAY"
                      ELSE "PRESENT"
  BY <1>3 DEF Attendance!CheckedOut, Attendance!Row
<1>8. new \in Attendance!Row
  BY <1>1, <1>6, <1>7
     DEF Attendance!CheckedOut, Attendance!Row, Attendance!AttendanceStatus
<1>9. new.status = IF new.hours < HalfDay THEN "HALF_DAY" ELSE "PRESENT"
  BY <1>4, <1>5, <1>7
<1>10. Attendance!RowFits(date, new)
  BY <1>1, <1>2, <1>4, <1>5, <1>7, <1>9 DEF Attendance!RowFits
<1> QED
  BY <1>1, <1>4, <1>7, <1>8, <1>10

-----------------------------------------------------------------------------
(* The steps of the attendance tools. *)

LEMMA AttendanceInit == Attendance!Init => AttendanceOK
  BY TimeAssumption
     DEF Attendance!Init, AttendanceOK, Attendance!TypeOK, Attendance!IInv,
         Attendance!HoursFitTimes, Attendance!Times

\* What a step changes is the row of one key, and one call.
LEMMA OtherCalls ==
  ASSUME AttendanceOK, NEW c \in Calls, NEW new,
         clocking' = [clocking EXCEPT ![c] = new],
         \A k \in Attendance!Keys : attendance[k] # Nothing =>
           /\ attendance'[k] # Nothing
           /\ attendance'[k].checkIn = attendance[k].checkIn,
         \/ new = Nothing
         \/ new \in Attendance!Call /\ Attendance!CallFits(new, attendance')
  PROVE  /\ clocking' \in [Calls -> Attendance!Call \cup {Nothing}]
         /\ \A d \in Calls :
              clocking'[d] # Nothing =>
                Attendance!CallFits(clocking'[d], attendance')
<1>1. clocking' \in [Calls -> Attendance!Call \cup {Nothing}]
  BY DEF AttendanceOK, Attendance!TypeOK
<1>2. ASSUME NEW d \in Calls, clocking'[d] # Nothing, d # c
      PROVE  Attendance!CallFits(clocking'[d], attendance')
  <2>1. clocking'[d] = clocking[d] /\ clocking[d] \in Attendance!Call
    BY <1>2 DEF AttendanceOK, Attendance!TypeOK
  <2>2. /\ Attendance!CallFits(clocking[d], attendance)
        /\ clocking[d].key \in Attendance!Keys
    BY <1>2, <2>1 DEF AttendanceOK, Attendance!IInv, Attendance!Call
  <2> QED
    BY <2>1, <2>2 DEF Attendance!CallFits
<1>3. clocking'[c] = new
  BY DEF AttendanceOK, Attendance!TypeOK
<1> QED
  BY <1>1, <1>2, <1>3

LEMMA AttendanceStart ==
  ASSUME AttendanceOK, NEW c \in Calls, NEW new \in Attendance!Call,
         Attendance!CallFits(new, attendance), Attendance!Start(c, new)
  PROVE  AttendanceOK'
<1>1. attendance' = attendance /\ now' = now
  BY DEF Attendance!Start
<1>2. /\ clocking' \in [Calls -> Attendance!Call \cup {Nothing}]
      /\ \A d \in Calls :
           clocking'[d] # Nothing =>
             Attendance!CallFits(clocking'[d], attendance')
  BY <1>1, OtherCalls DEF Attendance!Start
<1> QED
  BY <1>1, <1>2
     DEF AttendanceOK, Attendance!TypeOK, Attendance!IInv,
         Attendance!HoursFitTimes

LEMMA CheckInOK ==
  ASSUME AttendanceOK, NEW c \in Calls, NEW e \in (Few \cap Employees),
         Attendance!CheckIn(c, e)
  PROVE  AttendanceOK'
<1> DEFINE new == [at |-> "insert", key |-> <<e, Attendance!DateOf(now)>>,
                   time |-> now, row |-> Attendance!NewRow(now, "PRESENT")]
<1>1. now \in Attendance!Times /\ now # Nothing
  BY NothingElse DEF AttendanceOK, Attendance!TypeOK
<1>2. <<e, Attendance!DateOf(now)>> \in Attendance!Keys
  BY <1>1, DateType DEF Attendance!Keys
<1>3. /\ Attendance!NewRow(now, "PRESENT") \in Attendance!Row
      /\ Attendance!NewRow(now, "PRESENT") # Nothing
  BY <1>1, NewRowOK, NothingElse
<1>4. new \in Attendance!Call
  BY <1>1, <1>2, <1>3 DEF Attendance!Call
<1>5. Attendance!CallFits(new, attendance)
  BY <1>1, <1>3, NewRowOK DEF Attendance!CallFits
<1> QED
  BY <1>4, <1>5, AttendanceStart DEF Attendance!CheckIn

LEMMA CheckOutOK ==
  ASSUME AttendanceOK, NEW c \in Calls, NEW e \in (Few \cap Employees),
         Attendance!CheckOut(c, e)
  PROVE  AttendanceOK'
<1> DEFINE new == [at |-> "find", key |-> <<e, Attendance!DateOf(now)>>,
                   time |-> now, row |-> Nothing]
<1>1. /\ now \in Attendance!Times
      /\ <<e, Attendance!DateOf(now)>> \in Attendance!Keys
  BY DateType DEF AttendanceOK, Attendance!TypeOK, Attendance!Keys
<1>2. new \in Attendance!Call
  BY <1>1 DEF Attendance!Call
<1>3. Attendance!CallFits(new, attendance)
  BY DEF Attendance!CallFits
<1> QED
  BY <1>2, <1>3, AttendanceStart DEF Attendance!CheckOut

LEMMA AttendanceInProgress ==
  ASSUME AttendanceOK, NEW c \in Calls, NEW step, Attendance!At(c, step)
  PROVE  /\ clocking[c] \in Attendance!Call /\ clocking[c].at = step
         /\ clocking[c].key \in Attendance!Keys
         /\ clocking[c].key[2] \in Attendance!Days
         /\ Attendance!CallFits(clocking[c], attendance)
<1>1. /\ clocking[c] \in Attendance!Call
      /\ clocking[c] # Nothing
      /\ clocking[c].at = step
  BY DEF AttendanceOK, Attendance!TypeOK, Attendance!At
<1> QED
  BY <1>1 DEF AttendanceOK, Attendance!IInv, Attendance!Call, Attendance!Keys

LEMMA FindOK ==
  ASSUME AttendanceOK, NEW c \in Calls, Attendance!Find(c)
  PROVE  AttendanceOK'
<1> DEFINE r == clocking[c]
           row == attendance[r.key]
           new == Attendance!CheckedOut(row, r.time)
           next == [r EXCEPT !.at = "update", !.row = new]
<1>1. /\ r \in Attendance!Call
      /\ r.key \in Attendance!Keys
      /\ r.key[2] \in Attendance!Days
      /\ Attendance!CallFits(r, attendance)
  BY AttendanceInProgress DEF Attendance!Find
<1>2. attendance' = attendance /\ now' = now
  BY DEF Attendance!Find
<1>3. CASE ~Attendance!Open(row)
  <2>1. clocking' = [clocking EXCEPT ![c] = Nothing]
    BY <1>3 DEF Attendance!Find, Attendance!Finish
  <2>2. /\ clocking' \in [Calls -> Attendance!Call \cup {Nothing}]
        /\ \A d \in Calls :
             clocking'[d] # Nothing =>
               Attendance!CallFits(clocking'[d], attendance')
    BY <1>2, <2>1, OtherCalls
  <2> QED
    BY <1>2, <2>2
       DEF AttendanceOK, Attendance!TypeOK, Attendance!IInv,
           Attendance!HoursFitTimes
<1>4. CASE Attendance!Open(row)
  <2>1. /\ row \in Attendance!Row
        /\ row # Nothing
        /\ Attendance!RowFits(r.key[2], row)
    BY <1>1, <1>4
       DEF AttendanceOK, Attendance!TypeOK, Attendance!IInv,
           Attendance!HoursFitTimes, Attendance!Open
  <2>2. r.time \in Attendance!Times /\ Attendance!DateOf(r.time) = r.key[2]
    BY <1>1 DEF Attendance!Call, Attendance!CallFits
  <2>3. /\ new \in Attendance!Row /\ Attendance!RowFits(r.key[2], new)
        /\ new.checkIn = row.checkIn /\ new.checkIn # Nothing
        /\ new.checkOut # Nothing
    BY <1>1, <1>4, <2>1, <2>2, CheckedOutOK
  <2>4. /\ next \in Attendance!Call /\ next.at = "update" /\ next.row = new
        /\ next.key = r.key /\ next.time = r.time
    BY <1>1, <2>3 DEF Attendance!Call
  <2>5. new # Nothing
    BY <2>3, NothingElse
  <2>6. Attendance!CallFits(next, attendance')
    BY <1>2, <2>1, <2>2, <2>3, <2>4, <2>5 DEF Attendance!CallFits
  <2>7. clocking' = [clocking EXCEPT ![c] = next]
    BY <1>1, <1>4 DEF AttendanceOK, Attendance!Find, Attendance!TypeOK
  <2>8. /\ clocking' \in [Calls -> Attendance!Call \cup {Nothing}]
        /\ \A d \in Calls :
             clocking'[d] # Nothing =>
               Attendance!CallFits(clocking'[d], attendance')
    BY <1>2, <2>4, <2>6, <2>7, OtherCalls
  <2> QED
    BY <1>2, <2>8
       DEF AttendanceOK, Attendance!TypeOK, Attendance!IInv,
           Attendance!HoursFitTimes
<1> QED
  BY <1>3, <1>4

\* A row that fits its day is written, over nothing or over a row with the
\* same check-in; it is a marked one only where there was none.
LEMMA WriteOK ==
  ASSUME AttendanceOK, NEW key \in Attendance!Keys, NEW row \in Attendance!Row,
         Attendance!RowFits(key[2], row),
         attendance[key] # Nothing =>
           /\ attendance[key].checkIn = row.checkIn
           /\ row.checkIn # Nothing /\ row.checkOut # Nothing,
         attendance' = [attendance EXCEPT ![key] = row]
  PROVE  /\ attendance' \in [Attendance!Keys -> Attendance!Row \cup {Nothing}]
         /\ Attendance!HoursFitTimes'
         /\ \A k \in Attendance!Keys : attendance[k] # Nothing =>
              /\ attendance'[k] # Nothing
              /\ attendance'[k].checkIn = attendance[k].checkIn
              /\ attendance[k].checkIn = Nothing =>
                   attendance'[k] = attendance[k]
              /\ attendance[k].checkOut # Nothing =>
                   attendance'[k].checkOut # Nothing
<1>1. /\ attendance \in [Attendance!Keys -> Attendance!Row \cup {Nothing}]
      /\ row # Nothing
  BY NothingElse DEF AttendanceOK, Attendance!TypeOK
<1>2. \A k \in Attendance!Keys :
        attendance'[k] = IF k = key THEN row ELSE attendance[k]
  BY <1>1
<1>3. Attendance!HoursFitTimes'
  BY <1>2 DEF AttendanceOK, Attendance!IInv, Attendance!HoursFitTimes
<1> QED
  BY <1>1, <1>2, <1>3

LEMMA InsertOK ==
  ASSUME AttendanceOK, NEW c \in Calls, Attendance!Insert(c)
  PROVE  AttendanceOK'
<1> DEFINE r == clocking[c]
<1>1. /\ r \in Attendance!Call /\ r.at = "insert" /\ r.key \in Attendance!Keys
      /\ Attendance!CallFits(r, attendance)
  BY AttendanceInProgress DEF Attendance!Insert
<1>2. r.row \in Attendance!Row /\ Attendance!RowFits(r.key[2], r.row)
  BY <1>1 DEF Attendance!Call, Attendance!CallFits
<1>3. /\ attendance' \in [Attendance!Keys -> Attendance!Row \cup {Nothing}]
      /\ Attendance!HoursFitTimes'
      /\ \A k \in Attendance!Keys : attendance[k] # Nothing =>
           /\ attendance'[k] # Nothing
           /\ attendance'[k].checkIn = attendance[k].checkIn
  <2>1. CASE attendance[r.key] = Nothing
    <3>1. attendance' = [attendance EXCEPT ![r.key] = r.row]
      BY <2>1 DEF Attendance!Insert
    <3> QED
      BY <1>1, <1>2, <2>1, <3>1, WriteOK
  <2>2. CASE attendance[r.key] # Nothing
    <3>1. attendance' = attendance
      BY <2>2 DEF AttendanceOK, Attendance!Insert, Attendance!TypeOK
    <3> QED
      BY <3>1 DEF AttendanceOK, Attendance!TypeOK, Attendance!IInv,
                     Attendance!HoursFitTimes
  <2> QED
    BY <2>1, <2>2
<1>4. clocking' = [clocking EXCEPT ![c] = Nothing] /\ now' = now
  BY DEF Attendance!Insert, Attendance!Finish
<1>5. /\ clocking' \in [Calls -> Attendance!Call \cup {Nothing}]
      /\ \A d \in Calls :
           clocking'[d] # Nothing =>
             Attendance!CallFits(clocking'[d], attendance')
  BY <1>3, <1>4, OtherCalls
<1> QED
  BY <1>3, <1>4, <1>5 DEF AttendanceOK, Attendance!TypeOK, Attendance!IInv

LEMMA UpdateOK ==
  ASSUME AttendanceOK, NEW c \in Calls, Attendance!Update(c)
  PROVE  AttendanceOK'
<1> DEFINE r == clocking[c]
<1>1. /\ r \in Attendance!Call /\ r.at = "update" /\ r.key \in Attendance!Keys
      /\ Attendance!CallFits(r, attendance)
  BY AttendanceInProgress DEF Attendance!Update
<1>2. /\ r.row \in Attendance!Row /\ Attendance!RowFits(r.key[2], r.row)
      /\ attendance[r.key].checkIn = r.row.checkIn
      /\ r.row.checkIn # Nothing /\ r.row.checkOut # Nothing
  BY <1>1 DEF Attendance!Call, Attendance!CallFits
<1>3. attendance' = [attendance EXCEPT ![r.key] = r.row]
  BY DEF Attendance!Update
<1>4. /\ attendance' \in [Attendance!Keys -> Attendance!Row \cup {Nothing}]
      /\ Attendance!HoursFitTimes'
      /\ \A k \in Attendance!Keys : attendance[k] # Nothing =>
           /\ attendance'[k] # Nothing
           /\ attendance'[k].checkIn = attendance[k].checkIn
  BY <1>1, <1>2, <1>3, WriteOK
<1>5. clocking' = [clocking EXCEPT ![c] = Nothing] /\ now' = now
  BY DEF Attendance!Update, Attendance!Finish
<1>6. /\ clocking' \in [Calls -> Attendance!Call \cup {Nothing}]
      /\ \A d \in Calls :
           clocking'[d] # Nothing =>
             Attendance!CallFits(clocking'[d], attendance')
  BY <1>4, <1>5, OtherCalls
<1> QED
  BY <1>4, <1>5, <1>6 DEF AttendanceOK, Attendance!TypeOK, Attendance!IInv

LEMMA AttendanceFail ==
  ASSUME AttendanceOK, NEW c \in Calls, Attendance!Fail(c)
  PROVE  AttendanceOK'
<1>1. /\ attendance' = attendance /\ now' = now
      /\ clocking' = [clocking EXCEPT ![c] = Nothing]
  BY DEF Attendance!Fail, Attendance!Finish
<1>2. /\ clocking' \in [Calls -> Attendance!Call \cup {Nothing}]
      /\ \A d \in Calls :
           clocking'[d] # Nothing =>
             Attendance!CallFits(clocking'[d], attendance')
  BY <1>1, OtherCalls
<1> QED
  BY <1>1, <1>2
     DEF AttendanceOK, Attendance!TypeOK, Attendance!IInv,
         Attendance!HoursFitTimes

LEMMA MarkOK ==
  ASSUME AttendanceOK, NEW key \in Attendance!Keys,
         NEW status \in Attendance!AttendanceStatus,
         Attendance!MarkStatus(key, status)
  PROVE  AttendanceOK'
<1> DEFINE row == Attendance!NewRow(Nothing, status)
<1>1. key[2] \in Attendance!Days
  BY DEF Attendance!Keys
<1>2. row \in Attendance!Row /\ Attendance!RowFits(key[2], row)
  BY <1>1, NewRowOK
<1>3. /\ attendance[key] = Nothing /\ now' = now /\ clocking' = clocking
      /\ attendance' = [attendance EXCEPT ![key] = row]
  BY DEF Attendance!MarkStatus
<1>4. /\ attendance' \in [Attendance!Keys -> Attendance!Row \cup {Nothing}]
      /\ Attendance!HoursFitTimes'
      /\ \A k \in Attendance!Keys : attendance[k] # Nothing =>
           /\ attendance'[k] # Nothing
           /\ attendance'[k].checkIn = attendance[k].checkIn
  BY <1>2, <1>3, WriteOK
<1>5. ASSUME NEW d \in Calls, clocking'[d] # Nothing
      PROVE  Attendance!CallFits(clocking'[d], attendance')
  <2>1. clocking'[d] = clocking[d] /\ clocking[d].key \in Attendance!Keys
    BY <1>3, <1>5 DEF AttendanceOK, Attendance!TypeOK, Attendance!Call
  <2>2. Attendance!CallFits(clocking[d], attendance)
    BY <1>5, <2>1 DEF AttendanceOK, Attendance!IInv
  <2> QED
    BY <1>4, <2>1, <2>2 DEF Attendance!CallFits
<1> QED
  BY <1>3, <1>4, <1>5 DEF AttendanceOK, Attendance!TypeOK, Attendance!IInv

LEMMA TickOK ==
  ASSUME AttendanceOK, Attendance!Tick
  PROVE  AttendanceOK'
<1>1. now' \in Attendance!Times
  BY TimeAssumption
     DEF AttendanceOK, Attendance!TypeOK, Attendance!Tick, Attendance!Times
<1> QED
  BY <1>1
     DEF Attendance!Tick, AttendanceOK, Attendance!TypeOK, Attendance!IInv,
         Attendance!HoursFitTimes

LEMMA AttendanceNext ==
  AttendanceOK /\ [Attendance!Next]_(Attendance!vars) => AttendanceOK'
<1> SUFFICES ASSUME AttendanceOK, [Attendance!Next]_(Attendance!vars)
             PROVE  AttendanceOK'
  OBVIOUS
<1>1. CASE Attendance!Tick
  BY <1>1, TickOK
<1>2. CASE \E key \in Attendance!Keys, status \in Attendance!AttendanceStatus :
             Attendance!MarkStatus(key, status)
  BY <1>2, MarkOK
<1>3. ASSUME NEW c \in Calls, NEW e \in (Few \cap Employees),
             Attendance!CheckIn(c, e) \/ Attendance!CheckOut(c, e)
      PROVE  AttendanceOK'
  BY <1>3, CheckInOK, CheckOutOK
<1>4. ASSUME NEW c \in Calls,
             \/ Attendance!Find(c) \/ Attendance!Insert(c)
             \/ Attendance!Update(c) \/ Attendance!Fail(c)
      PROVE  AttendanceOK'
  BY <1>4, FindOK, InsertOK, UpdateOK, AttendanceFail
<1>5. CASE UNCHANGED Attendance!vars
  BY <1>5
     DEF Attendance!vars, AttendanceOK, Attendance!TypeOK, Attendance!IInv,
         Attendance!HoursFitTimes
<1> QED
  BY <1>1, <1>2, <1>3, <1>4, <1>5 DEF Attendance!Next

-----------------------------------------------------------------------------

\* Every row, and every row a call is about to save, has its type: no hours
\* are negative and every date is one of the calendar's.  The row that a call
\* is about to save fits its day, and a row that it found is still there with
\* its check-in.
THEOREM AttendanceInvariance == Attendance!Spec => []AttendanceOK
<1>1. AttendanceOK /\ [Attendance!Next]_(Attendance!vars) => AttendanceOK'
  BY AttendanceNext
<1> QED
  BY <1>1, AttendanceInit, PTL DEF Attendance!Spec

LEMMA HoursFit == AttendanceOK => HoursFitTimes
  BY DEF AttendanceOK, Attendance!IInv, Attendance!HoursFitTimes,
         Attendance!RowFits, Attendance!DateOf, HoursFitTimes, RowFits, DateOf

\* Hours, status and times of a day belong together and are of that day.
THEOREM HoursAlwaysFit == Attendance!Spec => []HoursFitTimes
  BY HoursFit, AttendanceInvariance, PTL

\* A step keeps what the rows of the days began as.
LEMMA StepKeeps ==
  ASSUME AttendanceOK, [Attendance!Next]_(Attendance!vars),
         NEW k \in Attendance!Keys, attendance[k] # Nothing
  PROVE  /\ attendance'[k] # Nothing
         /\ attendance'[k].checkIn = attendance[k].checkIn
         /\ attendance[k].checkIn = Nothing => attendance'[k] = attendance[k]
         /\ attendance[k].checkOut # Nothing =>
              attendance'[k].checkOut # Nothing
<1>1. CASE attendance' = attendance
  BY <1>1
<1>2. ASSUME NEW c \in Calls, Attendance!Insert(c)
      PROVE  attendance'[k] = attendance[k]
  BY <1>2 DEF AttendanceOK, Attendance!Insert, Attendance!TypeOK
<1>3. ASSUME NEW key \in Attendance!Keys,
             NEW status \in Attendance!AttendanceStatus,
             Attendance!MarkStatus(key, status)
      PROVE  attendance'[k] = attendance[k]
  BY <1>3 DEF AttendanceOK, Attendance!MarkStatus, Attendance!TypeOK
<1>4. ASSUME NEW c \in Calls, Attendance!Update(c)
      PROVE  /\ attendance'[k] # Nothing
             /\ attendance'[k].checkIn = attendance[k].checkIn
             /\ attendance[k].checkIn = Nothing =>
                  attendance'[k] = attendance[k]
             /\ attendance[k].checkOut # Nothing =>
                  attendance'[k].checkOut # Nothing
  <2> DEFINE r == clocking[c]
  <2>1. /\ r \in Attendance!Call
        /\ r.at = "update"
        /\ r.key \in Attendance!Keys
        /\ Attendance!CallFits(r, attendance)
    BY <1>4, AttendanceInProgress DEF Attendance!Update
  <2>2. /\ r.row \in Attendance!Row /\ Attendance!RowFits(r.key[2], r.row)
        /\ attendance[r.key].checkIn = r.row.checkIn
        /\ r.row.checkIn # Nothing /\ r.row.checkOut # Nothing
    BY <2>1 DEF Attendance!Call, Attendance!CallFits
  <2>3. attendance' = [attendance EXCEPT ![r.key] = r.row]
    BY <1>4 DEF Attendance!Update
  <2> QED
    BY <2>1, <2>2, <2>3, WriteOK
<1>5. \/ attendance' = attendance
      \/ \E c \in Calls : Attendance!Insert(c) \/ Attendance!Update(c)
      \/ \E key \in Attendance!Keys, status \in Attendance!AttendanceStatus :
           Attendance!MarkStatus(key, status)
  BY DEF Attendance!Next, Attendance!vars, Attendance!Tick,
         Attendance!CheckIn, Attendance!CheckOut, Attendance!Start,
         Attendance!Find, Attendance!Fail
<1> QED
  BY <1>1, <1>2, <1>3, <1>4, <1>5

LEMMA DaysKept ==
  AttendanceOK /\ [Attendance!Next]_(Attendance!vars) =>
    [\A k \in DOMAIN attendance : attendance[k] # Nothing =>
       /\ attendance'[k] # Nothing
       /\ attendance'[k].checkIn = attendance[k].checkIn
       /\ attendance[k].checkIn = Nothing => attendance'[k] = attendance[k]
       /\ attendance[k].checkOut # Nothing =>
            attendance'[k].checkOut # Nothing]_attendance
<1>1. AttendanceOK => DOMAIN attendance = Attendance!Keys
  BY DEF AttendanceOK, Attendance!TypeOK
<1> QED
  BY <1>1, StepKeeps

\* What a day began as it stays, whatever calls overwrite.
THEOREM DaysAreKept == Attendance!Spec => DayKept
  BY DaysKept, AttendanceInvariance, PTL DEF Attendance!Spec, DayKept

-----------------------------------------------------------------------------

IdleCall == [at |-> "idle"]

(* The record tools: calls. *)

RecordsOK == Records!TypeOK /\ Records!IInv

LEMMA RecordsInit == Records!Init => RecordsOK
  BY DEF Records!Init, RecordsOK, Records!TypeOK, Records!IInv, Records!Call,
         Records!Backed,
         Records!StatusHasRecord

\* What a call relies on stays so while candidates, interviews and offers
\* stay.
LEMMA FilingKept ==
  ASSUME RecordsOK, NEW c \in Calls, NEW new \in Records!Call,
         filing' = [filing EXCEPT ![c] = new],
         interview \subseteq interview', offer \subseteq offer',
         \A i \in Candidates : candidate[i] # "none" => candidate'[i] # "none",
         Records!Backed(new)'
  PROVE  /\ filing' \in [Calls -> Records!Call]
         /\ \A d \in Calls : Records!Backed(filing[d])'
<1>1. filing' \in [Calls -> Records!Call] /\ filing'[c] = new
  BY DEF RecordsOK, Records!TypeOK
<1>2. ASSUME NEW d \in Calls, d # c
      PROVE  Records!Backed(filing[d])'
  <2>1. /\ filing'[d] = filing[d]
        /\ filing[d] \in Records!Call
        /\ Records!Backed(filing[d])
    BY <1>2 DEF RecordsOK, Records!TypeOK, Records!IInv
  <2> QED
    BY <2>1 DEF Records!Backed, Records!Call
<1>3. Records!Backed(filing[c])'
  BY <1>1 DEF Records!Backed
<1> QED
  BY <1>1, <1>2, <1>3

LEMMA RecordsInProgress ==
  ASSUME RecordsOK, NEW c \in Calls
  PROVE  /\ filing[c] \in Records!Call /\ Records!Backed(filing[c])
         /\ filing[c].at \in {"send", "decide"} => filing[c].id \in Expenses
         /\ filing[c].at = "decide" =>
              filing[c].status \in {"APPROVED", "REJECTED"}
         /\ filing[c].at \in {"record", "move", "name"} =>
              /\ filing[c].id \in Candidates
              /\ filing[c].status \in Records!CandidateStatus
  BY DEF RecordsOK, Records!TypeOK, Records!IInv, Records!Call

\* Starting a call that is backed changes nothing else.
LEMMA RecordsStart ==
  ASSUME RecordsOK, NEW c \in Calls, NEW new \in Records!Call,
         Records!Backed(new),
         Records!Start(c, new)
  PROVE  RecordsOK'
<1>1. /\ expense' = expense /\ sent' = sent
      /\ candidate' = candidate /\ named' = named
      /\ interview' = interview /\ offer' = offer
      /\ filing' = [filing EXCEPT ![c] = new]
  BY DEF Records!Start, Records!expenses, Records!candidates
<1>2. Records!Backed(new)'
  BY <1>1 DEF Records!Backed
<1>3. /\ filing' \in [Calls -> Records!Call]
      /\ \A d \in Calls : Records!Backed(filing[d])'
  BY <1>1, <1>2, FilingKept
<1>4. Records!TypeOK'
  BY <1>1, <1>3 DEF RecordsOK, Records!TypeOK
<1>5. Records!StatusHasRecord'
  BY <1>1 DEF RecordsOK, Records!IInv, Records!StatusHasRecord
<1> QED
  BY <1>1, <1>3, <1>4, <1>5
     DEF RecordsOK, Records!IInv

-----------------------------------------------------------------------------
(* Expenses. *)

LEMMA SubmitOK ==
  ASSUME RecordsOK, NEW i \in Expenses, Records!SubmitExpense(i)
  PROVE  RecordsOK'
<1>1. /\ sent' = sent /\ filing' = filing
      /\ candidate' = candidate /\ named' = named
      /\ interview' = interview /\ offer' = offer
      /\ expense' = [expense EXCEPT ![i] = "SUBMITTED"]
  BY DEF Records!SubmitExpense, Records!candidates
<1>2. \A d \in Calls : Records!Backed(filing[d])'
  BY <1>1 DEF RecordsOK, Records!IInv, Records!Backed
<1> QED
  BY <1>1, <1>2
     DEF RecordsOK, Records!TypeOK, Records!IInv, Records!StatusHasRecord,
         Records!ExpenseStatus

LEMMA DecideOK ==
  ASSUME RecordsOK, NEW c \in Calls, NEW i \in Expenses,
         NEW status \in {"APPROVED", "REJECTED"},
         Records!DecideExpense(c, i, status)
  PROVE  RecordsOK'
<1> DEFINE new == [at |-> "decide", id |-> i, status |-> status]
<1>1. new \in Records!Call /\ Records!Backed(new)
  BY DEF Records!Call, Records!Backed
<1> QED
  BY <1>1, RecordsStart DEF Records!DecideExpense

LEMMA PutDecisionOK ==
  ASSUME RecordsOK, NEW c \in Calls, Records!PutDecision(c)
  PROVE  RecordsOK'
<1> DEFINE r == filing[c]
<1>1. /\ r.at = "decide"
      /\ r.id \in Expenses
      /\ r.status \in Records!ExpenseStatus
  BY RecordsInProgress DEF Records!PutDecision, Records!ExpenseStatus
<1>2. /\ sent' = sent /\ candidate' = candidate /\ named' = named
      /\ interview' = interview /\ offer' = offer
      /\ expense' = [expense EXCEPT ![r.id] = r.status]
      /\ filing' = [filing EXCEPT ![c] = IdleCall]
  BY DEF Records!PutDecision, Records!Finish, Records!candidates, IdleCall
<1>3. IdleCall \in Records!Call /\ Records!Backed(IdleCall)'
  BY DEF IdleCall, Records!Call, Records!Backed
<1>4. /\ filing' \in [Calls -> Records!Call]
      /\ \A d \in Calls : Records!Backed(filing[d])'
  BY <1>2, <1>3, FilingKept
<1>5. expense' \in [Expenses -> Records!ExpenseStatus \cup {"none"}]
  BY <1>1, <1>2 DEF RecordsOK, Records!TypeOK
<1> QED
  BY <1>2, <1>4, <1>5
     DEF RecordsOK, Records!TypeOK, Records!IInv, Records!StatusHasRecord

LEMMA ForwardOK ==
  ASSUME RecordsOK, NEW c \in Calls, NEW i \in Expenses,
         Records!SendExpenseToPayroll(c, i)
  PROVE  RecordsOK'
<1> DEFINE new == [at |-> "send", id |-> i]
<1>1. new \in Records!Call /\ Records!Backed(new)
  BY DEF Records!Call, Records!Backed
<1> QED
  BY <1>1, RecordsStart DEF Records!SendExpenseToPayroll

LEMMA SendOK ==
  ASSUME RecordsOK, NEW c \in Calls, Records!Send(c)
  PROVE  RecordsOK'
<1> DEFINE r == filing[c]
<1>1. r.at = "send" /\ r.id \in Expenses
  BY RecordsInProgress DEF Records!Send, Records!Backed
<1>2. /\ expense' = expense
      /\ candidate' = candidate /\ named' = named
      /\ interview' = interview /\ offer' = offer
      /\ sent' = sent \cup {r.id}
      /\ filing' = [filing EXCEPT ![c] = IdleCall]
  BY DEF Records!Send, Records!Finish, Records!candidates, IdleCall
<1>3. IdleCall \in Records!Call /\ Records!Backed(IdleCall)'
  BY DEF IdleCall, Records!Call, Records!Backed
<1>4. /\ filing' \in [Calls -> Records!Call]
      /\ \A d \in Calls : Records!Backed(filing[d])'
  BY <1>2, <1>3, FilingKept
<1> QED
  BY <1>1, <1>2, <1>4
     DEF RecordsOK, Records!TypeOK, Records!IInv, Records!StatusHasRecord

-----------------------------------------------------------------------------
(* Candidates. *)

LEMMA CreateOK ==
  ASSUME RecordsOK, NEW i \in Candidates, Records!CreateCandidate(i)
  PROVE  RecordsOK'
<1>1. /\ expense' = expense /\ sent' = sent
      /\ named' = named /\ interview' = interview /\ offer' = offer
      /\ filing' = filing
      /\ candidate' = [candidate EXCEPT ![i] = "APPLIED"]
  BY DEF Records!CreateCandidate, Records!expenses
<1>2. candidate' \in [Candidates -> Records!CandidateStatus \cup {"none"}]
  BY <1>1 DEF RecordsOK, Records!TypeOK, Records!CandidateStatus
<1>3. \A j \in Candidates :
        /\ candidate[j] # "none" => candidate'[j] # "none"
        /\ candidate'[j] \in {"OFFERED", "INTERVIEW_SCHEDULED"} =>
             candidate'[j] = candidate[j]
  BY <1>1 DEF RecordsOK, Records!TypeOK
<1>4. \A d \in Calls : Records!Backed(filing[d])'
  <2> SUFFICES ASSUME NEW d \in Calls
               PROVE  Records!Backed(filing[d])'
    OBVIOUS
  <2>1. filing'[d] = filing[d] /\ Records!Backed(filing[d])
    BY <1>1 DEF RecordsOK, Records!IInv
  <2>2. filing[d].at \in {"record", "move", "name"} =>
          filing[d].id \in Candidates
    BY RecordsInProgress
  <2> QED
    BY <1>1, <1>3, <2>1, <2>2 DEF Records!Backed
<1>5. Records!StatusHasRecord'
  BY <1>1, <1>3 DEF RecordsOK, Records!IInv, Records!StatusHasRecord
<1> QED
  BY <1>1, <1>2, <1>4, <1>5
     DEF RecordsOK, Records!TypeOK, Records!IInv

LEMMA SetStatusOK ==
  ASSUME RecordsOK, NEW c \in Calls, NEW i \in Candidates,
         NEW status \in {"SHORTLISTED", "REJECTED"},
         Records!SetCandidateStatus(c, i, status)
  PROVE  RecordsOK'
<1> DEFINE new == [at |-> "move", id |-> i, status |-> status]
<1>1. new \in Records!Call
  BY DEF Records!Call, Records!CandidateStatus
<1>2. Records!Backed(new)
  BY DEF Records!Backed, Records!SetCandidateStatus
<1> QED
  BY <1>1, <1>2, RecordsStart DEF Records!SetCandidateStatus

LEMMA MoveOK ==
  ASSUME RecordsOK, NEW c \in Calls, NEW i \in Candidates,
         NEW stage \in Records!CandidateStatus,
         Records!MoveCandidateStage(c, i, stage)
  PROVE  RecordsOK'
<1> DEFINE new == [at |-> "name", id |-> i, status |-> stage]
<1>1. new \in Records!Call
  BY DEF Records!Call
<1>2. Records!Backed(new)
  BY DEF Records!Backed, Records!MoveCandidateStage
<1> QED
  BY <1>1, <1>2, RecordsStart DEF Records!MoveCandidateStage

LEMMA InviteOK ==
  ASSUME RecordsOK, NEW c \in Calls, NEW i \in Candidates,
         NEW status \in {"INTERVIEW_SCHEDULED", "OFFERED"},
         Records!Invite(c, i, status)
  PROVE  RecordsOK'
<1> DEFINE new == [at |-> "record", id |-> i, status |-> status]
<1>1. new \in Records!Call
  BY DEF Records!Call, Records!CandidateStatus
<1>2. Records!Backed(new)
  BY DEF Records!Backed, Records!Invite
<1> QED
  BY <1>1, <1>2, RecordsStart DEF Records!Invite

LEMMA RecordOK ==
  ASSUME RecordsOK, NEW c \in Calls, Records!Record(c)
  PROVE  RecordsOK'
<1> DEFINE r == filing[c]
<1>1. /\ r \in Records!Call /\ r.at = "record" /\ r.id \in Candidates
      /\ r.status \in {"INTERVIEW_SCHEDULED", "OFFERED"}
      /\ candidate[r.id] # "none"
  BY RecordsInProgress DEF Records!Record, Records!Backed
<1>a. [r EXCEPT !.at = "move"] \in Records!Call
  BY <1>1 DEF Records!Call, Records!CandidateStatus
<1>b. PICK new \in Records!Call : new = [r EXCEPT !.at = "move"]
  BY <1>a
<1>2. /\ expense' = expense /\ sent' = sent
      /\ candidate' = candidate /\ named' = named
      /\ filing' = [filing EXCEPT ![c] = new]
  BY <1>b DEF RecordsOK, Records!Record, Records!expenses, Records!TypeOK
<1>3. /\ offer' = IF r.status = "OFFERED" THEN offer \cup {r.id} ELSE offer
      /\ interview' = IF r.status = "OFFERED" THEN interview
                      ELSE interview \cup {r.id}
  BY DEF Records!Record
<1>4. new.at = "move" /\ new.id = r.id /\ new.status = r.status
  BY <1>1, <1>b DEF Records!Call
<1>5. Records!Backed(new)'
  BY <1>1, <1>2, <1>3, <1>4 DEF Records!Backed
<1>6. /\ filing' \in [Calls -> Records!Call]
      /\ \A d \in Calls : Records!Backed(filing[d])'
  BY <1>2, <1>3, <1>5, FilingKept
<1>7. offer' \subseteq Candidates /\ interview' \subseteq Candidates
  BY <1>1, <1>3 DEF RecordsOK, Records!TypeOK
<1>8. Records!StatusHasRecord'
  BY <1>1, <1>2, <1>3 DEF RecordsOK, Records!IInv, Records!StatusHasRecord
<1> QED
  BY <1>2, <1>6, <1>7, <1>8
     DEF RecordsOK, Records!TypeOK, Records!IInv

LEMMA PutCandidateOK ==
  ASSUME RecordsOK, NEW c \in Calls, Records!PutCandidate(c)
  PROVE  RecordsOK'
<1> DEFINE r == filing[c]
<1>1. /\ r.at \in {"move", "name"} /\ r.id \in Candidates
      /\ r.status \in Records!CandidateStatus /\ Records!Backed(r)
  BY RecordsInProgress DEF Records!PutCandidate
<1>2. /\ expense' = expense /\ sent' = sent
      /\ interview' = interview /\ offer' = offer
      /\ candidate' = [candidate EXCEPT ![r.id] = r.status]
      /\ named' = IF r.at = "name" THEN named \cup {r.id}
                  ELSE named \ {r.id}
      /\ filing' = [filing EXCEPT ![c] = IdleCall]
  BY DEF Records!PutCandidate, Records!Finish, Records!expenses, IdleCall
<1>3. IdleCall \in Records!Call /\ Records!Backed(IdleCall)'
  BY DEF IdleCall, Records!Call, Records!Backed
<1>4. /\ candidate' \in [Candidates -> Records!CandidateStatus \cup {"none"}]
      /\ named' \subseteq Candidates
  BY <1>1, <1>2 DEF RecordsOK, Records!TypeOK
<1>5. \A j \in Candidates :
        candidate'[j] = IF j = r.id THEN r.status ELSE candidate[j]
  BY <1>1, <1>2 DEF RecordsOK, Records!TypeOK
<1>6. r.status # "none"
  BY <1>1 DEF Records!CandidateStatus
<1>7. /\ filing' \in [Calls -> Records!Call]
      /\ \A d \in Calls : Records!Backed(filing[d])'
  <2>1. \A i \in Candidates : candidate[i] # "none" => candidate'[i] # "none"
    BY <1>5, <1>6
  <2> QED
    BY <1>2, <1>3, <2>1, FilingKept
<1>8. Records!StatusHasRecord'
  BY <1>1, <1>2, <1>5, <1>6
     DEF RecordsOK, Records!IInv, Records!StatusHasRecord, Records!Backed
<1> QED
  BY <1>2, <1>4, <1>7, <1>8
     DEF RecordsOK, Records!TypeOK, Records!IInv

-----------------------------------------------------------------------------

LEMMA RestartOK == Records!Restart => RecordsOK'
  BY DEF Records!Restart, RecordsOK, Records!TypeOK, Records!IInv,
         Records!Call, Records!Backed,
         Records!StatusHasRecord

LEMMA RecordsNext ==
  RecordsOK /\ [Records!Next]_(Records!vars) => RecordsOK'
<1> SUFFICES ASSUME RecordsOK, [Records!Next]_(Records!vars)
             PROVE  RecordsOK'
  OBVIOUS
<1>1. CASE \E i \in Expenses : Records!SubmitExpense(i)
  BY <1>1, SubmitOK
<1>2. CASE \E i \in Candidates : Records!CreateCandidate(i)
  BY <1>2, CreateOK
<1>3. ASSUME NEW c \in Calls, NEW i \in Expenses,
             \/ \E status \in {"APPROVED", "REJECTED"} :
                  Records!DecideExpense(c, i, status)
             \/ Records!SendExpenseToPayroll(c, i)
      PROVE  RecordsOK'
  BY <1>3, DecideOK, ForwardOK
<1>4. ASSUME NEW c \in Calls, NEW i \in Candidates,
             \/ \E status \in {"SHORTLISTED", "REJECTED"} :
                  Records!SetCandidateStatus(c, i, status)
             \/ \E stage \in Records!CandidateStatus :
                  Records!MoveCandidateStage(c, i, stage)
             \/ \E status \in {"INTERVIEW_SCHEDULED", "OFFERED"} :
                  Records!Invite(c, i, status)
      PROVE  RecordsOK'
  BY <1>4, SetStatusOK, MoveOK, InviteOK
<1>5. ASSUME NEW c \in Calls,
             \/ Records!PutDecision(c) \/ Records!Send(c)
             \/ Records!Record(c) \/ Records!PutCandidate(c)
      PROVE  RecordsOK'
  BY <1>5, PutDecisionOK, SendOK, RecordOK, PutCandidateOK
<1>6. CASE Records!Restart
  BY <1>6, RestartOK
<1>7. CASE UNCHANGED Records!vars
  BY <1>7
     DEF Records!vars, RecordsOK, Records!TypeOK, Records!IInv,
         Records!Backed, Records!StatusHasRecord
<1> QED
  BY <1>1, <1>2, <1>3, <1>4, <1>5, <1>6, <1>7 DEF Records!Next

-----------------------------------------------------------------------------

\* Records, notifications and calls in progress have their types, under
\* overlap and restarts, and what a call relies on stays so until the server
\* restarts.
THEOREM RecordsInvariance == Records!Spec => []RecordsOK
<1>1. RecordsOK /\ [Records!Next]_(Records!vars) => RecordsOK'
  BY RecordsNext
<1> QED
  BY <1>1, RecordsInit, PTL DEF Records!Spec

\* An offer or interview that a candidate's status shows exists, and every
\* offer and interview is of a known candidate.
THEOREM StatusesHaveRecords == Records!Spec => []StatusHasRecord
<1>1. RecordsOK => StatusHasRecord
  BY DEF RecordsOK, Records!IInv, Records!StatusHasRecord, StatusHasRecord
<1> QED
  BY <1>1, RecordsInvariance, PTL

-----------------------------------------------------------------------------
(* The server, as MCServerTools puts it together. *)

\* A call that works while no other does is the only call.
LEMMA OneThread == OneAtATime => OneCall'
<1> SUFFICES ASSUME OneAtATime, NEW c \in Calls, NEW d \in Calls,
                    call'[c] # Idle, call'[d] # Idle
             PROVE  c = d
  BY DEF OneCall
<1>1. PICK only : Busy' \subseteq {only}
  BY DEF OneAtATime
<1>2. c \in Busy' /\ d \in Busy'
  BY DEF Busy
<1> QED
  BY <1>1, <1>2

\* A step of the server is a step of one group of tools, and none of the
\* others; of the staff tools one at a time, if the server is of that kind.
LEMMA ServerStep ==
  ASSUME [MCNext]_<<kind, vars, attending, recording>>
  PROVE  /\ kind' = kind
         /\ [Next]_vars
         /\ kind = "alone" => [Work /\ OneCall']_vars
         /\ [Attendance!Next]_(Attendance!vars)
         /\ [Records!Next]_(Records!vars)
<1>1. CASE UNCHANGED <<kind, vars, attending, recording>>
  BY <1>1 DEF attending, recording, Attendance!vars, Records!vars
<1>2. CASE MCNext
  <2>1. kind' = kind
    BY <1>2 DEF MCNext
  <2>2. CASE /\ IF kind = "alone"
                THEN Work /\ OneAtATime /\ Onboarded' \subseteq Few
                ELSE Next /\ Touched' \subseteq Few /\ Onboarded' = {}
             /\ UNCHANGED <<attending, recording>>
    BY <2>1, <2>2, OneThread
       DEF Next, attending, recording, Attendance!vars, Records!vars
  <2>3. CASE Attendance!Next /\ UNCHANGED <<vars, recording>>
    BY <2>1, <2>3 DEF recording, Records!vars
  <2>4. CASE Records!Next /\ UNCHANGED <<vars, attending>>
    BY <2>1, <2>4 DEF attending, Attendance!vars
  <2> QED
    BY <1>2, <2>2, <2>3, <2>4 DEF MCNext
<1> QED
  BY <1>1, <1>2

\* The groups of tools share no table: what a behaviour of the server, of
\* whichever kind, shows of a group is a behaviour of that group, so that what
\* is proved of the group holds of the server.
THEOREM ServerRunsTools ==
  MCSpec => Spec /\ Attendance!Spec /\ Records!Spec
<1>1. MCInit => Init /\ Attendance!Init /\ Records!Init
  BY DEF MCInit
<1>2. [MCNext]_<<kind, vars, attending, recording>> =>
        /\ [Next]_vars
        /\ [Attendance!Next]_(Attendance!vars)
        /\ [Records!Next]_(Records!vars)
  BY ServerStep
<1> QED
  BY <1>1, <1>2, PTL DEF MCSpec, Spec, Attendance!Spec, Records!Spec

\* On the server every row and every call keeps its type, whatever overlaps,
\* fails or restarts.
THEOREM ServerTypeCorrect == MCSpec => [](TypeOK /\ ToolsTypeOK)
<1>1. AttendanceOK /\ RecordsOK => ToolsTypeOK
  BY DEF AttendanceOK, RecordsOK, ToolsTypeOK
<1> QED
  BY <1>1, ServerRunsTools, TypeCorrect, AttendanceInvariance,
     RecordsInvariance, PTL

\* On the server exits are settled, slips add up, hours fit their times, and
\* statuses have their records.
THEOREM ServerStaysConsistent ==
  MCSpec => [](/\ ExitWasSettled /\ SlipAddsUp /\ HoursFitTimes
               /\ StatusHasRecord)
  BY ServerRunsTools, ExitsAreSettled, SlipsAddUp, HoursAlwaysFit,
     StatusesHaveRecords, PTL

\* On a server whose staff calls come one at a time and do not fail, an
\* employee is TERMINATED between calls exactly when an exit is in the history
\* that no createEmployee with the employee's id came after.
THEOREM AloneExitsLast == MCSpec => []AloneTerminatedIffExited
<1> DEFINE Inv == TypeOK /\ IInv /\ (kind = "alone" => SInv)
<1>1. MCInit => Inv
  <2>1. Init => SInv
    BY DEF Init, SInv, OneCall, Leaving, Terminated, ExitLogged, Logged
  <2> QED
    BY <2>1, InitOK DEF MCInit
<1>2. Inv /\ [MCNext]_<<kind, vars, attending, recording>> => Inv'
  <2> SUFFICES ASSUME Inv, [MCNext]_<<kind, vars, attending, recording>>
               PROVE  Inv'
    OBVIOUS
  <2>1. /\ kind' = kind
        /\ [Next]_vars
        /\ kind = "alone" => [Work /\ OneCall']_vars
    BY ServerStep
  <2>2. TypeOK' /\ IInv'
    BY <2>1, NextOK
  <2>3. CASE kind = "alone"
    <3>1. SInv'
      BY <2>1, <2>3, SerialNext
    <3> QED
      BY <2>2, <3>1
  <2> QED
    BY <2>1, <2>2, <2>3
<1>3. Inv => AloneTerminatedIffExited
  BY DEF SInv, AloneTerminatedIffExited, TerminatedIffExited, Quiet, Leaving
<1> QED
  BY <1>1, <1>2, <1>3, PTL DEF MCSpec
=============================================================================
