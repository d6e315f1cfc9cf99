--------------------------- MODULE AttendanceData ---------------------------
(***************************************************************************)
(* The table attendance, what the attendance tools compute its rows with,  *)
(* and what holds of it; AttendanceTools is the state machine over it.     *)
(*                                                                         *)
(* A time counts the hours since some midnight, so it has its date with    *)
(* it; only its time of day is compared.                                   *)
(***************************************************************************)
EXTENDS Integers

CONSTANTS
  MaxTime,    \* bound: the clock stops there
  DayLength,  \* hours of a day
  HalfDay,    \* a day with fewer hours is a HALF_DAY
  Nothing     \* no row, no check-in, no check-out, no call

VARIABLE attendance  \* by its unique key (employeeId, workDate)

ASSUME TimeAssumption ==
  MaxTime \in Nat /\ DayLength \in Nat \ {0} /\ HalfDay \in Nat \ {0}

Times == 0 .. MaxTime
DateOf(time) == time \div DayLength
Days == {DateOf(time) : time \in Times}

\* markStatus takes any of them.
AttendanceStatus ==
  {"PRESENT", "ABSENT", "HALF_DAY", "ON_LEAVE", "HOLIDAY", "WEEK_OFF"}

Row ==
  [checkIn : Times \cup {Nothing}, checkOut : Times \cup {Nothing},
   hours : Nat, status : AttendanceStatus]

ASSUME NothingAssumption == Nothing \notin Times /\ Nothing \notin Row

NewRow(in, status) ==
  [checkIn |-> in, checkOut |-> Nothing, hours |-> 0, status |-> status]

\* Duration.between the two times of day
Worked(in, out) == (out % DayLength) - (in % DayLength)

\* Wrong on purpose: the hours are not clamped.
HoursUnclamped(in, out) == Worked(in, out)

\* Math.max(hours, 0)
Hours(in, out) == IF Worked(in, out) > 0 THEN Worked(in, out) ELSE 0

\* Wrong on purpose: the status is left as the check-in set it.
CheckedOutPresent(row, out) ==
  [row EXCEPT !.checkOut = out, !.hours = Hours(row.checkIn, out)]

CheckedOut(row, out) ==
  [row EXCEPT !.checkOut = out, !.hours = Hours(row.checkIn, out),
     !.status = IF Worked(row.checkIn, out) < HalfDay THEN "HALF_DAY"
                ELSE "PRESENT"]

\* The guards of checkOut.
Open(row) ==
  row # Nothing /\ row.checkIn # Nothing /\ row.checkOut = Nothing

\* The row of a date: its hours, its status and its times belong together.
RowFits(date, row) ==
  /\ row.checkIn # Nothing => DateOf(row.checkIn) = date
  /\ row.checkOut = Nothing =>
       /\ row.hours = 0
       /\ row.checkIn # Nothing => row.status = "PRESENT"
  /\ row.checkOut # Nothing =>
       /\ row.checkIn # Nothing /\ DateOf(row.checkOut) = date
       /\ row.hours = IF row.checkOut > row.checkIn
                      THEN row.checkOut - row.checkIn ELSE 0
       /\ row.status = IF row.hours < HalfDay THEN "HALF_DAY" ELSE "PRESENT"

-----------------------------------------------------------------------------
(* Properties that survive every interleaving. *)

\* The hours, the status and the two times of a day belong together and are
\* of that day, whichever of two check-outs saved last, also when a check-out
\* that looked at the clock first finds a later check-in (Math.max(hours, 0))
\* and when a call starts before midnight and saves after it.
HoursFitTimes ==
  \A k \in DOMAIN attendance :
    attendance[k] # Nothing => RowFits(k[2], attendance[k])

\* What a day began as it stays: check-in and marking exclude each other
\* however they race, a row never loses its check-in or gets another, a
\* marked day is not touched, a day that was checked out stays so.
DayKept ==
  [][\A k \in DOMAIN attendance : attendance[k] # Nothing =>
       /\ attendance'[k] # Nothing
       /\ attendance'[k].checkIn = attendance[k].checkIn
       /\ attendance[k].checkIn = Nothing => attendance'[k] = attendance[k]
       /\ attendance[k].checkOut # Nothing =>
            attendance'[k].checkOut # Nothing]_attendance
=============================================================================
