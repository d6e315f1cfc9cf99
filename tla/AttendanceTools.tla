--------------------------- MODULE AttendanceTools ---------------------------
(***************************************************************************)
(* The attendance tools of the MCP server over the table attendance, one   *)
(* row per employee and day (a unique key).  None is @Transactional: a     *)
(* check-out looks at the clock, finds the row of that day, and saves the  *)
(* whole detached row; a check-in looks at the clock and inserts.  Calls   *)
(* overlap, the clock goes on between their steps, and a call may fail.    *)
(***************************************************************************)
EXTENDS AttendanceData

CONSTANTS
  Employees,  \* employee ids; an id is not looked up
  Calls       \* tool calls in progress at the same time

VARIABLES
  now,  \* the clock of Asia/Kolkata
  call  \* the calls in progress

vars == <<attendance, now, call>>

Keys == Employees \X Days

\* at: checkOut is about to find its row, or a row is about to be saved.
Call ==
  [at : {"find", "insert", "update"}, key : Keys, time : Times,
   row : Row \cup {Nothing}]

TypeOK ==
  /\ attendance \in [Keys -> Row \cup {Nothing}]
  /\ now \in Times
  /\ call \in [Calls -> Call \cup {Nothing}]

Init ==
  /\ attendance = [k \in Keys |-> Nothing]
  /\ now = 0
  /\ call = [c \in Calls |-> Nothing]

-----------------------------------------------------------------------------
(* The calls. *)

Start(c, new) ==
  /\ call[c] = Nothing
  /\ call' = [call EXCEPT ![c] = new]
  /\ UNCHANGED <<attendance, now>>

Finish(c) == call' = [call EXCEPT ![c] = Nothing]

CheckIn(c, e) ==
  Start(c, [at |-> "insert", key |-> <<e, DateOf(now)>>, time |-> now,
            row |-> NewRow(now, "PRESENT")])

CheckOut(c, e) ==
  Start(c, [at |-> "find", key |-> <<e, DateOf(now)>>, time |-> now,
            row |-> Nothing])

At(c, step) == call[c] # Nothing /\ call[c].at = step

\* Wrong on purpose: a check-out finds the day it is when it looks.
FindToday(c) ==
  /\ At(c, "find")
  /\ LET key == <<call[c].key[1], DateOf(now)>>
     IN  IF Open(attendance[key])
         THEN call' = [call EXCEPT ![c].at = "update", ![c].key = key,
                ![c].row = CheckedOut(attendance[key], call[c].time)]
         ELSE Finish(c)
  /\ UNCHANGED <<attendance, now>>

\* findByEmployeeIdAndWorkDate; the tool throws when there is nothing to
\* check out of.
Find(c) ==
  /\ At(c, "find")
  /\ LET row == attendance[call[c].key]
     IN  IF Open(row)
         THEN call' = [call EXCEPT ![c].at = "update",
                ![c].row = CheckedOut(row, call[c].time)]
         ELSE Finish(c)
  /\ UNCHANGED <<attendance, now>>

\* Wrong on purpose: the table without its unique key; the last row counts.
InsertOver(c) ==
  /\ At(c, "insert")
  /\ attendance' = [attendance EXCEPT ![call[c].key] = call[c].row]
  /\ Finish(c)
  /\ UNCHANGED now

\* save of a new row, which the unique key may refuse: the tool throws.
Insert(c) ==
  /\ At(c, "insert")
  /\ attendance' = [attendance EXCEPT ![call[c].key] =
        IF @ = Nothing THEN call[c].row ELSE @]
  /\ Finish(c)
  /\ UNCHANGED now

\* save of the row that was found, over whatever it is by now.
Update(c) ==
  /\ At(c, "update")
  /\ attendance' = [attendance EXCEPT ![call[c].key] = call[c].row]
  /\ Finish(c)
  /\ UNCHANGED now

\* A lost database connection or a crash of the server.
Fail(c) ==
  /\ call[c] # Nothing
  /\ Finish(c)
  /\ UNCHANGED <<attendance, now>>

\* Reads nothing and inserts one row: a single step, or it throws.
MarkStatus(key, status) ==
  /\ attendance[key] = Nothing
  /\ attendance' = [attendance EXCEPT ![key] = NewRow(Nothing, status)]
  /\ UNCHANGED <<now, call>>

Tick ==
  /\ now < MaxTime
  /\ now' = now + 1
  /\ UNCHANGED <<attendance, call>>

Next ==
  \/ Tick
  \/ \E key \in Keys, status \in AttendanceStatus : MarkStatus(key, status)
  \/ \E c \in Calls :
       \/ \E e \in Employees : CheckIn(c, e) \/ CheckOut(c, e)
       \/ Find(c) \/ Insert(c) \/ Update(c) \/ Fail(c)

Spec == Init /\ [][Next]_vars

-----------------------------------------------------------------------------
(* The inductive invariant: the row that a call is about to save fits its  *)
(* day, and a row that it found is still there with its check-in.          *)

CallFits(r, table) ==
  /\ DateOf(r.time) = r.key[2]
  /\ r.at # "find" =>
       r.row # Nothing /\ r.row.checkIn # Nothing /\ RowFits(r.key[2], r.row)
  /\ r.at = "update" =>
       /\ r.row.checkOut # Nothing
       /\ table[r.key] # Nothing
       /\ table[r.key].checkIn = r.row.checkIn

IInv ==
  /\ HoursFitTimes
  /\ \A c \in Calls : call[c] # Nothing => CallFits(call[c], attendance)
=============================================================================
