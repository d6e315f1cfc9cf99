--------------------------- MODULE MCServerTools ---------------------------
(* StaffTools, AttendanceTools and RecordTools for TLC: tools of one server *)
(* that share no table.  A behaviour is of one of four kinds: staff calls   *)
(* come one at a time and none fails; staff calls overlap and fail, and are *)
(* all about the employees and e-mails of Few; calls of the attendance      *)
(* tools; calls of the record tools.  An onboarding only adds to the        *)
(* history what nothing reads: it is enough that employees of Few have one, *)
(* where calls come one at a time.                                          *)
EXTENDS StaffTools, AttendanceData, RecordData

CONSTANTS Few, Expenses, Candidates

VARIABLES kind, now, clocking, filing

Attendance == INSTANCE AttendanceTools WITH
  Employees <- Few \cap Employees, call <- clocking

Records == INSTANCE RecordTools WITH call <- filing

attending == <<attendance, now, clocking>>
recording == <<expense, sent, candidate, named, interview, offer, filing>>

Busy == {c \in Calls : call[c] # Idle}

OneAtATime ==
  /\ Busy' \subseteq {CHOOSE c \in Calls : TRUE}
  /\ unpaid' = unpaid

Rows ==
  {employee[e] : e \in Employees} \cup {call[c].row : c \in Busy}

Touched ==
  {e \in Employees :
     \/ employee[e] # Null
     \/ \E v \in event : v.emp = e
     \/ \E c \in Busy : call[c].emp = e
     \/ \E m \in Months : slip[<<e, m>>] # Null \/ unpaid[<<e, m>>] # 0}
  \cup {r.email : r \in Rows \ {Null}}

Onboarded == {v.emp : v \in {w \in event : w.type = "ONBOARDING"}}

MCInit ==
  /\ kind \in {"alone", "overlapping", "attendance", "records"}
  /\ Init /\ Attendance!Init /\ Records!Init

MCNext ==
  /\ UNCHANGED kind
  /\ \/ /\ kind \in {"alone", "overlapping"}
        /\ IF kind = "alone"
           THEN Work /\ OneAtATime /\ Onboarded' \subseteq Few
           ELSE Next /\ Touched' \subseteq Few /\ Onboarded' = {}
        /\ UNCHANGED <<attending, recording>>
     \/ /\ kind = "attendance"
        /\ Attendance!Next
        /\ UNCHANGED <<vars, recording>>
     \/ /\ kind = "records"
        /\ Records!Next
        /\ UNCHANGED <<vars, attending>>

MCSpec ==
  /\ MCInit
  /\ [][MCNext]_<<kind, vars, attending, recording>>
  /\ \A c \in Calls : WF_vars(Step(c))

\* TerminatedIffExited and ExitGetsLogged, where calls come one at a time.
AloneTerminatedIffExited == kind = "alone" => TerminatedIffExited

AloneExitGetsLogged ==
  \A e \in Employees : (kind = "alone" /\ Terminated(e)) ~> ExitLogged(e)

\* The types of the other tables and of the calls on them.
ToolsTypeOK == Attendance!TypeOK /\ Records!TypeOK
=============================================================================
