----------------------------- MODULE RecordData -----------------------------
(***************************************************************************)
(* The maps of the record tools of the MCP server and what holds of them;  *)
(* RecordTools is the state machine over them.                             *)
(***************************************************************************)
VARIABLES
  expense,    \* expenses: the status of each, "none" if there is none
  sent,       \* the expenses that payroll was asked to reimburse
  candidate,  \* candidates: the status of each, "none" if there is none
  named,      \* the candidates whose status moveCandidateStage set (history)
  interview,  \* the candidates with an interview
  offer       \* the candidates with an offer

ExpenseStatus == {"SUBMITTED", "APPROVED", "REJECTED"}
CandidateStatus ==
  {"APPLIED", "SHORTLISTED", "REJECTED", "INTERVIEW_SCHEDULED", "OFFERED"}

-----------------------------------------------------------------------------
(* Properties. *)

\* What sendExpenseToPayroll says ("Only approved expenses can be sent to
\* payroll", ExpenseTools.java:124) and an overlapping decision breaks: when
\* payroll is asked to reimburse an expense, that expense is APPROVED.
PayrollAskedForApproved ==
  [][\A i \in sent' \ sent : expense[i] = "APPROVED"]_<<expense, sent>>

\* A candidate shown as OFFERED has an offer and one shown as
\* INTERVIEW_SCHEDULED an interview, whatever else sets its status meanwhile
\* and wherever a restart cuts a call off, unless moveCandidateStage was told
\* to set that very status; and there is no interview or offer of an unknown
\* candidate.
StatusHasRecord ==
  \A i \in DOMAIN candidate :
    /\ candidate[i] = "OFFERED" /\ i \notin named => i \in offer
    /\ candidate[i] = "INTERVIEW_SCHEDULED" /\ i \notin named =>
         i \in interview
    /\ i \in interview \cup offer => candidate[i] # "none"
=============================================================================
