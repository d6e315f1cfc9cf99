---------------------------- MODULE RecordTools ----------------------------
(***************************************************************************)
(* Tools of the MCP server that keep their records in maps: the expenses   *)
(* with the notifications to payroll, and the candidates with their        *)
(* interviews and offers.                                                  *)
(*                                                                         *)
(* A tool gets a record, builds the next version of it, and puts that in   *)
(* its place, without a lock: the step that starts a call is the get, and  *)
(* others put meanwhile.  Ids are never given back, but a restart of the   *)
(* server empties the maps, ends the calls, and hands out the same ids     *)
(* again.                                                                  *)
(***************************************************************************)
EXTENDS RecordData

CONSTANTS
  Expenses,    \* ids of expenses
  Candidates,  \* ids of candidates
  Calls        \* tool calls in progress at the same time

VARIABLE call  \* the calls in progress

vars == <<expense, sent, candidate, named, interview, offer, call>>

\* What a call has left to do: send a notification, record an interview or
\* an offer, or put a record with its new status ("name": one that was given
\* by its name).
Call ==
  [at : {"idle"}]
    \cup [at : {"send"}, id : Expenses]
    \cup [at : {"decide"}, id : Expenses, status : {"APPROVED", "REJECTED"}]
    \cup [at : {"record", "move", "name"}, id : Candidates,
          status : CandidateStatus]

TypeOK ==
  /\ expense \in [Expenses -> ExpenseStatus \cup {"none"}]
  /\ sent \subseteq Expenses
  /\ candidate \in [Candidates -> CandidateStatus \cup {"none"}]
  /\ named \subseteq Candidates
  /\ interview \subseteq Candidates
  /\ offer \subseteq Candidates
  /\ call \in [Calls -> Call]

Init ==
  /\ expense = [i \in Expenses |-> "none"]
  /\ sent = {}
  /\ candidate = [i \in Candidates |-> "none"]
  /\ named = {}
  /\ interview = {}
  /\ offer = {}
  /\ call = [c \in Calls |-> [at |-> "idle"]]

expenses == <<expense, sent>>
candidates == <<candidate, named, interview, offer>>

Start(c, new) ==
  /\ call[c].at = "idle"
  /\ call' = [call EXCEPT ![c] = new]
  /\ UNCHANGED <<expenses, candidates>>

Finish(c) == call' = [call EXCEPT ![c] = [at |-> "idle"]]

-----------------------------------------------------------------------------
(* Expenses. *)

SubmitExpense(i) ==
  /\ expense[i] = "none"
  /\ expense' = [expense EXCEPT ![i] = "SUBMITTED"]
  /\ UNCHANGED <<sent, candidates, call>>

\* approveExpense, rejectExpense: neither looks at the status.
DecideExpense(c, i, status) ==
  /\ expense[i] # "none"
  /\ Start(c, [at |-> "decide", id |-> i, status |-> status])

PutDecision(c) ==
  /\ call[c].at = "decide"
  /\ expense' = [expense EXCEPT ![call[c].id] = call[c].status]
  /\ Finish(c)
  /\ UNCHANGED <<sent, candidates>>

\* The guard is on the status that was read.
SendExpenseToPayroll(c, i) ==
  /\ expense[i] = "APPROVED"
  /\ Start(c, [at |-> "send", id |-> i])

\* NotificationTools.send
Send(c) ==
  /\ call[c].at = "send"
  /\ sent' = sent \cup {call[c].id}
  /\ Finish(c)
  /\ UNCHANGED <<expense, candidates>>

-----------------------------------------------------------------------------
(* Candidates. *)

CreateCandidate(i) ==
  /\ candidate[i] = "none"
  /\ candidate' = [candidate EXCEPT ![i] = "APPLIED"]
  /\ UNCHANGED <<named, interview, offer, expenses, call>>

\* shortlistCandidate, rejectCandidate
SetCandidateStatus(c, i, status) ==
  /\ candidate[i] # "none"
  /\ Start(c, [at |-> "move", id |-> i, status |-> status])

\* Takes any name, that of a status the other tools set included.
MoveCandidateStage(c, i, stage) ==
  /\ candidate[i] # "none"
  /\ Start(c, [at |-> "name", id |-> i, status |-> stage])

\* scheduleInterview, generateOffer
Invite(c, i, status) ==
  /\ candidate[i] # "none"
  /\ Start(c, [at |-> "record", id |-> i, status |-> status])

\* Wrong on purpose: the status is set before there is an offer.
StatusFirst(c) ==
  /\ call[c].at = "record"
  /\ candidate' = [candidate EXCEPT ![call[c].id] = call[c].status]
  /\ call' = [call EXCEPT ![c].at = "move"]
  /\ UNCHANGED <<named, interview, offer, expenses>>

\* The interview or the offer is put first; then setCandidateStatus.
Record(c) ==
  /\ call[c].at = "record"
  /\ IF call[c].status = "OFFERED"
     THEN offer' = offer \cup {call[c].id} /\ UNCHANGED interview
     ELSE interview' = interview \cup {call[c].id} /\ UNCHANGED offer
  /\ call' = [call EXCEPT ![c].at = "move"]
  /\ UNCHANGED <<candidate, named, expenses>>

PutCandidate(c) ==
  /\ call[c].at \in {"move", "name"}
  /\ candidate' = [candidate EXCEPT ![call[c].id] = call[c].status]
  /\ named' = IF call[c].at = "name" THEN named \cup {call[c].id}
              ELSE named \ {call[c].id}
  /\ Finish(c)
  /\ UNCHANGED <<interview, offer, expenses>>

-----------------------------------------------------------------------------

\* The maps are in memory only.
Restart ==
  /\ expense' = [i \in Expenses |-> "none"]
  /\ sent' = {}
  /\ candidate' = [i \in Candidates |-> "none"]
  /\ named' = {}
  /\ interview' = {}
  /\ offer' = {}
  /\ call' = [c \in Calls |-> [at |-> "idle"]]

Next ==
  \/ \E i \in Expenses : SubmitExpense(i)
  \/ \E i \in Candidates : CreateCandidate(i)
  \/ \E c \in Calls, i \in Expenses :
       \/ \E status \in {"APPROVED", "REJECTED"} : DecideExpense(c, i, status)
       \/ SendExpenseToPayroll(c, i)
  \/ \E c \in Calls, i \in Candidates :
       \/ \E status \in {"SHORTLISTED", "REJECTED"} :
            SetCandidateStatus(c, i, status)
       \/ \E stage \in CandidateStatus : MoveCandidateStage(c, i, stage)
       \/ \E status \in {"INTERVIEW_SCHEDULED", "OFFERED"} :
            Invite(c, i, status)
  \/ \E c \in Calls :
       PutDecision(c) \/ Send(c) \/ Record(c) \/ PutCandidate(c)
  \/ Restart

Spec == Init /\ [][Next]_vars

-----------------------------------------------------------------------------
(* The inductive invariant: what a call relies on stays so until the        *)
(* server restarts.                                                         *)

Backed(r) ==
  /\ r.at = "move" =>
       /\ r.status = "OFFERED" => r.id \in offer
       /\ r.status = "INTERVIEW_SCHEDULED" => r.id \in interview
  /\ r.at = "record" => r.status \in {"INTERVIEW_SCHEDULED", "OFFERED"}
  /\ r.at \in {"record", "move", "name"} => candidate[r.id] # "none"

IInv ==
  /\ StatusHasRecord
  /\ \A c \in Calls : Backed(call[c])
=============================================================================
