----------------------------- MODULE AuthProofs -----------------------------
(***************************************************************************)
(* Theorems about AuthService, for any number of accounts, employees and   *)
(* overlapping calls.                                                      *)
(***************************************************************************)
EXTENDS AuthService, TLAPS

Inv == TypeOK /\ IInv

IsFresh(w) == w # Idle /\ w.op = "create" /\ w.fresh

\* The uncommitted rows of the calls other than c.
Others(c) == {call[d].emp : d \in {x \in Calls \ {c} : Fresh(x)}}

\* Accounts keep their role and stay, committed employees stay, and no row
\* that another call than c has not committed becomes known.
Keeps(c) ==
  /\ \A u \in UserIds : user[u] # Null =>
       user'[u] # Null /\ user'[u].role = user[u].role
  /\ known \subseteq known'
  /\ Others(c) \cap known' = {}

CallsOK ==
  /\ call \in [Calls -> Creation \cup Link \cup {Idle}]
  /\ \A c \in Calls : call[c] # Idle => CallOK(call[c], user, known)
  /\ \A c, d \in Calls :
       c # d /\ Fresh(c) /\ Fresh(d) => call[c].emp # call[d].emp

RowsOK ==
  \A e \in EmployeeIds : employee[e] # Null <=> e \in known \cup Uncommitted

LEMMA Parts ==
  Inv <=> /\ Registry!TypeOK
          /\ employee \in [EmployeeIds -> Emails \cup {Null}]
          /\ known \subseteq EmployeeIds
          /\ LinksKnown /\ RowsOK /\ CallsOK
BY DEF Inv, TypeOK, IInv, RowsOK, CallsOK

\* A call in progress is a creation or a link, and what it checked holds.
LEMMA InProgress ==
  ASSUME Inv, NEW c \in Calls, call[c] # Idle
  PROVE  /\ call[c] \in Creation \cup Link
         /\ CallOK(call[c], user, known)
         /\ call[c].op = "create" => call[c] \in Creation
         /\ call[c].op = "link" => call[c] \in Link
BY DEF Inv, TypeOK, IInv, Creation, Link

\* What a call in progress checked stays true.
LEMMA ChecksStay ==
  ASSUME NEW c \in Calls, Keeps(c), NEW d \in Calls \ {c},
         call[d] \in Creation \cup Link, call[d] # Idle,
         CallOK(call[d], user, known)
  PROVE  CallOK(call[d], user', known')
<1>1. /\ \A u \in UserIds : user[u] # Null =>
            user'[u] # Null /\ user'[u].role = user[u].role
      /\ known \subseteq known'
  BY DEF Keeps
<1>2. call[d].op = "create" /\ call[d].fresh => call[d].emp \notin known'
  BY DEF Keeps, Others, Fresh
<1>3. QED
  BY <1>1, <1>2 DEF CallOK, Creation, Link

LEMMA CallsStay ==
  ASSUME Inv, NEW c \in Calls, Keeps(c),
         NEW new \in Creation \cup Link \cup {Idle},
         new # Idle => CallOK(new, user', known'),
         IsFresh(new) => new.emp \notin Others(c),
         call' = [call EXCEPT ![c] = new]
  PROVE  /\ CallsOK'
         /\ Uncommitted' =
              Others(c) \cup (IF IsFresh(new) THEN {new.emp} ELSE {})
<1>1. call \in [Calls -> Creation \cup Link \cup {Idle}]
  BY DEF Inv, TypeOK
<1>2. call'[c] = new /\ \A d \in Calls \ {c} : call'[d] = call[d]
  BY <1>1
<1>3. ASSUME NEW d \in Calls, d # c, call'[d] # Idle
      PROVE  CallOK(call'[d], user', known')
  <2>1. call'[d] = call[d] /\ call[d] \in Creation \cup Link
    BY <1>1, <1>2, <1>3
  <2>2. CallOK(call[d], user, known)
    BY <1>3, <2>1 DEF Inv, IInv
  <2>3. QED
    BY <1>3, <2>1, <2>2, ChecksStay
<1>4. \A d \in Calls : call'[d] # Idle => CallOK(call'[d], user', known')
  BY <1>2, <1>3
<1>5. /\ Fresh(c)' <=> IsFresh(new)
      /\ \A d \in Calls \ {c} : Fresh(d)' <=> Fresh(d)
  BY <1>2 DEF Fresh, IsFresh
<1>6. ASSUME NEW a \in Calls, NEW d \in Calls, a # d, Fresh(a)', Fresh(d)'
      PROVE  call'[a].emp # call'[d].emp
  <2>1. CASE a = c
    BY <1>2, <1>5, <1>6, <2>1 DEF Others
  <2>2. CASE d = c
    BY <1>2, <1>5, <1>6, <2>2 DEF Others
  <2>3. CASE a # c /\ d # c
    BY <1>2, <1>5, <1>6, <2>3 DEF Inv, IInv
  <2>4. QED
    BY <2>1, <2>2, <2>3
<1>7. CallsOK'
  BY <1>1, <1>4, <1>6 DEF CallsOK
<1>8. Uncommitted' =
        Others(c) \cup (IF IsFresh(new) THEN {new.emp} ELSE {})
  BY <1>2, <1>5 DEF Uncommitted, Others
<1>9. QED
  BY <1>7, <1>8

\* The uncommitted rows are those of c and those of the others, which are
\* neither c's nor known.
LEMMA Rows ==
  ASSUME Inv, NEW c \in Calls
  PROVE  /\ Uncommitted =
              Others(c) \cup (IF Fresh(c) THEN {call[c].emp} ELSE {})
         /\ Fresh(c) => call[c].emp \notin Others(c) \cup known
         /\ Others(c) \cap known = {}
<1>1. Uncommitted =
        Others(c) \cup (IF Fresh(c) THEN {call[c].emp} ELSE {})
  BY DEF Uncommitted, Others
<1>2. \A d \in Calls : Fresh(d) => call[d].emp \notin known
  BY DEF Fresh, Inv, IInv, CallOK
<1>3. Fresh(c) => call[c].emp \notin Others(c)
  BY DEF Others, Inv, IInv
<1>4. QED
  BY <1>1, <1>2, <1>3 DEF Others

\* A step that only starts or ends a call that has inserted nothing.
LEMMA OnlyCall ==
  ASSUME Inv, NEW c \in Calls, NEW new \in Creation \cup Link \cup {Idle},
         new # Idle => CallOK(new, user, known), ~Fresh(c), ~IsFresh(new),
         call' = [call EXCEPT ![c] = new],
         UNCHANGED <<user, employee, known>>
  PROVE  Inv' /\ UNCHANGED user
<1>1. /\ Uncommitted = Others(c) /\ Others(c) \cap known = {}
  BY Rows
<1>2. Keeps(c)
  BY <1>1 DEF Keeps
<1>3. new # Idle => CallOK(new, user', known')
  OBVIOUS
<1>4. CallsOK' /\ Uncommitted' = Others(c)
  BY <1>2, <1>3, CallsStay
<1>5. RowsOK'
  BY <1>1, <1>4, Parts DEF RowsOK
<1>6. Registry!TypeOK' /\ LinksKnown'
  BY Parts DEF Registry!TypeOK, LinksKnown, Registry!Unlinked
<1>7. employee' \in [EmployeeIds -> Emails \cup {Null}]
        /\ known' \subseteq EmployeeIds
  BY Parts
<1>8. QED
  BY <1>4, <1>5, <1>6, <1>7 DEF Inv, TypeOK, IInv, RowsOK, CallsOK
-----------------------------------------------------------------------------
LEMMA CreateUserOK ==
  ASSUME Inv, NEW c \in Calls, NEW by \in UserIds, NEW name \in Emails,
         NEW role \in Registry!Roles, NEW manager \in EmployeeIds \cup {Null},
         CreateUser(c, by, name, role, manager)
  PROVE  Inv' /\ UNCHANGED user
<1>1. PICK e \in ProfileFor(name) :
        Start(c, [op |-> "create", by |-> by, name |-> name, role |-> role,
                  emp |-> e, fresh |-> FALSE])
  BY DEF CreateUser
<1>2. e \in known \cup {Null} /\ e \in EmployeeIds \cup {Null}
  BY <1>1, Parts DEF ProfileFor, WithEmail, Profiles, RowsOK
<1> DEFINE new == [op |-> "create", by |-> by, name |-> name, role |-> role,
                   emp |-> e, fresh |-> FALSE]
<1>3. new \in Creation /\ ~IsFresh(new)
  BY <1>2 DEF Creation, IsFresh
<1>4. CallOK(new, user, known)
  BY <1>2 DEF CallOK, CreateUser
<1>5. QED
  BY <1>1, <1>3, <1>4, OnlyCall DEF Start, Fresh

LEMMA LinkEmployeeOK ==
  ASSUME Inv, NEW c \in Calls, NEW by \in UserIds, NEW u \in UserIds,
         NEW e \in EmployeeIds, LinkEmployee(c, by, u, e)
  PROVE  Inv' /\ UNCHANGED user
<1> DEFINE new == [op |-> "link", by |-> by, user |-> u, emp |-> e]
<1>1. new \in Link /\ ~IsFresh(new)
  BY DEF Link, IsFresh
<1>2. e \in known
  BY Parts DEF LinkEmployee, Profiles, RowsOK
<1>3. CallOK(new, user, known)
  BY <1>2 DEF CallOK, LinkEmployee, HasRole
<1>4. QED
  BY <1>1, <1>3, OnlyCall DEF Start, LinkEmployee, Fresh

LEMMA InsertProfileOK ==
  ASSUME Inv, NEW c \in Calls, NEW e \in EmployeeIds, InsertProfile(c, e)
  PROVE  Inv' /\ UNCHANGED user
<1> DEFINE new == [call[c] EXCEPT !.emp = e, !.fresh = TRUE]
<1>1. /\ call[c] # Idle /\ call[c].op = "create" /\ call[c].emp = Null
      /\ employee[e] = Null
      /\ employee' = [employee EXCEPT ![e] = call[c].name]
      /\ call' = [call EXCEPT ![c] = new]
      /\ UNCHANGED <<user, known>>
  BY DEF InsertProfile
<1>2. call[c] \in Creation /\ CallOK(call[c], user, known)
  BY <1>1, InProgress
<1>3. /\ new \in Creation /\ new.emp = e /\ new.fresh
      /\ new.op = "create" /\ new.by = call[c].by /\ new.role = call[c].role
  BY <1>2 DEF Creation
<1>4. ~Fresh(c)
  BY <1>1, <1>2 DEF Fresh, CallOK
<1>5. /\ Uncommitted = Others(c) /\ Others(c) \cap known = {}
      /\ e \notin known \cup Others(c)
  <2>1. Uncommitted = Others(c) /\ Others(c) \cap known = {}
    BY <1>4, Rows
  <2>2. RowsOK
    BY Parts
  <2>3. QED
    BY <1>1, <2>1, <2>2 DEF RowsOK
<1>6. Keeps(c)
  BY <1>1, <1>5 DEF Keeps
<1>7. CallOK(new, user', known')
  BY <1>1, <1>2, <1>3, <1>5, NullAssumption DEF CallOK
<1>8. IsFresh(new)
  BY <1>3, IdleAssumption DEF IsFresh
<1>9. CallsOK' /\ Uncommitted' = Others(c) \cup {e}
  <2> HIDE DEF new
  <2>1. QED
    BY <1>1, <1>3, <1>5, <1>6, <1>7, <1>8, CallsStay
<1>10. /\ employee' \in [EmployeeIds -> Emails \cup {Null}]
       /\ RowsOK'
  <2>1. call[c].name \in Emails
    BY <1>2 DEF Creation
  <2>2. employee \in [EmployeeIds -> Emails \cup {Null}] /\ RowsOK
    BY Parts
  <2>3. QED
    BY <1>1, <1>5, <1>9, <2>1, <2>2, NullAssumption DEF RowsOK
<1>11. Registry!TypeOK' /\ LinksKnown'
  BY <1>1, Parts DEF Registry!TypeOK, LinksKnown, Registry!Unlinked
<1>12. QED
  BY <1>1, <1>9, <1>10, <1>11, Parts
     DEF Inv, TypeOK, IInv, RowsOK, CallsOK

LEMMA RollbackOK ==
  ASSUME Inv, NEW c \in Calls, Rollback(c)
  PROVE  Inv' /\ UNCHANGED user
<1>1. CASE ~Fresh(c)
  <2>1. ~IsFresh(Idle)
    BY DEF IsFresh
  <2>2. QED
    BY <1>1, <2>1, OnlyCall DEF Rollback, Ending
<1>2. CASE Fresh(c)
  <2>1. /\ employee' = [employee EXCEPT ![call[c].emp] = Null]
        /\ call' = [call EXCEPT ![c] = Idle] /\ UNCHANGED <<user, known>>
    BY <1>2 DEF Rollback, Ending
  <2>2. /\ Uncommitted = Others(c) \cup {call[c].emp}
        /\ call[c].emp \notin Others(c) \cup known
        /\ Others(c) \cap known = {}
    BY <1>2, Rows
  <2>3. Keeps(c)
    BY <2>1, <2>2 DEF Keeps
  <2>4. ~IsFresh(Idle)
    BY DEF IsFresh
  <2>5. CallsOK' /\ Uncommitted' = Others(c)
    BY <2>1, <2>3, <2>4, CallsStay
  <2>6. employee \in [EmployeeIds -> Emails \cup {Null}] /\ RowsOK
    BY Parts
  <2>7. employee' \in [EmployeeIds -> Emails \cup {Null}] /\ RowsOK'
    BY <2>1, <2>2, <2>5, <2>6 DEF RowsOK
  <2>8. Registry!TypeOK' /\ LinksKnown'
    BY <2>1, Parts DEF Registry!TypeOK, LinksKnown, Registry!Unlinked
  <2>9. QED
    BY <2>1, <2>5, <2>7, <2>8, Parts
       DEF Inv, TypeOK, IInv, RowsOK, CallsOK
<1>3. QED
  BY <1>1, <1>2

\* A login is linked to an employee who is known and has no other login.
LEMMA LinkWritten ==
  ASSUME Inv, NEW u \in UserIds, NEW row \in Registry!Account,
         row.emp # Null => row.emp \in known' /\ Registry!Unlinked(row.emp, u),
         user' = [user EXCEPT ![u] = row], known \subseteq known'
  PROVE  Registry!TypeOK' /\ LinksKnown'
<1>1. user \in [UserIds -> Registry!Account \cup {Null}] /\ LinksKnown
  BY Parts DEF Registry!TypeOK
<1>2. Registry!TypeOK'
  BY <1>1 DEF Registry!TypeOK
<1>3. ASSUME NEW v \in UserIds, user'[v] # Null, user'[v].emp # Null
      PROVE  /\ user'[v].emp \in known'
             /\ \A x \in UserIds \ {v} : user'[x] # Null =>
                  user'[x].emp # user'[v].emp
  <2>1. CASE v = u
    BY <1>1, <1>3, <2>1 DEF Registry!Unlinked
  <2>2. CASE v # u
    <3>1. user'[v] = user[v]
      BY <1>1, <2>2
    <3>2. user[v].emp \in known /\ Registry!Unlinked(user[v].emp, v)
      BY <1>1, <1>3, <3>1 DEF LinksKnown
    <3>3. row.emp # user[v].emp
      BY <1>3, <2>2, <3>1 DEF Registry!Unlinked
    <3>4. QED
      BY <1>1, <3>1, <3>2, <3>3 DEF Registry!Unlinked
  <2>3. QED
    BY <2>1, <2>2
<1>4. LinksKnown'
  BY <1>3 DEF LinksKnown, Registry!Unlinked
<1>5. QED
  BY <1>2, <1>4

LEMMA CommitCreateOK ==
  ASSUME Inv, NEW c \in Calls, NEW u \in UserIds, CommitCreate(c, u)
  PROVE  /\ Inv'
         /\ Registry!Register(call[c].by, u, call[c].name, call[c].role,
                              call[c].emp)
         /\ call[c] \in Creation /\ call[c].emp # Null
<1> DEFINE w == call[c]
           row == [name |-> w.name, role |-> w.role, emp |-> w.emp]
<1>1. /\ w # Idle /\ w.op = "create" /\ w.emp # Null
      /\ user[u] = Null /\ Registry!NameFree(w.name)
      /\ Registry!Unlinked(w.emp, u) /\ user' = [user EXCEPT ![u] = row]
      /\ call' = [call EXCEPT ![c] = Idle]
      /\ known' = known \cup {w.emp} /\ UNCHANGED employee
  BY DEF CommitCreate, InsertUser, Ending
<1>2. /\ w \in Creation /\ CallOK(w, user, known)
      /\ w.by \in UserIds /\ w.name \in Emails /\ w.role \in Registry!Roles
      /\ w.emp \in EmployeeIds
  BY <1>1, InProgress DEF Creation
<1>3. row \in Registry!Account /\ row.emp = w.emp
  BY <1>2 DEF Registry!Account
<1>4. Registry!TypeOK' /\ LinksKnown'
  <2> HIDE DEF row
  <2>1. QED
    BY <1>1, <1>3, LinkWritten
<1>5. /\ Uncommitted =
           Others(c) \cup (IF Fresh(c) THEN {w.emp} ELSE {})
      /\ Fresh(c) => w.emp \notin Others(c) \cup known
      /\ Others(c) \cap known = {}
  BY Rows
<1>6. ~Fresh(c) => w.emp \in known
  BY <1>1, <1>2 DEF Fresh, CallOK
<1>7. Keeps(c)
  <2>1. user \in [UserIds -> Registry!Account \cup {Null}]
    BY Parts DEF Registry!TypeOK
  <2>2. Others(c) \cap known' = {}
    BY <1>1, <1>5, <1>6
  <2>3. QED
    BY <1>1, <2>1, <2>2 DEF Keeps
<1>8. ~IsFresh(Idle)
  BY DEF IsFresh
<1>9. CallsOK' /\ Uncommitted' = Others(c)
  BY <1>1, <1>7, <1>8, CallsStay
<1>10. RowsOK'
  BY <1>1, <1>5, <1>6, <1>9, Parts DEF RowsOK
<1>11. Registry!Register(w.by, u, w.name, w.role, w.emp)
  BY <1>1, <1>2 DEF Registry!Register, CallOK
<1>12. QED
  BY <1>1, <1>2, <1>4, <1>9, <1>10, <1>11, Parts
     DEF Inv, TypeOK, IInv, RowsOK, CallsOK

LEMMA CommitLinkOK ==
  ASSUME Inv, NEW c \in Calls, CommitLink(c)
  PROVE  /\ Inv'
         /\ Registry!LinkEmployee(call[c].by, call[c].user, call[c].emp)
         /\ call[c].by \in UserIds /\ call[c].user \in UserIds
         /\ call[c].emp \in EmployeeIds
<1> DEFINE w == call[c]
           row == [user[w.user] EXCEPT !.emp = w.emp]
<1>1. /\ w # Idle /\ w.op = "link"
      /\ Registry!Unlinked(w.emp, w.user)
      /\ user' = [user EXCEPT ![w.user] = row]
      /\ call' = [call EXCEPT ![c] = Idle]
      /\ UNCHANGED <<employee, known>>
  BY DEF CommitLink, Ending
<1>2. /\ w \in Link /\ CallOK(w, user, known)
      /\ w.by \in UserIds /\ w.user \in UserIds /\ w.emp \in EmployeeIds
  BY <1>1, InProgress DEF Link
<1>3. /\ user \in [UserIds -> Registry!Account \cup {Null}]
      /\ user[w.user] \in Registry!Account /\ user[w.user] # Null
      /\ user[w.by] # Null /\ user[w.by].role = "ADMIN"
      /\ w.emp \in known
  BY <1>1, <1>2, Parts DEF Registry!TypeOK, CallOK
<1>4. /\ row \in Registry!Account /\ row.emp = w.emp
      /\ row.role = user[w.user].role
  BY <1>2, <1>3 DEF Registry!Account
<1>5. Registry!TypeOK' /\ LinksKnown'
  <2> HIDE DEF row
  <2>1. QED
    BY <1>1, <1>2, <1>3, <1>4, LinkWritten
<1>6. ~Fresh(c) /\ ~IsFresh(Idle)
  BY <1>1 DEF Fresh, IsFresh
<1>7. Uncommitted = Others(c) /\ Others(c) \cap known = {}
  BY <1>6, Rows
<1>8. Keeps(c)
  BY <1>1, <1>2, <1>3, <1>4, <1>7, NullAssumption DEF Keeps
<1>9. CallsOK' /\ Uncommitted' = Others(c)
  BY <1>1, <1>6, <1>8, CallsStay
<1>10. RowsOK'
  BY <1>1, <1>7, <1>9, Parts DEF RowsOK
<1>11. Registry!LinkEmployee(w.by, w.user, w.emp)
  BY <1>1, <1>3 DEF Registry!LinkEmployee
<1>12. QED
  BY <1>1, <1>2, <1>5, <1>9, <1>10, <1>11, Parts
     DEF Inv, TypeOK, IInv, RowsOK, CallsOK

\* A step that leaves the calls alone.
LEMMA CallsAlone ==
  ASSUME Inv, UNCHANGED call, known \subseteq known',
         \A u \in UserIds : user[u] # Null =>
           user'[u] # Null /\ user'[u].role = user[u].role,
         Uncommitted \cap known' = {}
  PROVE  CallsOK' /\ Uncommitted' = Uncommitted
<1>1. \A d \in Calls : Fresh(d)' <=> Fresh(d)
  BY DEF Fresh
<1>2. ASSUME NEW d \in Calls, call[d] # Idle
      PROVE  CallOK(call[d], user', known')
  <2>1. call[d] \in Creation \cup Link /\ CallOK(call[d], user, known)
    BY <1>2, InProgress
  <2>2. call[d].op = "create" /\ call[d].fresh => call[d].emp \notin known'
    BY <1>2 DEF Uncommitted, Fresh
  <2>3. QED
    BY <2>1, <2>2 DEF CallOK, Creation, Link
<1>3. QED
  BY <1>1, <1>2, Parts DEF CallsOK, Uncommitted

LEMMA NoneKnown == ASSUME Inv PROVE Uncommitted \cap known = {}
BY DEF Uncommitted, Fresh, Inv, IInv, CallOK

LEMMA SeedOK ==
  ASSUME Inv, NEW u \in UserIds, Seed(u)
  PROVE  Inv' /\ Registry!SeedAdmin(u)
<1> DEFINE row == [name |-> AdminName, role |-> "ADMIN", emp |-> Null]
<1>1. /\ user[u] = Null /\ user' = [user EXCEPT ![u] = row]
      /\ UNCHANGED <<employee, call, known>>
  BY DEF Seed, Registry!SeedAdmin
<1>2. row \in Registry!Account /\ row.emp = Null
  BY AdminAssumption DEF Registry!Account, Registry!Roles
<1>3. Registry!TypeOK' /\ LinksKnown'
  <2> HIDE DEF row
  <2>1. QED
    BY <1>1, <1>2, LinkWritten
<1>4. user \in [UserIds -> Registry!Account \cup {Null}]
  BY Parts DEF Registry!TypeOK
<1>5. CallsOK' /\ Uncommitted' = Uncommitted
  BY <1>1, <1>4, NoneKnown, CallsAlone
<1>6. RowsOK'
  BY <1>1, <1>5, Parts DEF RowsOK
<1>7. QED
  BY <1>1, <1>3, <1>5, <1>6, Parts
     DEF Inv, TypeOK, IInv, RowsOK, CallsOK, Seed

LEMMA SaveProfileOK ==
  ASSUME Inv, NEW e \in EmployeeIds, NEW email \in Emails,
         e \notin Uncommitted, SaveProfile(e, email)
  PROVE  Inv' /\ UNCHANGED user
<1>1. /\ employee' = [employee EXCEPT ![e] = email]
      /\ known' = known \cup {e} /\ UNCHANGED <<user, call>>
  BY DEF SaveProfile
<1>2. employee \in [EmployeeIds -> Emails \cup {Null}] /\ RowsOK
  BY Parts
<1>3. CallsOK' /\ Uncommitted' = Uncommitted
  BY <1>1, NoneKnown, CallsAlone
<1>4. employee' \in [EmployeeIds -> Emails \cup {Null}] /\ RowsOK'
  BY <1>1, <1>2, <1>3, NullAssumption DEF RowsOK
<1>5. Registry!TypeOK' /\ LinksKnown'
  BY <1>1, Parts DEF Registry!TypeOK, LinksKnown, Registry!Unlinked
<1>6. QED
  BY <1>1, <1>3, <1>4, <1>5, Parts
     DEF Inv, TypeOK, IInv, RowsOK, CallsOK
-----------------------------------------------------------------------------
LEMMA InitOK == Init => Inv
BY DEF Init, Inv, TypeOK, IInv, LinksKnown, Uncommitted, Fresh,
       Registry!Init, Registry!TypeOK

LEMMA StutterOK == ASSUME Inv, UNCHANGED vars PROVE Inv'
<1>1. UNCHANGED <<user, employee, call, known>>
  BY DEF vars
<1>2. CallsOK' /\ Uncommitted' = Uncommitted
  BY <1>1, NoneKnown, CallsAlone
<1>3. RowsOK' /\ Registry!TypeOK' /\ LinksKnown'
  BY <1>1, <1>2, Parts
     DEF RowsOK, Registry!TypeOK, LinksKnown, Registry!Unlinked
<1>4. QED
  BY <1>1, <1>2, <1>3, Parts DEF Inv, TypeOK, IInv, RowsOK, CallsOK

\* Every step keeps the invariant and is a step or a stutter of the registry.
LEMMA StepOK ==
  ASSUME Inv, [Next]_vars PROVE Inv' /\ [Registry!Next]_user
<1>1. ASSUME NEW c \in Calls, NEW by \in UserIds, NEW name \in Emails,
             NEW role \in Registry!Roles,
             NEW manager \in EmployeeIds \cup {Null},
             CreateUser(c, by, name, role, manager)
      PROVE  Inv' /\ [Registry!Next]_user
  BY <1>1, CreateUserOK
<1>2. ASSUME NEW c \in Calls, NEW by \in UserIds, NEW u \in UserIds,
             NEW e \in EmployeeIds, LinkEmployee(c, by, u, e)
      PROVE  Inv' /\ [Registry!Next]_user
  BY <1>2, LinkEmployeeOK
<1>3. ASSUME NEW c \in Calls, NEW e \in EmployeeIds, InsertProfile(c, e)
      PROVE  Inv' /\ [Registry!Next]_user
  BY <1>3, InsertProfileOK
<1>4. ASSUME NEW c \in Calls, NEW u \in UserIds, CommitCreate(c, u)
      PROVE  Inv' /\ [Registry!Next]_user
  <2>1. /\ Inv' /\ call[c] \in Creation /\ call[c].emp # Null
        /\ Registry!Register(call[c].by, u, call[c].name, call[c].role,
                             call[c].emp)
    BY <1>4, CommitCreateOK
  <2>2. call[c].by \in UserIds /\ call[c].name \in Emails
        /\ call[c].role \in Registry!Roles /\ call[c].emp \in EmployeeIds
    BY <2>1 DEF Creation
  <2>3. QED
    BY <2>1, <2>2 DEF Registry!Next
<1>5. ASSUME NEW c \in Calls, CommitLink(c)
      PROVE  Inv' /\ [Registry!Next]_user
  BY <1>5, CommitLinkOK DEF Registry!Next
<1>6. ASSUME NEW c \in Calls, Rollback(c)
      PROVE  Inv' /\ [Registry!Next]_user
  BY <1>6, RollbackOK
<1>7. ASSUME NEW u \in UserIds, Seed(u)
      PROVE  Inv' /\ [Registry!Next]_user
  BY <1>7, SeedOK DEF Registry!Next
<1>8. ASSUME NEW e \in EmployeeIds, NEW email \in Emails,
             ProfileCreated(e, email) \/ EmailChanged(e, email)
      PROVE  Inv' /\ [Registry!Next]_user
  <2>1. e \notin Uncommitted
    BY <1>8, Parts DEF ProfileCreated, EmailChanged, Profiles, RowsOK
  <2>2. QED
    BY <1>8, <2>1, SaveProfileOK DEF ProfileCreated, EmailChanged
<1>9. CASE UNCHANGED vars
  BY <1>9, StutterOK DEF vars
<1>10. QED
  BY <1>1, <1>2, <1>3, <1>4, <1>5, <1>6, <1>7, <1>8, <1>9 DEF Next
-----------------------------------------------------------------------------
\* Every account, employee and pending write has its type.
THEOREM TypeCorrect == Spec => []TypeOK
<1>1. Inv /\ [Next]_vars => Inv'
  BY StepOK
<1>2. Inv => TypeOK
  BY DEF Inv
<1>3. QED
  BY <1>1, <1>2, InitOK, PTL DEF Spec

\* Every link of a login leads to one committed employee, nobody else's,
\* however createUser, linkEmployee and the MCP server's writes overlap.
THEOREM LinksAlwaysLead == Spec => []LinksLeadToProfiles
<1>1. Inv /\ [Next]_vars => Inv'
  BY StepOK
<1>2. ASSUME Inv PROVE LinksLeadToProfiles
  <2>1. Uncommitted \cap known = {} /\ known \subseteq EmployeeIds
    BY <1>2, NoneKnown, Parts
  <2>2. known \subseteq Profiles
    BY <1>2, <2>1, Parts DEF RowsOK, Profiles
  <2>3. QED
    BY <1>2, <2>2, Parts DEF LinksKnown, LinksLeadToProfiles
<1>3. QED
  BY <1>1, <1>2, InitOK, PTL DEF Spec

\* A refused createUser leaves no employee: every committed employee was
\* hired by createEmployee or has had a login created for it.
THEOREM NoProfileStrays == Spec => []NoStrayProfiles
<1>1. Inv /\ [Next]_vars => Inv'
  BY StepOK
<1>2. Inv => NoStrayProfiles
  BY Parts DEF RowsOK, NoStrayProfiles, Profiles
<1>3. QED
  BY <1>1, <1>2, InitOK, PTL DEF Spec

\* Checking a snapshot and writing later under the unique keys implements the
\* atomic registry.
THEOREM ServiceImplementsRegistry == Spec => ImplementsRegistry
<1>1. Init => Registry!Init
  BY DEF Init
<1>2. Inv /\ [Next]_vars => Inv' /\ [Registry!Next]_user
  BY StepOK
<1>3. QED
  BY <1>1, <1>2, InitOK, PTL DEF Spec, ImplementsRegistry, Registry!Spec
=============================================================================
