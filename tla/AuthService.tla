---------------------------- MODULE AuthService ----------------------------
(***************************************************************************)
(* auth-service: login accounts (auth_user), linked to rows of the table   *)
(* employee that it shares with the MCP server, which renames e-mail       *)
(* addresses and adds employees on its own.                                *)
(*                                                                         *)
(* createUser and linkEmployee are transactions: a call checks a snapshot, *)
(* and what it decided is written later, under the unique keys of the two  *)
(* tables (username, employee_id and e-mail), which refuse the writes of a *)
(* call that was overtaken and roll it back whole: the employee row that   *)
(* createUser inserts before the login is not committed, nobody reads it,  *)
(* and it goes when the transaction is rolled back.  No user is ever       *)
(* deleted and no name or role is ever changed, so a caller's token, which *)
(* holds the user's id and name, stands here for its account; login and    *)
(* currentUser change nothing.                                             *)
(***************************************************************************)
EXTENDS Integers, FiniteSets

CONSTANTS UserIds, EmployeeIds, Emails, AdminName, Null,
  Calls,  \* createUser and linkEmployee calls in progress
  Idle    \* no call in progress

VARIABLES
  user,      \* auth_user, by primary key
  employee,  \* employee: the work e-mail, by primary key
  call,      \* what each call in progress is going to write
  known      \* the employees that createEmployee hired or that a login was
             \* created for (history)

vars == <<user, employee, call, known>>

Registry == INSTANCE AccountRegistry

\* fresh: the call has inserted the row of emp itself.
Creation ==
  [op : {"create"}, by : UserIds, name : Emails, role : Registry!Roles,
   emp : EmployeeIds \cup {Null}, fresh : BOOLEAN]

Link == [op : {"link"}, by : UserIds, user : UserIds, emp : EmployeeIds]

ASSUME AdminAssumption == AdminName \in Emails
ASSUME NullAssumption ==
  Null \notin Registry!Account /\ Null \notin EmployeeIds
    /\ Null \notin Emails
ASSUME IdleAssumption == Idle \notin Creation \cup Link

TypeOK ==
  /\ Registry!TypeOK
  /\ employee \in [EmployeeIds -> Emails \cup {Null}]
  /\ call \in [Calls -> Creation \cup Link \cup {Idle}]
  /\ known \subseteq EmployeeIds

Init ==
  /\ Registry!Init
  /\ employee = [e \in EmployeeIds |-> Null]
  /\ call = [c \in Calls |-> Idle]
  /\ known = {}

-----------------------------------------------------------------------------
(* createUser and linkEmployee. *)

HasRole(u, roles) == user[u] # Null /\ user[u].role \in roles

Linked(e) == \E u \in UserIds : user[u] # Null /\ user[u].emp = e

\* validateManager; Null stands for no manager given.
ValidManager(manager) ==
  \/ manager = Null
  \/ \E u \in UserIds :
       HasRole(u, {"MANAGER", "ADMIN"}) /\ user[u].emp = manager

\* The call has inserted an employee row that is not committed.
Fresh(c) == call[c] # Idle /\ call[c].op = "create" /\ call[c].fresh

Uncommitted == {call[c].emp : c \in {d \in Calls : Fresh(d)}}

\* What other transactions see of the table.
Profiles == {e \in EmployeeIds : employee[e] # Null} \ Uncommitted

\* Wrong on purpose: rows of other transactions are read uncommitted.
DirtyWithEmail(name) == {e \in EmployeeIds : employee[e] = name}

\* findByEmail
WithEmail(name) == {e \in Profiles : employee[e] = name}

\* The profile a new login is for: Null when it has yet to be inserted, none
\* when it has a login.
ProfileFor(name) ==
  IF WithEmail(name) = {} THEN {Null}
  ELSE {e \in WithEmail(name) : ~Linked(e)}

Start(c, writes) ==
  /\ call[c] = Idle
  /\ call' = [call EXCEPT ![c] = writes]
  /\ UNCHANGED <<user, employee, known>>

CreateUser(c, by, name, role, manager) ==
  /\ user[by] # Null
  /\ role \in Registry!Creatable(user[by].role)
  /\ Registry!NameFree(name)
  /\ ValidManager(manager)
  /\ \E e \in ProfileFor(name) :
       Start(c, [op |-> "create", by |-> by, name |-> name, role |-> role,
                 emp |-> e, fresh |-> FALSE])

\* Wrong on purpose: the caller's user id is taken for the employee's.
LinkUserId(c, by, u, e) ==
  /\ HasRole(by, {"ADMIN"})
  /\ e \in Profiles /\ Registry!Unlinked(e, u) /\ user[u] # Null
  /\ Start(c, [op |-> "link", by |-> by, user |-> u, emp |-> by])

LinkEmployee(c, by, u, e) ==
  /\ HasRole(by, {"ADMIN"})
  /\ e \in Profiles
  /\ Registry!Unlinked(e, u)
  /\ user[u] # Null
  /\ Start(c, [op |-> "link", by |-> by, user |-> u, emp |-> e])

-----------------------------------------------------------------------------
(* The writes of a call, under the unique keys. *)

Ending(c) == call' = [call EXCEPT ![c] = Idle]

\* The unique key makes an insert wait for another one that is uncommitted.
EmailFree(email) == \A e \in EmployeeIds : employee[e] # email

\* employeeRepository.create
InsertProfile(c, e) ==
  /\ call[c] # Idle /\ call[c].op = "create" /\ call[c].emp = Null
  /\ employee[e] = Null /\ EmailFree(call[c].name)
  /\ employee' = [employee EXCEPT ![e] = call[c].name]
  /\ call' = [call EXCEPT ![c].emp = e, ![c].fresh = TRUE]
  /\ UNCHANGED <<user, known>>

\* Wrong on purpose: auth_user.employee_id without its unique constraint.
InsertUserUnchecked(u, w, e) ==
  /\ user[u] = Null /\ Registry!NameFree(w.name)
  /\ user' = [user EXCEPT ![u] =
        [name |-> w.name, role |-> w.role, emp |-> e]]

InsertUser(u, w, e) ==
  /\ user[u] = Null /\ Registry!NameFree(w.name) /\ Registry!Unlinked(e, u)
  /\ user' = [user EXCEPT ![u] =
        [name |-> w.name, role |-> w.role, emp |-> e]]

\* userRepository.save, and the commit.
CommitCreate(c, u) ==
  /\ call[c] # Idle /\ call[c].op = "create" /\ call[c].emp # Null
  /\ InsertUser(u, call[c], call[c].emp)
  /\ known' = known \cup {call[c].emp}
  /\ Ending(c)
  /\ UNCHANGED employee

CommitLink(c) ==
  /\ call[c] # Idle /\ call[c].op = "link"
  /\ Registry!Unlinked(call[c].emp, call[c].user)
  /\ user' = [user EXCEPT ![call[c].user].emp = call[c].emp]
  /\ Ending(c)
  /\ UNCHANGED <<employee, known>>

\* Wrong on purpose: the insert of the employee was committed by itself.
RollbackLoginOnly(c) ==
  /\ call[c] # Idle
  /\ Ending(c)
  /\ UNCHANGED <<user, employee, known>>

\* A unique key refuses a write, a lost connection, a crash.
Rollback(c) ==
  /\ call[c] # Idle
  /\ employee' = IF Fresh(c) THEN [employee EXCEPT ![call[c].emp] = Null]
                 ELSE employee
  /\ Ending(c)
  /\ UNCHANGED <<user, known>>

-----------------------------------------------------------------------------
(* The bootstrap administrator, at every start of the service. *)
Seed(u) ==
  /\ Registry!SeedAdmin(u)
  /\ UNCHANGED <<employee, call, known>>

\* EmployeeTools of the MCP server saves a row of the shared table.
SaveProfile(e, email) ==
  /\ EmailFree(email)
  /\ employee' = [employee EXCEPT ![e] = email]
  /\ known' = known \cup {e}
  /\ UNCHANGED <<user, call>>

\* createEmployee
ProfileCreated(e, email) == employee[e] = Null /\ SaveProfile(e, email)

\* updateMyContactDetails, and createEmployee with the id of an employee
EmailChanged(e, email) == e \in Profiles /\ SaveProfile(e, email)

Next ==
  \/ \E c \in Calls, by \in UserIds, name \in Emails, role \in Registry!Roles,
        manager \in EmployeeIds \cup {Null} :
       CreateUser(c, by, name, role, manager)
  \/ \E c \in Calls, by, u \in UserIds, e \in EmployeeIds :
       LinkEmployee(c, by, u, e)
  \/ \E c \in Calls, e \in EmployeeIds : InsertProfile(c, e)
  \/ \E c \in Calls, u \in UserIds : CommitCreate(c, u)
  \/ \E c \in Calls : CommitLink(c) \/ Rollback(c)
  \/ \E u \in UserIds : Seed(u)
  \/ \E e \in EmployeeIds, email \in Emails :
       ProfileCreated(e, email) \/ EmailChanged(e, email)

Spec == Init /\ [][Next]_vars

-----------------------------------------------------------------------------
(* Properties. *)

\* Although createUser and linkEmployee check a snapshot and write later,
\* and the MCP server writes employees in between, they are the atomic
\* operations of AccountRegistry at the instant they commit: what they
\* checked is still true or the commit is refused.
ImplementsRegistry == Registry!Spec

\* A login's link leads to an employee whose row is there and committed, and
\* is nobody else's, although the row may be one that its own createUser
\* inserts, that another transaction is inserting at that moment and takes
\* back, or that the MCP server renames.  A login need not have a link
\* (User.java:25-28); those that createUser makes do.
LinksLeadToProfiles ==
  \A u \in UserIds : user[u] # Null /\ user[u].emp # Null =>
    user[u].emp \in Profiles /\ Registry!Unlinked(user[u].emp, u)

\* The table of employees holds nobody but those that createEmployee hired or
\* that a login was created for: a login that is refused, or that a lost
\* connection stops, leaves no employee behind, although the employee is
\* inserted first and by other means (JdbcTemplate, not JPA).
NoStrayProfiles == Profiles \subseteq known

-----------------------------------------------------------------------------
(* The inductive invariant: what is committed is what is known, and is     *)
(* never deleted; what a call has inserted itself nobody else knows of.    *)

CallOK(w, users, employees) ==
  /\ users[w.by] # Null
  /\ w.op = "create" =>
       /\ w.role \in Registry!Creatable(users[w.by].role)
       /\ w.fresh => w.emp \notin employees \cup {Null}
       /\ ~w.fresh => w.emp \in employees \cup {Null}
  /\ w.op = "link" =>
       /\ users[w.by].role = "ADMIN"
       /\ users[w.user] # Null
       /\ w.emp \in employees

LinksKnown ==
  \A u \in UserIds : user[u] # Null /\ user[u].emp # Null =>
    user[u].emp \in known /\ Registry!Unlinked(user[u].emp, u)

IInv ==
  /\ LinksKnown
  /\ \A e \in EmployeeIds : employee[e] # Null <=> e \in known \cup Uncommitted
  /\ \A c \in Calls : call[c] # Idle => CallOK(call[c], user, known)
  /\ \A c, d \in Calls :
       c # d /\ Fresh(c) /\ Fresh(d) => call[c].emp # call[d].emp
=============================================================================
