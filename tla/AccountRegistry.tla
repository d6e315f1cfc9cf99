-------------------------- MODULE AccountRegistry --------------------------
(***************************************************************************)
(* What auth-service promises of its logins: an account is registered by   *)
(* an existing account whose role may create its role, at one instant at   *)
(* which neither its name nor its employee has a login; an ADMIN may link  *)
(* a login to another employee that has none.  AuthService says how two    *)
(* overlapping transactions come to that.                                  *)
(***************************************************************************)

CONSTANTS
  UserIds,      \* primary keys of auth_user
  EmployeeIds,  \* primary keys of employee
  Emails,       \* user names and work e-mail addresses
  AdminName,    \* auth.seed-admin.username
  Null          \* no such row, no link

Roles == {"ADMIN", "MANAGER", "HR", "EMPLOYEE"}

Account ==
  [name : Emails, role : Roles, emp : EmployeeIds \cup {Null}]

\* CREATABLE_ROLES
Creatable(role) ==
  CASE role = "ADMIN" -> {"MANAGER", "HR", "EMPLOYEE"}
    [] role = "MANAGER" -> {"HR", "EMPLOYEE"}
    [] role = "HR" -> {"EMPLOYEE"}
    [] OTHER -> {}

VARIABLE user  \* auth_user, by primary key

TypeOK == user \in [UserIds -> Account \cup {Null}]

Init == user = [u \in UserIds |-> Null]

\* No account has the name.
NameFree(name) == \A u \in UserIds : user[u] # Null => user[u].name # name

\* No account but u's is linked to employee e.
Unlinked(e, u) ==
  \A v \in UserIds \ {u} : user[v] # Null => user[v].emp # e

SeedAdmin(u) ==
  /\ user[u] = Null /\ NameFree(AdminName)
  /\ user' = [user EXCEPT ![u] =
        [name |-> AdminName, role |-> "ADMIN", emp |-> Null]]

Register(by, u, name, role, e) ==
  /\ user[by] # Null /\ role \in Creatable(user[by].role)
  /\ user[u] = Null /\ NameFree(name) /\ Unlinked(e, u)
  /\ user' = [user EXCEPT ![u] = [name |-> name, role |-> role, emp |-> e]]

LinkEmployee(by, u, e) ==
  /\ user[by] # Null /\ user[by].role = "ADMIN"
  /\ user[u] # Null /\ Unlinked(e, u)
  /\ user' = [user EXCEPT ![u].emp = e]

Next ==
  \/ \E u \in UserIds : SeedAdmin(u)
  \/ \E by, u \in UserIds, name \in Emails, role \in Roles,
        e \in EmployeeIds : Register(by, u, name, role, e)
  \/ \E by, u \in UserIds, e \in EmployeeIds : LinkEmployee(by, u, e)

Spec == Init /\ [][Next]_user
=============================================================================
