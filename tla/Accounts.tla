------------------------------- MODULE Accounts -------------------------------
(***************************************************************************)
(* User accounts: OrganizationService.create_user, update_user, enable_user*)
(* and disable_user, called from the administration screens, and the       *)
(* sign-in (auth_service.py).                                              *)
(*                                                                         *)
(* Each call is one READ COMMITTED transaction without a lock: it reads,   *)
(* checks, and then writes one row, and update_user writes only the columns*)
(* that differ from what it has read.  A session keeps the role that its   *)
(* user had when signing in.  The schema of core.users is not part of the  *)
(* repository; no unique index is assumed here.                            *)
(***************************************************************************)
EXTENDS Integers, FiniteSets, FiniteSetsExt, Functions

CONSTANTS
  Users,        \* identities of accounts
  Usernames, Roles, Departments, Titles,
  DepartmentOf, \* job title -> department
  LegacyOf,     \* role -> text of the legacy column (_get_legacy_role_name)
  ManagerRoles, \* roles with administration.users.manage
  Clients,      \* running clients
  None,         \* no account, no value (NULL)
  Overlap,      \* may two transactions of the service overlap?
  MaxCalls      \* bound: calls of the service

Legacies == Range(LegacyOf)
Columns == [number : Nat, username : Usernames,
            role : Roles \cup {None}, legacy : Legacies \cup {None},
            department : Departments \cup {None}, title : Titles \cup {None},
            active : BOOLEAN]

OrganizationAssumption ==
  /\ DepartmentOf \in [Titles -> Departments]
  /\ DOMAIN LegacyOf = Roles /\ ManagerRoles \subseteq Roles
  /\ Overlap \in BOOLEAN /\ MaxCalls \in Nat
  /\ \A S \in {Users, Usernames, Roles, Departments, Titles} : None \notin S
  /\ None \notin Columns

VARIABLES
  account,  \* core.users
  session,  \* the user and role that each client's window works with
  call,     \* what the client's call has checked and not yet written
  calls

vars == <<account, session, call, calls>>

Accounts == {u \in Users : account[u] # None}

TypeOK ==
  /\ account \in [Users -> Columns \cup {None}]
  /\ session \in [Clients -> [user : Accounts, role : Roles \cup {None}]
                             \cup {None}]
  /\ DOMAIN call = Clients
  /\ \A c \in Clients : call[c] # None => call[c].user \in Users
  /\ calls \in 0..MaxCalls

\* Accounts from before the organization model have no role, department or
\* title; there is a manager.  Numbers may have gaps.
Init ==
  /\ \E manager, old \in Users, role \in ManagerRoles, title \in Titles,
        names \in [Users -> Usernames], legacy \in Legacies :
       /\ manager # old /\ names[manager] # names[old]
       /\ account = [u \in Users |->
            CASE u = manager ->
                   [number |-> 3, username |-> names[u], role |-> role,
                    legacy |-> LegacyOf[role], title |-> title,
                    department |-> DepartmentOf[title], active |-> TRUE]
              [] u = old ->
                   [number |-> 1, username |-> names[u], role |-> None,
                    legacy |-> legacy, title |-> None, department |-> None,
                    active |-> TRUE]
              [] OTHER -> None]
  /\ session = [c \in Clients |-> None] /\ call = [c \in Clients |-> None]
  /\ calls = 0

-----------------------------------------------------------------------------
(* authenticate_user.  has_permission goes by the role_id of the session.  *)

SignIn(c, u) ==
  /\ session[c] = None /\ u \in Accounts /\ account[u].active
  /\ session' = [session EXCEPT ![c] = [user |-> u, role |-> account[u].role]]
  /\ UNCHANGED <<account, call, calls>>

SignOut(c) ==
  /\ session[c] # None /\ call[c] = None
  /\ session' = [session EXCEPT ![c] = None]
  /\ UNCHANGED <<account, call, calls>>

-----------------------------------------------------------------------------
(* The service: what each call reads and checks ...                        *)

MayCall(c) ==
  /\ session[c] # None /\ session[c].role \in ManagerRoles
  /\ call[c] = None /\ calls < MaxCalls
  /\ Overlap \/ \A d \in Clients : call[d] = None

Called(c, checked) ==
  /\ call' = [call EXCEPT ![c] = checked] /\ calls' = calls + 1
  /\ UNCHANGED <<account, session>>

UsernameExists(name, except) ==
  \E u \in Accounts \ {except} : account[u].username = name

\* _calculate_next_employee_number; no account is ever deleted.
NextNumber == Max({account[u].number : u \in Accounts} \cup {0}) + 1

\* Mutant: the title is not compared with the department.
AnyPair(department, title) == TRUE

Belongs(department, title) == DepartmentOf[title] = department

CheckCreate(c, u, name, role, department, title) ==
  /\ MayCall(c) /\ u \notin Accounts
  /\ \A d \in Clients : call[d] # None => call[d].user # u
  /\ ~UsernameExists(name, None)
  /\ Belongs(department, title)
  /\ Called(c, [user |-> u, changes |->
       [number |-> NextNumber, username |-> name, role |-> role,
        legacy |-> LegacyOf[role], department |-> department, title |-> title,
        active |-> TRUE]])

Same(u, column, value) == account[u][column] = value

\* Mutant: the legacy text is not written along with the role.
RoleAlone(u, role) == IF Same(u, "role", role) THEN {} ELSE {"role"}

\* The columns that a new role touches.
RoleColumns(u, role) ==
  IF Same(u, "role", role) THEN {} ELSE {"role", "legacy"}

\* The edit form sends every field; those that differ from the row just read
\* are written.
CheckUpdate(c, u, name, role, department, title) ==
  /\ MayCall(c) /\ u \in Accounts
  /\ ~UsernameExists(name, u)
  /\ Belongs(department, title)
  /\ LET new == [username |-> name, role |-> role, legacy |-> LegacyOf[role],
                 department |-> department, title |-> title]
         columns == RoleColumns(u, role) \cup
                    {x \in {"username", "department", "title"} :
                       ~Same(u, x, new[x])}
     IN  /\ columns # {}
         /\ Called(c, [user |-> u, changes |-> Restrict(new, columns)])

\* enable_user, disable_user: the latter not of one's own account.
CheckToggle(c, u) ==
  /\ MayCall(c) /\ u \in Accounts
  /\ account[u].active => session[c].user # u
  /\ Called(c, [user |-> u, changes |-> [active |-> ~account[u].active]])

-----------------------------------------------------------------------------
(* ... and the write, by identity alone, with the commit.                  *)

Write(c) ==
  /\ call[c] # None
  /\ LET u == call[c].user
         changes == call[c].changes
     IN  account' = [account EXCEPT ![u] =
           IF @ = None THEN changes
           ELSE [x \in DOMAIN @ |-> IF x \in DOMAIN changes THEN changes[x]
                                                            ELSE @[x]]]
  /\ call' = [call EXCEPT ![c] = None]
  /\ UNCHANGED <<session, calls>>

\* A statement raises or the client dies: rolled back.
Fail(c) ==
  /\ call[c] # None
  /\ call' = [call EXCEPT ![c] = None]
  /\ UNCHANGED <<account, session, calls>>

Next ==
  \E c \in Clients :
    \/ \E u \in Users : SignIn(c, u) \/ CheckToggle(c, u)
    \/ SignOut(c)
    \/ /\ MayCall(c)
       /\ \E u \in Users, name \in Usernames, role \in Roles,
             department \in Departments, title \in Titles :
            \/ CheckCreate(c, u, name, role, department, title)
            \/ CheckUpdate(c, u, name, role, department, title)
    \/ Write(c) \/ Fail(c)

Spec == Init /\ [][Next]_vars

-----------------------------------------------------------------------------
\* No two accounts share a username or an employee number.
AccountsDistinct ==
  \A u, v \in Accounts :
    u # v => /\ account[u].username # account[v].username
             /\ account[u].number # account[v].number

\* An account's job title belongs to the account's department.
TitleInDepartment ==
  \A u \in Accounts :
    account[u].title # None => DepartmentOf[account[u].title] = account[u].department

\* The text of the legacy role, by which older code decides, is that of the
\* account's role, whatever updates have overlapped.
LegacyRoleAgrees ==
  \A u \in Accounts :
    account[u].role # None => account[u].legacy = LegacyOf[account[u].role]
=============================================================================
