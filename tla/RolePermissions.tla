---------------------------- MODULE RolePermissions ----------------------------
(***************************************************************************)
(* The editor of a role's permissions (roles_permissions_view.py) and the  *)
(* transaction that saves it (OrganizationService.update_role_permissions).*)
(*                                                                         *)
(* A client loads the permissions of one role into check boxes and later   *)
(* saves the whole selection: the transaction compares it with what the    *)
(* role has by then, deletes all rows of the role and inserts those of the *)
(* selection, ON CONFLICT DO NOTHING.  It takes no lock of its own and runs*)
(* READ COMMITTED, so that each statement sees what was committed when it  *)
(* began.  Whether a user may manage roles is read from the same rows.     *)
(***************************************************************************)
EXTENDS Integers, FiniteSets

CONSTANTS
  Clients,      \* running clients with the screen open
  Roles, Administrator,   \* roles; SYSTEM_ADMINISTRATOR_ROLE
  Permissions, Manage,    \* permissions; administration.roles.manage
  RoleOf,       \* the role_id that each client's user signed in with
  Overlap,      \* may two clients save the same role at the same time?
  MaxSaves      \* bound: transactions begun

RolesAssumption ==
  /\ Administrator \in Roles /\ Manage \in Permissions
  /\ RoleOf \in [Clients -> Roles]
  /\ Overlap \in BOOLEAN /\ MaxSaves \in Nat

VARIABLES
  granted,  \* core.role_permissions, as committed: role -> permissions
  screen,   \* what the client's check boxes were loaded with, or Nothing
  tx,       \* the client's transaction
  log,      \* the activity log: what each role was said to gain and lose
  saved,    \* history: the selection that was saved last
  saves

vars == <<granted, screen, tx, log, saved, saves>>

Nothing == [role |-> "none"]
Idle == [step |-> "idle"]
Selections == SUBSET Permissions

Transaction ==
  [step : {"checked", "deleting", "deleted", "inserted"}, role : Roles,
   selection : Selections, seen : Selections,
   removed : Selections, added : Selections]

TypeOK ==
  /\ {granted, saved, log} \subseteq [Roles -> Selections]
  /\ screen \in [Clients -> [role : Roles, ticked : Selections] \cup {Nothing}]
  /\ tx \in [Clients -> Transaction \cup {Idle}]
  /\ saves \in 0..MaxSaves

Running(c) == tx[c] # Idle
Others(c, r) == {d \in Clients \ {c} : Running(d) /\ tx[d].role = r}

Init ==
  /\ granted \in [Roles -> Selections]
  /\ granted[Administrator] = Permissions
  /\ screen = [c \in Clients |-> Nothing] /\ tx = [c \in Clients |-> Idle]
  /\ log = [r \in Roles |-> granted[r]] /\ saved = granted /\ saves = 0

\* PermissionService.can_manage_roles: the rows of the role that the user had
\* when signing in.
MayManage(c) == Manage \in granted[RoleOf[c]]

Step(c, t) == tx' = [tx EXCEPT ![c] = t]

\* get_role_permission_editor_data, then render_permissions.
LoadEditor(c, r) ==
  /\ ~Running(c) /\ MayManage(c)
  /\ screen' = [screen EXCEPT ![c] = [role |-> r, ticked |-> granted[r]]]
  /\ UNCHANGED <<granted, tx, log, saved, saves>>

\* The permissions that the service compares the selection with.
RoleHas(c, r) == granted[r]

\* The checks of save_changes and of the service: a protected role is not
\* saved from the screen, and the service lets it only have everything.
Refused(c, r, selection) ==
  \/ r = Administrator
  \/ selection = RoleHas(c, r)
  \/ r = Administrator /\ selection # Permissions

\* The user ticks what he likes and saves; update_role_permissions checks.
BeginSave(c, selection) ==
  /\ ~Running(c) /\ screen[c] # Nothing /\ saves < MaxSaves
  /\ MayManage(c)
  /\ LET r == screen[c].role IN
       /\ ~Refused(c, r, selection)
       /\ Overlap \/ Others(c, r) = {}
       /\ Step(c, [step |-> "checked", role |-> r, selection |-> selection,
                   seen |-> RoleHas(c, r), removed |-> {}, added |-> {}])
  /\ saves' = saves + 1
  /\ UNCHANGED <<granted, screen, log, saved>>

\* DELETE begins: it sees the rows that are committed now ...
BeginDelete(c) ==
  /\ tx[c] # Idle /\ tx[c].step = "checked"
  /\ Step(c, [tx[c] EXCEPT !.step = "deleting",
                           !.removed = granted[tx[c].role]])
  /\ UNCHANGED <<granted, screen, log, saved, saves>>

\* ... and waits for the transactions that have deleted one of them.
FinishDelete(c) ==
  /\ tx[c] # Idle /\ tx[c].step = "deleting"
  /\ \A d \in Others(c, tx[c].role) :
       tx[d].step \in {"deleted", "inserted"} =>
         tx[d].removed \cap tx[c].removed = {}
  /\ Step(c, [tx[c] EXCEPT !.step = "deleted"])
  /\ UNCHANGED <<granted, screen, log, saved, saves>>

\* The INSERTs wait for whoever has touched one of the rows, and do nothing
\* for a row that stands already.
Insert(c) ==
  /\ tx[c] # Idle /\ tx[c].step = "deleted"
  /\ LET r == tx[c].role
         standing == granted[r] \ tx[c].removed
     IN  /\ \A d \in Others(c, r) :
              \/ tx[d].step \in {"checked", "deleting"}
              \/ (tx[d].removed \cup tx[d].added) \cap tx[c].selection = {}
         /\ Step(c, [tx[c] EXCEPT !.step = "inserted",
                                  !.added = tx[c].selection \ standing])
  /\ UNCHANGED <<granted, screen, log, saved, saves>>

\* A DELETE that waited for this commit passes over the rows that are gone;
\* those inserted since it began it does not see.
Ended(c) ==
  [d \in Clients |->
    IF d = c THEN Idle
    ELSE IF d \in Others(c, tx[c].role) /\ tx[d].step = "deleting"
    THEN [tx[d] EXCEPT !.removed = @ \ tx[c].removed] ELSE tx[d]]

\* Mutant: the rows that the selection no longer has are left.
OnlyAdded(r, t) == [granted EXCEPT ![r] = @ \cup t.added]

Replaced(r, t) == [granted EXCEPT ![r] = (@ \ t.removed) \cup t.added]

\* The log entry names the difference to what the check had read; then the
\* transaction commits and the screen loads the role again.
Commit(c) ==
  /\ tx[c] # Idle /\ tx[c].step = "inserted"
  /\ LET r == tx[c].role
         t == tx[c]
     IN  /\ granted' = Replaced(r, t)
         /\ log' = [log EXCEPT ![r] =
                      (@ \ (t.seen \ t.selection)) \cup (t.selection \ t.seen)]
         /\ saved' = [saved EXCEPT ![r] = t.selection]
         /\ screen' = [screen EXCEPT ![c] =
                         [role |-> r, ticked |-> granted'[r]]]
  /\ tx' = Ended(c)
  /\ UNCHANGED saves

\* Any statement may raise, or the client dies: nothing of it is kept.
RollBack(c) ==
  /\ Running(c) /\ Step(c, Idle)
  /\ UNCHANGED <<granted, screen, log, saved, saves>>

Next ==
  \E c \in Clients :
    \/ \E r \in Roles : LoadEditor(c, r)
    \/ \E selection \in Selections : BeginSave(c, selection)
    \/ BeginDelete(c) \/ FinishDelete(c) \/ Insert(c)
    \/ Commit(c) \/ RollBack(c)

Spec == Init /\ [][Next]_vars

-----------------------------------------------------------------------------
\* A role has exactly the permissions that were saved for it last: a save
\* replaces all of them.
RoleHasWhatWasSaved == granted = saved

\* Whoever follows the activity log, entry by entry, arrives at the
\* permissions that each role has.
LogTellsTheTruth == log = granted

\* System Administrator retains all registered permissions, so that somebody
\* can manage the roles whatever is saved.
AdministratorKeepsAll == granted[Administrator] = Permissions
=============================================================================
