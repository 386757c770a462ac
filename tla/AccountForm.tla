----------------------------- MODULE AccountForm -----------------------------
(***************************************************************************)
(* The forms of the user administration, edit_user_view.py and             *)
(* create_user_view.py: what a form shows of an account, what it sends when*)
(* it is saved, and what it does when a query fails on the way.            *)
(*                                                                         *)
(* The menus hold names and the form maps them back to rows; a name that no*)
(* active row has leaves its menu at "Loading..." (None), except the job   *)
(* title, which falls back to the department's first one.  A call of the   *)
(* service is one step here (module Accounts takes it apart); between the  *)
(* commit and the query that reloads the form other windows act.           *)
(***************************************************************************)
EXTENDS Naturals, FiniteSets

CONSTANTS
  Users, Windows,
  SignedIn,     \* window -> the administrator who works in it
  Names,        \* texts of the username field ...
  Lower,        \* ... and what str.lower makes of them
  Roles, Departments, Titles,
  DepartmentOf, \* job title -> department
  Active,       \* roles, departments and titles with is_active
  Start,        \* the accounts that there may be when the windows open
  None,         \* NULL, no account, a menu at "Loading..."
  MayFail,      \* may a query fail?
  MaxTouches,   \* bound: entries that the administrators make
  MaxCommits    \* bound: calls of the service that commit

Columns == {"name", "role", "department", "title"}
Rows == [name : Names, role : Roles \cup {None},
         department : Departments \cup {None}, title : Titles \cup {None},
         active : BOOLEAN]
Forms == [user : Users \cup {None}, seen : Rows \cup {None}, ready : BOOLEAN,
          name : Names \cup {None}, role : Roles \cup {None},
          department : Departments \cup {None}, title : Titles \cup {None},
          titles : SUBSET Titles,
          button : {"Disable", "Enable", "Current", "None"},
          asked : BOOLEAN \cup {None}, step : {"idle", "saved", "toggled"}]

\* Accounts from before the organization model have no role, department or
\* title, and a title may have been retired since it was given.
FormAssumption ==
  /\ SignedIn \in [Windows -> Users]
  /\ Lower \in [Names -> Names] /\ \A n \in Names : Lower[Lower[n]] = Lower[n]
  /\ DepartmentOf \in [Titles -> Departments]
  /\ Active \subseteq Roles \cup Departments \cup Titles
  /\ None \notin Users \cup Names \cup Roles \cup Departments \cup Titles \cup Rows \cup Forms
  /\ Start \subseteq [Users -> Rows \cup {None}]
  /\ \A start \in Start :
       /\ \A w \in Windows : start[SignedIn[w]] # None
       /\ \A u \in Users : start[u] # None /\ start[u].title # None =>
            start[u].department = DepartmentOf[start[u].title]
       /\ \A u, v \in Users : u # v /\ start[u] # None /\ start[v] # None =>
            Lower[start[u].name] # Lower[start[v].name]
  /\ MayFail \in BOOLEAN /\ MaxTouches \in Nat /\ MaxCommits \in Nat

VARIABLES
  account,  \* core.users
  form,     \* the form that each window shows; None: the list of users
  known,    \* what a form has read of the row, or was given by hand
  touches, commits

vars == <<account, form, known, touches, commits>>

Accounts == {u \in Users : account[u] # None}

TypeOK ==
  /\ account \in [Users -> Rows \cup {None}]
  /\ form \in [Windows -> Forms \cup {None}]
  /\ DOMAIN known = Windows
  /\ \A w \in Windows : form[w] = None <=> known[w] = {}
  /\ touches \in 0..MaxTouches /\ commits \in 0..MaxCommits

-----------------------------------------------------------------------------
(* Filling a form                                                          *)

Fails == IF MayFail THEN BOOLEAN ELSE {FALSE}

First(S) == IF S = {} THEN None ELSE CHOOSE x \in S : TRUE

TitlesOf(department) ==
  {t \in Titles \cap Active : DepartmentOf[t] = department}

\* Mutant: the account's own title is not looked for.
FirstTitle(f, department, title) ==
  [f EXCEPT !.titles = TitlesOf(department),
            !.title = First(TitlesOf(department))]

LoadJobTitles(f, department, title) ==
  [f EXCEPT !.titles = TitlesOf(department),
            !.title = IF title \in TitlesOf(department) THEN title
                      ELSE First(TitlesOf(department))]

\* populate_form; when the query of the job titles fails, what is filled in
\* before it stays.
Populated(f, failed) ==
  LET row == f.seen
      g == [f EXCEPT !.name = row.name,
              !.role = IF row.role \in Active THEN row.role ELSE @,
              !.department = IF row.department \in Active THEN row.department
                             ELSE @]
  IN  IF row.department \in Active /\ ~failed
      THEN LoadJobTitles(g, row.department, row.title) ELSE g

ButtonOf(w, u, row) ==
  IF u = SignedIn[w] THEN "Current"
  ELSE IF row.active THEN "Disable" ELSE "Enable"

\* Mutant: the button keeps its text.
ButtonKept(w, f) == f

RefreshAccountStatus(w, f) == [f EXCEPT !.button = ButtonOf(w, f.user, f.seen)]

Blank == [user |-> None, seen |-> None, ready |-> FALSE, name |-> None,
          role |-> None, department |-> None, title |-> None, titles |-> {},
          button |-> "None", asked |-> None, step |-> "idle"]

RowPairs(row) == {<<x, row[x]>> : x \in Columns}

\* load_user: a failing query leaves both buttons disabled; such a form can
\* only be left.
LoadUser(w, u) ==
  \E failed \in Fails :
    LET f == [Blank EXCEPT !.user = u, !.seen = account[u]]
    IN  /\ form' = [form EXCEPT ![w] =
             IF failed THEN f
             ELSE RefreshAccountStatus(w,
                    [Populated(f, FALSE) EXCEPT !.ready = TRUE])]
        /\ known' = [known EXCEPT ![w] = RowPairs(account[u])]

\* The form of a new account proposes the first role and department.
LoadReferenceData(w) ==
  \E failed \in Fails :
    LET department == First(Departments \cap Active)
        f == [Blank EXCEPT !.ready = TRUE, !.role = First(Roles \cap Active),
                           !.department = department]
    IN  /\ form' = [form EXCEPT ![w] =
             IF failed THEN Blank ELSE LoadJobTitles(f, department, None)]
        /\ known' = [known EXCEPT ![w] = {<<"new", None>>}]

Init ==
  /\ account \in Start
  /\ form = [w \in Windows |-> None] /\ known = [w \in Windows |-> {}]
  /\ touches = 0 /\ commits = 0

-----------------------------------------------------------------------------
(* The administrator's hand                                                *)

Idle(w) ==
  /\ form[w] # None /\ form[w].ready
  /\ form[w].step = "idle" /\ form[w].asked = None

ShowEditUser(w, u) ==
  /\ form[w] = None /\ u \in Accounts
  /\ LoadUser(w, u)
  /\ UNCHANGED <<account, touches, commits>>

ShowCreateUser(w) ==
  /\ form[w] = None
  /\ LoadReferenceData(w)
  /\ UNCHANGED <<account, touches, commits>>

HandleBack(w) ==
  /\ form[w] # None /\ form[w].step = "idle" /\ form[w].asked = None
  /\ form' = [form EXCEPT ![w] = None]
  /\ known' = [known EXCEPT ![w] = {}]
  /\ UNCHANGED <<account, touches, commits>>

\* The form g results from an entry; pairs are what the entry says.
Touched(w, g, pairs) ==
  /\ Idle(w) /\ touches < MaxTouches
  /\ touches' = touches + 1
  /\ form' = [form EXCEPT ![w] = g]
  /\ known' = [known EXCEPT ![w] = @ \cup pairs]
  /\ UNCHANGED <<account, commits>>

TypeName(w, name) ==
  /\ Idle(w)
  /\ Touched(w, [form[w] EXCEPT !.name = name], {<<"name", name>>})

ChooseRole(w, role) ==
  /\ Idle(w) /\ role \in Active
  /\ Touched(w, [form[w] EXCEPT !.role = role], {<<"role", role>>})

ChooseTitle(w, title) ==
  /\ Idle(w) /\ title \in form[w].titles
  /\ Touched(w, [form[w] EXCEPT !.title = title], {<<"title", title>>})

\* The menu has its new text before the titles are queried; when the query
\* fails, the titles of the other department stay on offer.
HandleDepartmentChange(w, department) ==
  /\ Idle(w) /\ department \in Active
  /\ \E failed \in Fails :
       LET f == [form[w] EXCEPT !.department = department]
           g == IF failed THEN f ELSE LoadJobTitles(f, department, None)
       IN  Touched(w, g, {<<"department", department>>} \cup
                         IF failed THEN {} ELSE {<<"title", g.title>>})

-----------------------------------------------------------------------------
(* Saving                                                                  *)

Valid(f) ==
  /\ f.name # None /\ f.role # None /\ f.department # None
  /\ f.title \in f.titles

\* Mutant: the title is not compared with the department.
AnyPair(f) == TRUE

Belongs(f) == DepartmentOf[f.title] = f.department

UsernameExists(f) ==
  \E v \in Accounts \ {f.user} : Lower[account[v].name] = Lower[f.name]

\* What update_user writes: the fields that differ from the row it has read.
Written(f, active) ==
  [name |-> Lower[f.name], role |-> f.role, department |-> f.department,
   title |-> f.title, active |-> active]

\* create_user writes an account that is active.
Created(f) == Written(f, TRUE)

Accepted(f) ==
  /\ Valid(f) /\ Belongs(f) /\ ~UsernameExists(f)
  /\ f.user # None => Written(f, account[f.user].active) # account[f.user]

Commit(w, u, row) ==
  /\ commits < MaxCommits /\ commits' = commits + 1
  /\ account' = [account EXCEPT ![u] = row]
  /\ UNCHANGED <<known, touches>>

SaveChanges(w) ==
  /\ Idle(w) /\ form[w].user # None
  /\ Accepted(form[w])
  /\ Commit(w, form[w].user, Written(form[w], account[form[w].user].active))
  /\ form' = [form EXCEPT ![w].step = "saved"]

SaveUser(w, u) ==
  /\ Idle(w) /\ form[w].user = None /\ u \notin Accounts
  /\ Accepted(form[w])
  /\ Commit(w, u, Created(form[w]))
  /\ form' = [form EXCEPT ![w].step = "saved"]

\* save_changes after update_user: get_user or the titles fail (the message
\* is an error although the account is saved), or on_saved opens a new form.
AfterChanges(w) ==
  /\ form[w] # None /\ form[w].step = "saved" /\ form[w].user # None
  /\ LET f == [form[w] EXCEPT !.step = "idle"]
         fresh == [f EXCEPT !.seen = account[f.user]]
     IN  \/ LoadUser(w, f.user)
         \/ /\ MayFail
            /\ form' = [form EXCEPT ![w] = f]
            /\ UNCHANGED known
         \/ /\ MayFail
            /\ fresh.seen.department \in Active
            /\ form' = [form EXCEPT ![w] = Populated(fresh, TRUE)]
            /\ known' = [known EXCEPT ![w] = @ \cup RowPairs(fresh.seen)]
  /\ UNCHANGED <<account, touches, commits>>

\* save_user after create_user: half a second later the list opens, unless
\* get_user fails; then the form is as before, with an error.
AfterCreate(w) ==
  /\ form[w] # None /\ form[w].step = "saved" /\ form[w].user = None
  /\ \/ /\ form' = [form EXCEPT ![w] = None]
        /\ known' = [known EXCEPT ![w] = {}]
     \/ /\ MayFail
        /\ form' = [form EXCEPT ![w].step = "idle"]
        /\ UNCHANGED known
  /\ UNCHANGED <<account, touches, commits>>

-----------------------------------------------------------------------------
(* Disabling and enabling                                                  *)

\* The dialog says what self.account calls for, whatever the button says.
ToggleAccountStatus(w) ==
  /\ Idle(w) /\ form[w].button \in {"Disable", "Enable"}
  /\ form' = [form EXCEPT ![w].asked = ~form[w].seen.active]
  /\ UNCHANGED <<account, known, touches, commits>>

\* Mutant: the row is read once more and turned over.
Turned(w) == ~account[form[w].user].active

Wish(w) == form[w].asked

\* disable_account, enable_account: nothing more happens when the answer is
\* no, when the account already is as wished, or when the call fails.
Unconfirmed(w) ==
  /\ form[w] # None /\ form[w].asked # None
  /\ form' = [form EXCEPT ![w].asked = None]
  /\ UNCHANGED <<account, known, touches, commits>>

Confirmed(w) ==
  /\ form[w] # None /\ form[w].asked # None
  /\ LET u == form[w].user
     IN  /\ account[u].active # Wish(w)
         /\ Commit(w, u, [account[u] EXCEPT !.active = Wish(w)])
  /\ form' = [form EXCEPT ![w].asked = None, ![w].step = "toggled"]

FormKept(f) == f

AfterToggle(w) ==
  /\ form[w] # None /\ form[w].step = "toggled"
  /\ \E failed \in Fails :
       LET f == [form[w] EXCEPT !.step = "idle"]
           fresh == [f EXCEPT !.seen = account[f.user]]
       IN  /\ form' = [form EXCEPT ![w] =
                IF failed THEN f ELSE RefreshAccountStatus(w, FormKept(fresh))]
           /\ known' = [known EXCEPT ![w] =
                IF failed THEN @ ELSE @ \cup RowPairs(fresh.seen)]
  /\ UNCHANGED <<account, touches, commits>>

Next ==
  \E w \in Windows :
    \/ \E u \in Users : ShowEditUser(w, u) \/ SaveUser(w, u)
    \/ ShowCreateUser(w) \/ HandleBack(w)
    \/ \E name \in Names : TypeName(w, name)
    \/ \E role \in Roles : ChooseRole(w, role)
    \/ \E department \in Departments : HandleDepartmentChange(w, department)
    \/ \E title \in Titles : ChooseTitle(w, title)
    \/ SaveChanges(w) \/ AfterChanges(w) \/ AfterCreate(w)
    \/ ToggleAccountStatus(w) \/ Unconfirmed(w)
    \/ Confirmed(w) \/ AfterToggle(w)

Spec == Init /\ [][Next]_vars

-----------------------------------------------------------------------------
\* No save gives an account a job title of another department, although a
\* failing query leaves the titles of one department below the name of
\* another.
PairKept ==
  \A u \in Accounts :
    account[u].title # None =>
      DepartmentOf[account[u].title] = account[u].department

\* Without failing queries the button offers what the dialog will ask, through
\* saves, toggles and the toggles of others that the form gets to see.
ButtonFollowsSeen ==
  \A w \in Windows :
    form[w] # None /\ form[w].user # None =>
      form[w].button = ButtonOf(w, form[w].user, form[w].seen)

\* A save writes into a column only what this form has read from the row at
\* some time or what was entered on it (the username in lower case).  Only the
\* title may be another: when one that the form has read is not on offer.
SavesWhatWasSeen ==
  \A w \in Windows :
    form[w] # None /\ form[w].user # None /\ form[w].step = "idle"
      /\ form'[w] # None /\ form'[w].step = "saved" =>
    LET u == form[w].user
        Seen(x) == {p[2] : p \in {q \in known[w] : q[1] = x}}
    IN  /\ account'[u].name \in {Lower[n] : n \in Seen("name")}
        /\ \A x \in {"role", "department"} : account'[u][x] \in Seen(x)
        /\ \/ account'[u].title \in Seen("title")
           \/ ~(Seen("title") \subseteq form[w].titles)

\* An account is disabled or enabled only when the dialog that an
\* administrator confirmed asked for just that, also when two of them do it.
ConfirmedDirection ==
  \A u \in Accounts :
    account'[u].active # account[u].active =>
      \E w \in Windows :
        /\ form[w] # None /\ form[w].user = u
        /\ form[w].asked = account'[u].active

\* What stands in the fields of a form stays until it is saved, overwritten by
\* hand or left: neither a refused save nor a toggle takes it away.
EntriesKept ==
  \A w \in Windows :
    form[w] # None /\ form'[w] # None /\ form[w].step # "saved"
      /\ touches' = touches =>
    \A x \in Columns : form'[w][x] = form[w][x]
=============================================================================
