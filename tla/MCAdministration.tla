--------------------------- MODULE MCAdministration ---------------------------
(***************************************************************************)
(* Organization and master data, their services and their screens, on      *)
(* small instances.  An initial state chooses the instance that moves      *)
(* (part): MasterData itself with transactions that overlap, or an instance*)
(* of one of the modules.  What does not move stays Off, or empty.         *)
(***************************************************************************)
EXTENDS MasterData, Sequences, TLC

CONSTANTS a1, a2,  \* accounts; callers, too
          b1, b2   \* names, also of records; windows

VARIABLES
  part,
  account, task, tasks,
  granted, permitted, tx, log, saved, saves,
  session,
  form, known, touches, commits,
  listed, wanted,
  table, filter, search, timer, rows, asked, highlight, selected, button,
  boxes, target, foreign, gestures

rights == <<granted, permitted, tx, log, saved, saves>>
forms == <<form, known, touches, commits>>
lists == <<listed, wanted>>
screen == <<table, filter, search, timer, rows, asked, highlight, selected,
            button, boxes, target, foreign, gestures>>
all == <<part, account, task, tasks, rights, session, forms, lists, screen, vars>>

Off == "off"

RightsOff ==
  /\ granted = Off /\ permitted = Off /\ tx = Off /\ log = Off
  /\ saved = Off /\ saves = Off
TasksOff == task = Off /\ tasks = Off
FormsOff == form = Off /\ known = Off /\ touches = Off /\ commits = Off
ListsOff == listed = Off /\ wanted = Off
NoRecords ==
  /\ row = [r \in Records |-> None] /\ request = [q \in Requests |-> None]
  /\ call = [c \in Callers |-> None] /\ calls = 0
ScreenOff ==
  /\ table = Off /\ filter = Off /\ search = Off /\ timer = Off /\ rows = Off
  /\ asked = Off /\ highlight = Off /\ selected = Off /\ button = Off
  /\ boxes = Off /\ target = Off /\ foreign = Off /\ gestures = Off

-----------------------------------------------------------------------------
(* The instances of the organization.                                      *)

\* Two editors, of an administrator and of a user of another role, who never
\* save the same role at the same time.
Rights == INSTANCE RolePermissions WITH
  Clients <- {"c1", "c2"}, Roles <- {"administrator", "officer", "engineer"},
  Administrator <- "administrator", Permissions <- {"manage", "view"},
  Manage <- "manage", RoleOf <- [c1 |-> "administrator", c2 |-> "officer"],
  Overlap <- FALSE, MaxSaves <- 3, screen <- permitted

Titles == [buyer |-> "stores", keeper |-> "site"]
Legacy == [manager |-> "Administrator", officer |-> "Purchasing Officer"]

\* Two clients and three accounts, one of them still to be created; one call
\* after the other.
Single == INSTANCE Accounts WITH
  Users <- {a1, a2, "third"}, Usernames <- {b1, b2, "carl"},
  Roles <- DOMAIN Legacy, Departments <- {"stores", "site"},
  Titles <- DOMAIN Titles, DepartmentOf <- Titles, LegacyOf <- Legacy,
  ManagerRoles <- {"manager"}, Clients <- {"c1", "c2"}, Overlap <- FALSE,
  MaxCalls <- 3, call <- task, calls <- tasks

\* The same with calls that overlap.
Overlapping == INSTANCE Accounts WITH
  Users <- {a1, a2, "third"}, Usernames <- {b1, b2, "carl"},
  Roles <- DOMAIN Legacy, Departments <- {"stores", "site"},
  Titles <- DOMAIN Titles, DepartmentOf <- Titles, LegacyOf <- Legacy,
  ManagerRoles <- {"manager"}, Clients <- {"c1", "c2"}, Overlap <- TRUE,
  MaxCalls <- 2, call <- task, calls <- tasks

\* Two windows of an administrator, the account of a worker and one still to
\* be created.  Of the four job titles one is retired.
Windows == {b1, b2}
Lower == [anna |-> "anna", Carl |-> "carl", carl |-> "carl", dora |-> "dora"]
FormTitles == Titles @@ [clerk |-> "stores", planner |-> "stores"]
InUse == {"manager", "officer", "stores", "site", "buyer", "clerk", "keeper"}

AccountOf(name, role, title) ==
  [name |-> name, role |-> role, title |-> title, active |-> TRUE,
   department |-> IF title = None THEN None ELSE FormTitles[title]]

\* An account of before the organization had roles and titles, or a later one.
Start ==
  {[boss |-> AccountOf("anna", "manager", "buyer"), fresh |-> None,
    worker |-> AccountOf("Carl", pair[1], pair[2])] :
     pair \in {<<None, None>>, <<"officer", "buyer">>, <<"officer", "clerk">>,
               <<"officer", "planner">>}}

Faults == INSTANCE AccountForm WITH
  Users <- {"boss", "worker", "fresh"}, SignedIn <- [w \in Windows |-> "boss"],
  Names <- DOMAIN Lower, Roles <- {"manager", "officer"},
  Departments <- {"stores", "site"}, Titles <- DOMAIN FormTitles,
  DepartmentOf <- FormTitles, Active <- InUse, MayFail <- TRUE,
  MaxTouches <- 2, MaxCommits <- 2

\* The same when no query fails.
Sound == INSTANCE AccountForm WITH
  Users <- {"boss", "worker", "fresh"}, SignedIn <- [w \in Windows |-> "boss"],
  Names <- DOMAIN Lower, Roles <- {"manager", "officer"},
  Departments <- {"stores", "site"}, Titles <- DOMAIN FormTitles,
  DepartmentOf <- FormTitles, Active <- InUse, MayFail <- FALSE,
  MaxTouches <- 2, MaxCommits <- 2

-----------------------------------------------------------------------------
(* The instances of the master data.                                       *)

\* Stale lists and dialogs, transactions one after the other.
Stale == INSTANCE MasterData WITH
  Clients <- {"k1", "k2"}, Projects <- {"p1", "p2"}, Sites <- {"s1"},
  Existing <- {"k1", "p1", "s1"}, Overlap <- FALSE, MaxCalls <- 3,
  row <- listed, request <- wanted, call <- task, calls <- tasks

\* The client screen with loads and saves that fail.
ClientScreen == INSTANCE MasterScreen WITH
  Records <- {"r1", "r2"}, Names <- {"n1", "n2"}, AnyName <- "any",
  NoRecord <- "none", Kind <- "client", MayFail <- TRUE, MaxForeign <- 2,
  MaxGestures <- 5

\* The site and project screens without failures.
SiteScreen == INSTANCE MasterScreen WITH
  Records <- {"r1", "r2"}, Names <- {"n1", "n2"}, AnyName <- "any",
  NoRecord <- "none", Kind <- "site", MayFail <- FALSE, MaxForeign <- 2,
  MaxGestures <- 5

ASSUME Rights!RolesAssumption
ASSUME Single!OrganizationAssumption /\ Overlapping!OrganizationAssumption
ASSUME Faults!FormAssumption /\ Sound!FormAssumption
ASSUME Overlap /\ Stale!MasterDataAssumption
ASSUME ClientScreen!ScreenAssumption /\ SiteScreen!ScreenAssumption

-----------------------------------------------------------------------------
AdministrationInit ==
  \/ /\ part = "rights" /\ Rights!Init
     /\ account = Off /\ TasksOff /\ session = Off
     /\ FormsOff /\ ListsOff /\ NoRecords /\ ScreenOff
  \/ /\ \/ part = "single" /\ Single!Init
        \/ part = "overlapping" /\ Overlapping!Init
     /\ RightsOff /\ FormsOff /\ ListsOff /\ NoRecords /\ ScreenOff
  \/ /\ \/ part = "faults" /\ Faults!Init
        \/ part = "sound" /\ Sound!Init
     /\ RightsOff /\ TasksOff /\ session = Off
     /\ ListsOff /\ NoRecords /\ ScreenOff
  \/ /\ \/ part = "stale" /\ Stale!Init /\ NoRecords
        \/ part = "races" /\ Init /\ TasksOff /\ ListsOff
     /\ RightsOff /\ account = Off /\ session = Off /\ FormsOff /\ ScreenOff
  \/ /\ \/ part = "client screen" /\ ClientScreen!Init
        \/ part = "site screen" /\ SiteScreen!Init
     /\ RightsOff /\ account = Off /\ TasksOff /\ session = Off
     /\ FormsOff /\ ListsOff /\ NoRecords

RightsSteps ==
  /\ part = "rights" /\ Rights!Next
  /\ UNCHANGED <<part, account, task, tasks, session, forms, lists, screen, vars>>

AccountSteps ==
  /\ \/ part = "single" /\ Single!Next
     \/ part = "overlapping" /\ Overlapping!Next
  /\ UNCHANGED <<part, rights, forms, lists, screen, vars>>

FormSteps ==
  /\ \/ part = "faults" /\ Faults!Next
     \/ part = "sound" /\ Sound!Next
  /\ UNCHANGED <<part, task, tasks, rights, session, lists, screen, vars>>

ListSteps ==
  /\ part = "stale" /\ Stale!Next
  /\ UNCHANGED <<part, account, rights, session, forms, screen, vars>>

MasterSteps ==
  /\ part = "races" /\ Next
  /\ UNCHANGED <<part, account, task, tasks, rights, session, forms, lists, screen>>

ScreenSteps ==
  /\ \/ part = "client screen" /\ ClientScreen!Next
     \/ part = "site screen" /\ SiteScreen!Next
  /\ UNCHANGED <<part, account, task, tasks, rights, session, forms, lists, vars>>

AdministrationNext ==
  RightsSteps \/ AccountSteps \/ FormSteps \/ ListSteps \/ MasterSteps \/ ScreenSteps

AdministrationSpec == AdministrationInit /\ [][AdministrationNext]_all

Interchangeable == Permutations({a1, a2}) \cup Permutations({b1, b2})

-----------------------------------------------------------------------------
(* The properties of the instances.                                        *)

\* The type invariants of the five modules.
TypesOK ==
  /\ part = "rights" => Rights!TypeOK
  /\ part = "overlapping" => Overlapping!TypeOK
  /\ part = "faults" => Faults!TypeOK
  /\ part = "races" => TypeOK
  /\ part = "client screen" => ClientScreen!TypeOK
  /\ part = "site screen" => SiteScreen!TypeOK

\* RolePermissions: a role has the selection that was saved last, the activity
\* log adds up to it, and the administrator's role keeps everything.
\* Accounts, AccountForm: as long as calls follow one another, user names and
\* employee numbers stay distinct and a job title is one of its account's
\* department, whatever fails in a form; the role agrees with its text in the
\* legacy column also when calls overlap.
OrganizationSound ==
  /\ part = "rights" => /\ Rights!RoleHasWhatWasSaved
                        /\ Rights!LogTellsTheTruth
                        /\ Rights!AdministratorKeepsAll
  /\ part = "single" => Single!AccountsDistinct /\ Single!TitleInDepartment
  /\ part = "overlapping" => Overlapping!LegacyRoleAgrees
  /\ part = "faults" => Faults!PairKept

\* AccountForm: a save writes what the form was loaded with or was given, a
\* toggle goes the way that was confirmed, and entries are lost by nothing but
\* their own save.
SavesWhatWasSeen ==
  [][part = "faults" => /\ Faults!SavesWhatWasSeen
                        /\ Faults!ConfirmedDirection
                        /\ Faults!EntriesKept]_all

\* MasterData: from stale lists and dialogs too, records come under active
\* owners only, and archived projects and sites are not edited.
StaleListsDoNoHarm ==
  [][part = "stale" => /\ Stale!PlacedUnderActive
                       /\ Stale!ArchivedStaysAsItIs]_all

\* AccountForm: the status button says what its dialog will ask.
\* MasterScreen: grid, toolbar and the client screen have one selection, a
\* command acts on a row that is listed, as it is listed, and when nothing is
\* open or scheduled the list answers the toolbar.
ScreensAgree ==
  /\ part = "sound" => Sound!ButtonFollowsSeen
  /\ part = "client screen" => /\ ClientScreen!ButtonsFollowTheRow
                               /\ ClientScreen!QuietMeansAnswered
  /\ part = "site screen" => /\ SiteScreen!TargetIsShown
                             /\ SiteScreen!QuietMeansAnswered

\* MasterScreen: a reload keeps the selection if its row is still listed.
SelectionKept ==
  [][/\ part = "client screen" => ClientScreen!SelectionKept
     /\ part = "site screen" => SiteScreen!SelectionKept]_all
=============================================================================
