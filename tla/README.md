# Verification of the JCAP Construction Suite

TLA+ models, TLC runs and TLAPS proofs for the JCAP Construction Suite: the
Material Requests with their edit lock, assignments, worker, clarifications,
quotations and files; the events and notifications by which clients hear of each
other; the organization and master data; and the screens that show all this and
act on what they loaded.  Paths below are relative to the repository.

## 1. The system

The suite is a desktop program (Python, Tk) run by several users at once.
There is no application server: every client opens its own connections to one
PostgreSQL database and copies files to one network share.  A headless worker
(`auto_assignment_worker.py`) is one more client.  So all concurrency is between
transactions of different clients (and between two windows of one client), and
all coordination is through rows: `SELECT ... FOR UPDATE`, guarded `UPDATE`s, the
lock columns of a request, and LISTEN/NOTIFY for refreshing views.

### Inventory

| Component | State | Operations | Modelled |
|---|---|---|---|
| Material Request services (`modules/quotation/services/material_request_service.py`) | `quotation.material_requests` | create, lock, unlock, force-unlock, lock status, update, archive, restore, delete | `MaterialRequestRow`, `RequestDesk` |
| Edit view, collaboration banner (`modules/quotation/views`, `components`) | what a view loaded, whether it holds the lock | open, load, save, release, refresh | transactions: `RequestDesk`; banner: `RequestDetails` |
| Details view (`material_request_details_view.py`, its sections and panels) | the loaded record, header, tabs, dialogs, timers | refresh, every command | `RequestDetails` |
| Assignments (`processes/material_request_assignment_process.py`) | assignment history; context columns of the request | assign, reassign | `RequestDesk` |
| Auto-assignment worker (`services/auto_assignment_service.py`, `auto_assignment_worker.py`) | none of its own | claim, rank, assign, cycle | `RequestDesk` (effect), `AutoAssignment` |
| Purchasing workflow (`services/material_request_workflow_service.py`) | the two status columns | start work, evaluate waiting, evaluate completed | `MaterialRequestRow`, `Procurement` |
| Supplier clarifications (`core/clarifications`, `clarification_details_view.py`) | status, messages; windows | record, respond, forward, follow up, resolve | `Procurement`, `ClarificationView` |
| Supplier quotations (`processes/supplier_quotation_process.py`) | quotations, file rows, files on the share | create, upload, delete file, archive, restore, delete | `Procurement`, `StoredFiles`, `RowLocks` |
| Attachments and storage (`material_request_attachment_process.py`, `core/documents`) | attachment rows, files on the share | copy, compensate, quarantine, remove folder | `StoredFiles` |
| Real-time events (`core/realtime`, `modules/dashboard/main_window.py`) | connection, queue, scheduled refreshes | publish, listen, reconnect, refresh, bell | `RealtimeDelivery` |
| Notifications (`core/notifications`, `notification_panel.py`) | `core.notifications`; panels | notify, list, select, mark read | `Notifications` |
| Quotation list, dashboard (`quotation_view.py`, `dashboard_view.py`) | loaded records, cards, filters | load, refresh, filter, synchronise cards | `CardList`, `RequestList`, `Dashboard` |
| Organization (`core/organization`, `core/auth`) | users, roles, permissions | create, update, enable, disable, sign in, save permissions | `Accounts`, `RolePermissions` |
| Account forms (`edit_user_view.py`, `create_user_view.py`) | what a form loaded and shows | load, department change, save, toggle | `AccountForm` |
| Master data (`modules/master_data`) | clients, projects, sites | create, update, archive, restore | `MasterData` |
| Master data screens (its views, toolbar, grid, dialogs) | three selections, search timer, dialogs | search, filter, select, commands | `MasterScreen` |
| Activity log | rows written with the operation they report | insert | no; its text for roles: `RolePermissions` |
| Numbering (`core/numbering`) | one counter row per document type and year | next number | no: one atomic statement |
| Database access (`core/database`) | connections | commit, roll back | no: it is why one transaction is one step |
| Permissions (`core/security`) | permission catalogue | checks | as guards |
| Workflow registry, lifecycle (`core/workflow`, `core/lifecycle`) | tables of constants | validate a transition | status values; no service consults the registry |
| Other screens, migrations, tests, scripts | | | no |

### How they interact

* A details view loads a request and offers Edit to its `assigned_to`.  The edit
  view then runs up to five transactions: ask the lock status, take the lock,
  load the row, save, unlock.  Any of them may be the last one.
* Managers assign and reassign; the worker assigns what stayed unassigned for an
  hour.  Each writes the assignment history and the context columns of the
  request in one transaction.  Managers respect the edit lock; the worker does
  not look at it.
* An officer's work on clarifications, quotations and files calls the workflow
  service, which re-reads these tables under the row lock of the request and moves
  both status columns.
* Archive and restore write the display status only and drop the lock; delete
  takes assignments, quotations and clarifications along.
* An operation writes its notifications and publishes its event in its own
  transaction.  Every client's listener thread receives the event; the Tk thread
  hands it to the view on the screen, which reads again 150 ms later.
* Files are copied, renamed and removed around the transaction that registers them:
  nothing commits both.
* Screens call the services with what they hold: the row that was selected, the record
  that was loaded, the text that was typed.  The services check again, on what they
  read without a lock, and write by identity.

### What is hard about it

The list is in `PROJECT.json` (`hazards`), each at its line.  In short: views that
act on what they loaded long ago, or that are refreshed under an open dialog;
notifications lost with a connection; failures between a file operation, a commit and
the reload that follows it; a lock that expires under an open view, by
clocks that differ; two status columns written by different services; a status
read before the row lock and used after it; transitions that are evaluated only
by the calls that think of it; files that are copied before a commit.

### What makes each part correct

* Edit lock: a lease.  Nobody takes a lock over from another user before it
  expires, whatever happens between the status check and the locking.
* Assignments: the pointer in the request, its `assigned_to` and the history agree;
  a request under way has an officer and an open assignment.
* Status columns: they only disagree in ways the code handles.
* Worker: meets neither an open assignment nor a locked request.
* Workflow: no interleaving of calls leaves a request in a status that its papers
  say it should have left.
* Clarifications and quotations: no call undoes another that it did not see; the two
  sides take turns and answer what they have seen.
* Files: what a row registers is on the share, and nothing else's file is touched.
* Events: a client with nothing left to do shows what the database holds, and gets there.
* Notifications: whoever something waits for has been told.
* Organization and master data: names stay distinct, pairs belong together, records come
  under active owners, an editor's save is what the role has afterwards.
* Screens: the parts of a view agree and become current; a command acts on what was
  shown; what was entered in a form is not lost by anything but its own save.

## 2. The modules

| Module | Contents |
|---|---|
| `MaterialRequestRow` | One row: each operator maps the row to what the `UPDATE` of a service leaves; guards are predicates. No state. |
| `EditLease` | Abstract specification of the edit lock: a lease per request. |
| `RequestDesk` | The table with everyone who writes it. `presence`, `row`: the table. `assignment`: the history. `view`: the edit views, with what they loaded. `clock`: `CURRENT_TIMESTAMP`. Instantiates `EditLease`. |
| `Procurement` | Extends `RequestDesk` with `clarification`, `quotation` and `call` (service calls that have read and not yet committed). Replaces the purchasing steps of the desk, which leave open what the workflow service reads, by the operations that read it. |
| `AutoAssignment` | The worker's processes: claim with SKIP LOCKED, listing and counting officers on another connection, commit, failing cycles, sleep. |
| `StoredFiles` | The files of one request and their rows: name choice and copy, compensation, quarantine, commit, unlink, crash, folder removal, rename of the project. |
| `RowLocks` | The row locks of each quotation transaction in the order of its statements, PostgreSQL's lock conflicts, waiting, and the abort of one of a circle. |
| `RealtimeDelivery` | One client: socket, listener thread, queue, Tk thread, the view on the screen, the bell. |
| `Notifications` | `core.notifications` with the recipients of every notify method, and the panels that list and mark them. |
| `CardList`, `RequestList`, `Dashboard` | The cards that both views keep and synchronise (no state), and the views with their loads, filters and counts. |
| `RequestDetails` | An open details view with header, banner, attachment panel and quotation tab, its timer and its modal dialogs, over a row that others change. |
| `ClarificationView` | The windows in which a clarification is answered, over the five operations with their read before the lock. |
| `RolePermissions` | The editor of a role's permissions and the transaction that replaces the rows, statement by statement. |
| `Accounts`, `AccountForm` | The account operations as a check and a write; and the forms that call them, with failing queries. |
| `MasterData`, `MasterScreen` | The three services as one design told apart by owners; and one screen with the three objects that remember a selection. |
| `MCRequestDesk`, `MCProcurement` | The checked instances of the desk and of purchasing. |
| `MCAutoAssignment` | The worker alone and next to managers. |
| `MCServices`, `MCLists`, `MCViews`, `MCAdministration` | The checked instances of the other modules, side by side (section 3). `MCServices` extends `RowLocks`, `MCViews` `RequestDetails`, `MCAdministration` `MasterData`; they instantiate the others. |
| `MCProgress` | Their instances for liveness, with the fairness of each. |
| `Procurement_proofs` | Theorems about the desk, its edit views and purchasing. |
| `AutoAssignment_proofs`, `StoredFiles_proofs` | Theorems about the module of that name. |
| `Transactions_proofs` | `RowLocks` and, instantiated as `News`, `Notifications`. |
| `MasterData_proofs` | `MasterData` and, as `Screen`, `MasterScreen`. |
| `Organization_proofs` | `Accounts` and, as `R` and `F`, `RolePermissions` and `AccountForm`. |
| `Views_proofs` | `RequestDetails` and, as `Chat`, `ClarificationView`. |
| `Lists_proofs` | `RealtimeDelivery` and, as `List` and `Board`, `RequestList` and `Dashboard`. |

`Procurement` composes with `RequestDesk` (EXTENDS, and a refinement).  The modules of
screens have their own small environment, which lets others do what the services allow;
the services themselves are in the modules named above.  `CardList` is shared by the
list and the dashboard.  No module declares a RECURSIVE operator, so each can be proved
about.

State and code: `row[m].status`, `workflow_status`, `assigned_to`,
`current_assignment_id`, `locked_by`, `lock_expires_at` and `created_at` are the
columns of that name; NULL is `Null` (0 for `lock_expires_at`).  `assignment[a].state`
is "active" while `ended_at` is NULL.  `view[s].step` says how far
`try_open_for_edit` and its successors came, `view[s].seen` is the
`self.request["assigned_to"]` that `save_changes` sends back.  `quotation[q].files`
counts rows of `supplier_quotation_files`.  There is one action per service function
or view transaction; `PROJECT.json` (`map`) gives the lines of each.

### Modelling decisions

* One transaction is one step wherever it decides and writes under
  `SELECT ... FOR UPDATE` of the request row.  What is read before that lock, or
  without one, is a step of its own: the edit view in `RequestDesk`, the `Begin...`
  actions in `Procurement`.  A call that fails rolls back: `Fail`, or no step.
* The details view decides on the request it loaded; `OpenDetails` is that load,
  and `AskLockStatus` may come any time later.
* Expiry compares the server's timestamp with `datetime.now()` of the client:
  `Drift[u]` is the difference, bounded by `MaxDrift`.  A `CURRENT_TIMESTAMP` is the
  start of its transaction; transactions are short against the clock's tick, so a
  step reads one `clock`.
* PostgreSQL rejects the query of `force_unlock_material_request` (FOR UPDATE over
  the nullable side of an outer join).  The schema of `core.users` is not in the
  repository and drivers differ, so `ForceUnlockAccepted` says which answer an
  instance takes; the proofs cover both.
* `workflow_status` is not written by `create_material_request`; the claim of the
  worker shows what its default is.
* `Archive` and friends are guarded by the set `Administrators`; ownership rules
  are guards (`ByAssignee`, `Managers`).  Nothing is assumed about how the sets
  overlap.
* Left out of `RequestDesk` and `Procurement`: text columns, messages, notifications,
  activity rows, events, files on the share.  Operations of the repositories that nothing calls (`accept_assignment`,
  `complete_assignment`, `clear_assignment_context`, ...) have no action.

Decisions and assumptions of the other modules:

* `AutoAssignment`: ids are numbers in the order the queries sort by.  A held row is
  one that another transaction has locked; SKIP LOCKED passes over it.
* `StoredFiles`: choosing a free name and copying to it are two steps.  Where two
  uploads of one name overlap, one copy may replace the other (a hazard of
  `storage_service.py:113`); part `overlaps` therefore takes names that do not clash and
  `alike` calls that do not overlap.  Quarantined files of a client that died stay there;
  `ContentKept` counts them as kept.
* `RowLocks`: PostgreSQL's documented conflicts are assumed; any waiter whose lock is
  compatible may be granted next; locks on users and other tables are left out.
* `RealtimeDelivery`: a cut connection still delivers what had reached the machine.  The
  Tk thread takes one item of its queue in a step: its loop goes on until the queue is
  empty, but the listener puts the items in one by one, so timers may run between any two.
  `HeartbeatRace` and `EarlyCommits` switch on two windows of time in which an event is
  lost without a reconnection; `QuietMeansFresh` excludes them, `BellCatchesUp` does not.
* `Notifications`: `created_at` is the start of the transaction.  Clarifications are
  taken to go with their request, by a foreign key that the repository does not
  contain.
* `RequestList`, `Dashboard`: a search is run on every key; pasting with the mouse does
  not trigger one.  Priorities and due dates are what the order depends on.  Overdue
  marks may be a day old after midnight.
* `RequestDetails`: attachments are the set of their uploaders, one quotation is not yet
  recorded; force-unlock and the editing of a quotation are left out.  Timers run under
  native dialogs; the expiry of a lock sends no event.
* `ClarificationView`: one entry of the conversation per operation.
  `AnswersWhatWasSeen` and `TurnsAreTaken` are checked for one window per side and a
  fixed officer.  Message boxes are left out.
* `RolePermissions`, `Accounts`, `MasterData`: `Overlap` says whether transactions may
  overlap.  Where a property fails with it, its instance has it FALSE, and the overlap
  is told under "What does not hold".  No unique index on `core.users` is assumed; the partial
  unique indexes of the master tables are in the migrations and are modelled.
* Employee numbers and codes stand for their numeric value: the code takes the greatest
  value, not the greatest text, and padding never cuts a number off.  What a column's
  width does to a longer one is left out.
* `AccountForm`: a call of the service is one step (`Accounts` takes it apart); roles,
  departments and titles are constants, for the program never writes them.  Passwords,
  name, email and phone are left out: they are treated as the username is.
* `MasterScreen`: all permissions are granted and the fields of the forms left out.  The
  site and project services save active records only, `update_client` any that exists: an
  edit dialog on the client screen saves a client that was archived meanwhile.  A reload after a save runs inside the dialog's save, because `update_idletasks` runs
  `after_idle` callbacks.

## 3. The runs

There are twelve runs.  Three ask about the desk and purchasing, three show a statement of
the program that the code does not keep, and six cover the parts around the desk.

### Material Requests and purchasing

| Run | Instance | Checks |
|---|---|---|
| `desk` | 1 request, 2 clients (officer, deputy), a manager with every administrative right, worker, officer's clock 1 ahead, lock of 2 ticks, 3 ticks, 3 assignments; 409,864 states | `TypeOK`, `AssignmentContextSound`, `StatusColumnsAgree`, `WorkHasAnAssignment`, `WorkHasAnOfficer`, `WorkerMeetsNoLock`, `LeaseImplemented` |
| `desk_leases` | no administrators, officer's clock 1 ahead, lock of 3 ticks in 4; 386,876 states | `LeaseHeld`: an unexpired lock stays with the view that took it; `AssigneeKept`: a save in time leaves `assigned_to` as it is |
| `procurement` | 1 request, 1 clarification, 2 quotations of up to 1 file, 3 calls under way (2 of one officer, 1 of the engineer); 716,709 states | `ProcTypeOK`, `DeskImplemented`, `OverdueOnlyByShelving` |

### Around the desk

A run of this group holds several instances side by side.  The instances share no state
and ask different questions, each at the bounds that its question needs.  The initial
state chooses one of them (`part`), only that one moves, and what the others work on
stays `Off` (in `MCProgress`: at an initial state).  So the states of a run are the sum
of those of its instances, not the product, and a property `part = "x" => X!P` says `P` of
every behaviour of instance `X`.  A property of a run joins what its parts say of one
subject; the modules have each statement under a name of its own, with its comment.

`workers`: the unattended worker in two processes, 2 officers.

| Part | Instance | Checks |
|---|---|---|
| `alone` | 3 requests, held rows, 1 failure, no managers; 25,536 states | `ClaimStands`, `WorkSpreadEvenly` |
| `managed` | 2 requests, managers, held rows, accounts that come and go, 1 failure; 223,056 states | `ClaimStands` (and `WorkSpreadEvenly`, which says nothing there that the bounds do not) |

`services`: what the services do next to the desk.

| Part | Instance | Checks |
|---|---|---|
| `advice` | 1 worker, 3 requests that fall due one after the other, 1 failure; 8,646 states | `RecommendationStands` |
| `deaths` | 3 overlapping calls on files, failures, crashes, 1 rename of the project; 98,489 states | `RowsHaveTheirFiles`: contents are kept |
| `overlaps` | 4 overlapping calls with files of different names, failures; 673,829 states | `RowsHaveTheirFiles`: paths lead to files |
| `alike` | 3 calls one after the other, all with files of one name, 2 copies each, failures; 48,238 states | the same |
| `unsure` | the same with commits whose answer is lost; 142,645 states | `OnlyKnownLeftovers` |
| `locks` | 3 clients, 4 calls of any kind on 1 request and 2 quotations; 312,663 states | `KnownCircles` |
| `told` | 2 managers, 2 officers, 1 engineer, 1 request, 2 overlapping calls, 5 in all, 1 account disabled or enabled, deletion; 556,005 states | `EveryoneIsTold` |
| `panels` | 2 windows of one officer, a panel of 2 rows, 4 calls, 3 clicks; 358,352 states | `NoticesLead` |

`lists`: events from the database to the screen, and the two views made of cards.

| Part | Instance | Checks |
|---|---|---|
| `wire` | 2 requests, 2 commits of others, 2 breaks of the connection; 412,049 states | `ListsAreCurrent` |
| `cards` | 3 requests, 2 changes, 1 failing read, 1 input; 381,469 states | `CardsAreRendered` |
| `reads` | 2 requests, 3 changes, also between the two reads of a refresh, 2 inputs; 1,230,313 states | `ListsAreCurrent` |
| `board` | 2 requests, each perspective, midnight, 2 changes; 717,178 states | `CardsAreRendered`, `ListsAreCurrent` |
| `failing` | one perspective, 1 failing read, 1 click on Refresh; 671,918 states | `CardsAreRendered` |

`views`: the views that are open while others commit.

| Part | Instance | Checks |
|---|---|---|
| `details` | an administrator, 2 quotations, 2 changes of others, 2 acts, 1 reconnection; 1,036,509 states | `PartsAgree`, `QuietMeansCurrent`, `ActsOnWhatWasSeen` |
| `torn` | the same with 1 failing query instead of the reconnection; 985,443 states | the same |
| `turns` | 1 window on each side of a clarification, 6 messages, 1 reconnection; 6,054 states | `ConversationSound`: answers what was seen |
| `again` | the same, 5 messages, 2 queries that fail before or after the commit; 118,256 states | `ConversationSound`: takes turns |
| `hands` | 2 officers, 3 windows, 1 reassignment, 1 failing query; 836,810 states | `ConversationSound`: authors are responsible, quiet windows are current |

`administration`: the organization, the master data, and their screens.

| Part | Instance | Checks |
|---|---|---|
| `rights` | 2 editors, 3 roles, 2 permissions, 3 saves, never two of one role at once; 35,872 states | `OrganizationSound`: what was saved is what the role has and the log tells |
| `single` | 3 accounts, 2 departments, 2 titles, 2 clients, 3 calls one after the other; 437,652 states | `OrganizationSound`: accounts are distinct, titles in their department |
| `overlapping` | the same, 2 overlapping calls; 142,668 states | `OrganizationSound`: the legacy role agrees |
| `faults` | 2 windows, 3 accounts of which one is old, 4 titles, 2 fields touched, 2 commits, any query may fail; 459,778 states | `OrganizationSound`: titles in their department; `SavesWhatWasSeen` |
| `sound` | the same without failures; 130,724 states | `ScreensAgree`: the status button |
| `stale` | 2 clients, 2 projects, 1 site, 3 calls one after the other from stale lists and dialogs; 49,936 states | `StaleListsDoNoHarm`: records come under active owners, archived ones stay as they are |
| `races` | 2 sites, 3 calls, 2 users at once; 39,310 states | `RecordsDistinct` |
| `client screen` | 2 records, 2 names, 2 changes of others, 5 gestures, failing loads; 241,004 states | `ScreensAgree`: buttons follow the row; `SelectionKept` |
| `site screen` | the same on the site screen, no failure; 323,448 states | `ScreensAgree`: the target is shown; `SelectionKept` |

The last four also check the type invariants of their modules (`TypesOK`; `TypeOK` in `lists`).

`progress`: what must happen in the end (`FairSpec` of `MCProgress`).

| Part | Instance | Checks |
|---|---|---|
| `work` | 2 workers, 2 requests, 2 officers, held rows, accounts that come and go, 1 failure; 33,408 states | `DueRequestsAreAssigned` |
| `locks` | 2 clients, 3 calls; 19,427 states | `EveryCallEnds` |
| `wire` | 1 commit, 1 break, 1 failing reconnection or refresh; 25,440 states | `EventsArrive`: the view catches up |
| `lossy` | the same with events swallowed by the heartbeat or sent before LISTEN; 29,576 states | `EventsArrive`: the bell catches up, a closed window ends |
| `details` | a Purchasing Officer, 1 quotation, 2 changes of others, 1 act, 1 reconnection; 61,805 states | `ScreensSettle` |
| `windows` | 1 window on each side, 4 messages; 3,375 states | `ScreensSettle` |
| `screen` | 1 change, 2 gestures; 9,080 states | `ScreensSettle`: the search is answered |

### Runs that end in a violation

Each checks one statement of the repository against what the code does; `PROJECT.json`
(`findings`) quotes the line.

| Run | Violates | What happens |
|---|---|---|
| `find_save_lock` | `NoSaveUnderForeignLock` | a view whose lock expired saves under another user's lock |
| `find_completed` | `CompletedOnlyArchives` | a reassignment takes a Completed request back |
| `find_resolved` | `ResolvedReadOnly` | a follow-up that read the status before a resolution reopens the clarification |

### What does not hold

The other models contain steps by which the following fail.  No run checks them; the
instances above are what they are (calls one after the other, one window a side, no
failure) because of them, and the code is quoted where it says otherwise.

* Two workers count at once, and one assigns to an officer who is no longer the least
  loaded one (`auto_assignment_service.py:245`; the docstring of the module: "assigns the
  least-loaded active Purchasing Officer").  `WorkSpreadEvenly` bounds the harm.
* A quotation that is restored between the check and the DELETE is deleted while active
  (`supplier_quotation_service.py:426`).
* When the unlink after a commit fails, the file is put back without its row
  (`supplier_quotation_process.py:506`).
* After a rename of the project the rows of attachments lead to another folder
  (`material_request_attachment_process.py:478`).
* A notification that arrives during the heartbeat's query is not handed on before the
  next one (`realtime_listener.py:166`): `QuietMeansFresh` with `HeartbeatRace`.
* The notice of a clarification survives its request
  (`material_request_repository.py:157`): `DeletedIsForgotten` is about notices of
  requests.
* Two overlapping saves of one role leave the union (`permission_repository.py:599`):
  `RoleHasWhatWasSaved` with `Overlap`.
* Two overlapping creations of accounts get one employee number, or one user name, unless
  the database refuses it (`organization_service.py:1505`): `AccountsDistinct` with
  `Overlap`.
* Two overlapping updates of an account leave a job title of another department
  (`organization_service.py:356`): `TitleInDepartment` with `Overlap`.
* A project is restored under a client archived meanwhile (`project_service.py:410`):
  `PlacedUnderActive` with `Overlap`.
* An archived client is edited from a stale list (`client_service.py:202`); the services
  of projects and sites refuse that (`ArchivedStaysAsItIs`).
* A site moves to another project while requests name it with the old one
  (`site_service.py:234`).
* The panel of a request archived meanwhile still takes attachments
  (`attachments_tab.py:54`), and a dialog left open still adds a quotation to it
  (`material_request_details_view.py:715`).
* A view that is rebuilt under a file dialog reports a committed upload as failed
  (`attachment_panel.py:531`); so does a clarification window when only its reload failed
  (`clarification_details_view.py:900`), with the old text still in the form.
* Two reassignments let one response be forwarded twice
  (`clarification_service.py:456`): `TurnsAreTaken` with `MaxReassigns` = 2.
* After a site is created the highlighted row is not the one that the buttons act on
  (`site_management_view.py:722`): `ButtonsFollowTheRow` on the site screen.  With loads
  that fail, `TargetIsShown` does not hold there either (line 406).

### Bounds

* Edit lock.  `MaxTime` is one more than `LockTimeout`, so that a lock is taken, expires
  and is taken again by another client.  Three assignments allow the worker's or a manager's first one and two
  reassignments, there and back.  One request is enough for TLC: operations on different
  requests touch disjoint rows, and the theorems cover any number of them.
* Purchasing.  Two quotations are the least for which "every active quotation has files"
  differs from "some".  Two calls of one officer and one of the engineer let every pair
  of calls on one clarification or quotation overlap.  `MaxFiles` = 1 makes the last file
  go and come back.
* Worker.  Three requests for two officers are the least that cannot be shared evenly;
  two workers the least that count at once.
* Files.  A delete, an upload and a third call that meets both; four calls where nothing
  else is enabled.  Two copies per upload make one succeed and the next fail.
* Row locks.  Three clients allow circles of three and a waiter behind a circle; two
  quotations, circles between rows.
* Events.  Two requests: one on the screen, one not.  A second break can hit the
  reconnection of the first.
* Notices.  Five calls reach creation, assignment, a clarification, its answer, and a
  reassignment in between; two managers, of whom one acts and one is told.  A panel of
  two rows is exceeded by the third notice.
* Accounts.  Two departments with a title each are the least that can be mixed up; three
  calls: create, change, change back.
* Master data.  Three calls: archive an owner, change below it, restore.  Two names make
  a clash and a way around it.
* Screens.  Two changes of others differ in order and in what they undo; one failing
  query may be any of the queries of a refresh, and no code counts failures.  Two records
  are the least for a selection to be on the wrong one.  One object of each kind is where
  the code keeps one.
* `progress`.  Liveness is about what keeps happening after the last commit, break or
  failure, so one of each is enough to bring a part into any state from which it must
  recover.

Symmetry is declared where ids or users are interchangeable in the model and in the
properties (assignment and quotation ids, calls of one user, workers, windows of one
user, accounts, requests of a screen), and never in the fair run.

Deadlock checking is off: every instance stops when its ids, calls or changes are used up.

### Fairness

Only `progress` uses it, for each part what its code schedules by itself; nothing is
assumed about what a user does, but for closing a box.

* Worker: weak fairness of each worker's step and of the clock: `main` of
  `auto_assignment_worker.py` runs cycles in a loop with a sleep, and a failing cycle
  does not end it.  Failures are bounded.
* Row locks: weak fairness of each client's next statement (or its commit or failure)
  and of PostgreSQL's deadlock detector.
* Events: weak fairness of the listener thread's connecting, waiting, polling and ending,
  of the Tk callback that empties the queue, of the scheduled refresh, and of the bell's
  timer, which reschedules itself.  Commits, breaks and failures are bounded: with
  connections that fail for ever nothing catches up.
* Views: weak fairness of the delivery of events and of the timers and reads that follow;
  in a clarification window also that a query that was begun ends.  No message need ever
  be sent.
* Screens: weak fairness of the search timer and of closing dialogs: a modal dialog is
  assumed to be closed in the end.

### What they show beyond the obvious

* `LeaseImplemented` is a refinement.  The mapped holder is `locked_by` while the
  lock is unexpired for the client whose clock is furthest ahead.  It fails if
  `lock_material_request` trusted the status read before.
* `WorkHasAnOfficer` and `WorkerMeetsNoLock` are why the worker needs no look at the
  edit lock, and why the save of a stale `assigned_to` never blanks it: an edit view
  is only ever opened on a request that was seen assigned, and what was assigned
  stays so.  Both fail if the Edit button were offered to anybody else.
* `AssigneeKept` needs its conditions: with an administrator, a manager who edits,
  or a view that outlives its lock, a save puts the former officer back.
* `OverdueOnlyByShelving` says that the evaluations placed in the calls suffice, and
  names the calls that have none.
* `WorkSpreadEvenly` bounds the harm of counts that overlap: the officers' work differs
  by no more than the number of workers.
* `KnownCircles` names the two pairs of transactions that can wait for each other, and
  that there is no longer circle; `EveryCallEnds` that the abort of one frees the rest.
* `RowsHaveTheirFiles` holds through every failure because files are renamed, not
  removed, until the commit; `OnlyKnownLeftovers` lists the paths that leave files
  behind.
* `CardsAreRendered` compares cards that are moved, changed, added and removed one by one
  with a list built anew.
* `ListsAreCurrent`, `QuietMeansCurrent`, and `QuietMeansAnswered` in `ScreensAgree`: a view
  with no event and no timer left is current.  They fail if the reload were not scheduled
  again for an event that arrives during one.

Each property of a passing run has a mutant, and where it joins several modules mostly one
of each: the operator or action named in `mutants` replaced by the plausible bug defined
before it in the module.

## 4. The theorems

All proofs are checked by TLAPS from the named assumptions on the constants alone:
`NullIsNoId`, `LockTimeoutIsPositive`, `UsersAssumption`, `SwitchesAssumption`,
`TimeAssumption` (desk), `CallsAssumption` (purchasing), `WorkAssumption`,
`LocksAssumption`, `MasterDataAssumption` and `DetailsAssumption`; the theorems about the
other modules name the assumption of their module as a hypothesis, and the MC modules
`ASSUME` it of every instance.  So they hold for any users, requests, clients, windows,
ids, clocks, roles, rights, records, names, files and calls, any number of failures, of
breaks of the connection and of commits of others, both answers to force-unlock, with and
without the worker.  Where a theorem needs more, the table says so.

| Theorem | Statement |
|---|---|
| `TypeCorrect` | `Spec => []TypeOK` |
| `AssignmentContext`, `StatusColumns`, `WorkAssigned` | `Spec => []AssignmentContextSound`, `[]StatusColumnsAgree`, `[]WorkHasAnAssignment` |
| `LeaseRefinement` | `Spec => LeaseImplemented` |
| `OfficerKept`, `WorkerUnlocked` | `Spec => []WorkHasAnOfficer`, `[]WorkerMeetsNoLock` |
| `LeasesHold` | `Spec => []LeaseHeld`, without administrators and with one view per user |
| `AssigneeKeptInTime` | `Spec => AssigneeKept`, also without managers who edit |
| `ProcTypeCorrect` | `ProcSpec => []ProcTypeOK` |
| `ProcImplementsDesk` | `ProcSpec => DeskImplemented` |
| `WorkflowKeepsUp` | `ProcSpec => OverdueOnlyByShelving` |
| `WorkTypeCorrect`, `ClaimsStand` | `AutoAssignment`: `Spec => []TypeOK`, `[]ClaimStands` |
| `WorkIsEven` | `Spec => []WorkSpreadEvenly`, with no manual work and no change of accounts |
| `FilesTypeCorrect`, `RegisteredContentIsKept` | `StoredFiles`: `Spec => []TypeOK`, `[]ContentKept`, for calls that are `Apart` and no lost answer of a commit |
| `RegisteredFilesAreFound` | `Spec => []RowsHaveTheirFiles`, also without crashes and renames of the project |
| `NothingElseRemains` | `Spec => []OnlyKnownLeftovers`, for calls one after the other that do not die, with lost answers and any names, and no rename |
| `LocksTypeCorrect`, `OnlyKnownCircles` | `RowLocks`: `Spec => []TypeOK`, `[]KnownCircles` |
| `TheWaitedForAreTold`, `ActiveManagersAreTold`, `FirstAssignmentIsToldOnce`, `DeletedRequestsAreForgotten` | `Notifications`: `Spec => []WaitedForIsTold`, `[]ManagersAreTold`, `[]FirstAssignmentToldOnce`, `[]DeletedIsForgotten` |
| `ReadOnce` | `Spec => [][FirstReadKept]_vars` |
| `AccountsTyped`, `LegacyFollows` | `Accounts`: `Spec => []TypeOK`, `[]LegacyRoleAgrees` |
| `AccountsSound` | `Spec => [](AccountsDistinct /\ TitleInDepartment)`, without overlapping calls |
| `AdministratorsKeepAll` | `RolePermissions`: `Spec => [](TypeOK /\ AdministratorKeepsAll)` |
| `SavesReplace` | `Spec => [](RoleHasWhatWasSaved /\ LogTellsTheTruth)`, without overlapping saves of one role |
| `FormsKeepThePair` | `AccountForm`: `Spec => [](TypeOK /\ PairKept)` |
| `ButtonsFollow` | `Spec => []ButtonFollowsSeen`, without failing queries |
| `EntriesStay`, `SavesAreSeen`, `DirectionConfirmed` | `Spec => [][EntriesKept]_vars`, `[][SavesWhatWasSeen]_vars`, `[][ConfirmedDirection]_vars` |
| `MasterTypeCorrect`, `RecordsStayDistinct` | `MasterData`: `Spec => []TypeOK`, `[]RecordsDistinct` |
| `StaleListsDoNoHarmAlone` | `Spec => [][PlacedUnderActive /\ ArchivedStaysAsItIs]_vars`, without overlapping transactions |
| `DetailsTypeCorrect`, `PartsAlwaysAgree`, `QuietViewsAreCurrent` | `RequestDetails`: `Spec => []TypeOK`, `[]PartsAgree`, `[]QuietMeansCurrent` |
| `AnswersAreAboutWhatWasSeen` | `Spec => ActsOnWhatWasSeen` |
| `ScreensTyped`, `ScreensAnswer` | `MasterScreen`: `Spec => []TypeOK`, `[]QuietMeansAnswered` |
| `ScreensAgreeWithRows` | `Spec => []ButtonsFollowTheRow` on the client screen; `[]TargetIsShown` there, and on every screen without failing loads |
| `SelectionsAreKept` | `Spec => [][SelectionKept]_vars` |
| `ConversationTyped`, `AuthorsSound`, `WindowsKeepUp` | `ClarificationView`: `Spec => []TypeOK`, `[]AuthorsAreResponsible`, `[]QuietMeansCurrent` |
| `TurnsSound` | `Spec => []TurnsAreTaken`, with one window on each side and at most one reassignment |
| `AnswersSound` | `Spec => []AnswersWhatWasSeen`, with one window on each side, no reassignment and no failing query |
| `WireTypeCorrect` | `RealtimeDelivery`: `Spec => []TypeOK` |
| `QuietClientsAreFresh` | `Spec => []QuietMeansFresh`, without `HeartbeatRace` and `EarlyCommits` |
| `ListsComeToRest`, `BoardsComeToRest` | `RequestList`, `Dashboard`: `Spec => [](failures = 0 => QuietMeansCurrent)` |
| `LabelsSayTheData` | `Dashboard`: labels and banner say what the data says, the half of `BoardShowsData` without the cards |

### The hypotheses

Each is needed: a behaviour of the program breaks the statement without it.

* `LeasesHold`: an administrator may force or archive a lock away, and two views of one
  user share a lock, which the first to close releases.  `AssigneeKeptInTime`: a manager
  may open an edit view and then reassign, and the view's save puts the former officer
  back.  `AssigneeKept` itself is conditional on no view overstaying its lock.
* `WorkIsEven`: an officer whose account is enabled starts at no work, and a manager
  assigns as he likes.
* Files: `Apart` says that calls have no names in common (then they may overlap, die and
  see the project renamed) or come one after the other (then all may use one name).  With
  common names and overlap the second copy replaces the first (`storage_service.py:113`).
  A commit that succeeds and still raises (`LostAnswers`) makes the compensation remove
  what the row registers; part `unsure` says what is left behind then.
  After a crash a file may be found under its quarantined name only, and after a rename of
  the project its row leads to another folder; both are section 3's "What does not hold"
  or the difference between `ContentKept` and `RowsHaveTheirFiles`.
* `NothingElseRemains`: two calls that overlap on one name, and a client that dies, leave
  copies that nobody looks for.
* `StaleListsDoNoHarmAlone`: `_require_active_client` reads the owner without a lock.
* `AccountsSound`, `SavesReplace`: the services check on what they read without a lock, and
  a DELETE does not see rows inserted since it began (section 3).
* `ButtonsFollow`: a reload that fails after the commit leaves the old button.
  `ScreensAgreeWithRows`: the site screen highlights another row after a creation.
* `TurnsSound`, `AnswersSound`: a second window of one side answers what the first has
  answered; an officer who gets the request back has an old form; a query that fails after
  the commit leaves the text in the box, to be sent again.
* `QuietClientsAreFresh`: the two windows of time in which an event is lost while the
  connection stands.
* `ListsComeToRest`, `BoardsComeToRest`: a synchronisation whose read failed keeps what is
  shown until the next event.

### The arguments

Every invariant below was checked by TLC on small instances before it was proved.

* The desk (`Procurement_proofs`): `IInv` is the conjunction of the four invariants.  None
  of the last three is inductive alone: archiving is only safe because the columns
  agree, and starting work on a row whose pointer says that nothing is open would
  break the third.  Steps are sorted by what they do to a row: `SameWork` rows keep
  pointer and status, workflow rows move within the purchasing states, assignments
  move to Assigned with a new pointer.
* The lease: time only lapses leases, unlocking and archiving lapse them, and a
  lock is granted only if no client can still see another user's lock unexpired.
  `MaxDrift` enters there.
* The edit views (there too): `OfficerInv` adds that every view beyond "closed" is on a
  request that has left Submitted (or is gone), and that what it loaded as
  `assigned_to` is not NULL.  With that, a save writes a name, and every lock was taken
  on a request that had an officer.  `LeaseHeld` is inductive on top of it, because
  whoever may take or drop a lock must see it expired, belong to its user or be an
  administrator.  `AssigneeKept` needs `InTimeInv`: what an open view will write back is
  what the row still says (`SeenStands`), since under its lock managers are refused and
  the worker finds an officer.
* Purchasing: a simulation under the identity mapping.  The values the
  workflow service reads are witnesses for the existential quantifiers of the
  desk.  It needs `ProcTypeOK`, which says that a call under way is on a row that
  was created.  `WorkflowKeepsUp` goes by cases on the step.  Either the status of the
  request and the papers it depends on stay (or move away from the condition), or the
  step ends in the evaluation of the condition it could make true.
* `AutoAssignment_proofs`: `WorkInv` ties each process to the row it holds.  For
  `WorkIsEven`, `CountsAreOld` says that what a process counted is no more than what
  there is now, and `OnePerProcess` generalises the bound to every level t: the
  assignments that took an officer above t while another had no more were made by
  different processes, none of which still believes that the first has at most t.  That
  is inductive, and the bound is its instance at the least workload.
* `StoredFiles_proofs`: `FilesInv` follows each content.  Rows come from committed uploads
  (`RowsRegistered`), every file is, or was hidden, where its upload copied it
  (`FilesAtHome`); what an upload copied stays until its commit or compensation
  (`UploadsUndisturbed`); what a deletion hid has a free place to return to, and no two
  deletions hide files of one place (`DeletionsSound`); so every row's file is at home or
  hidden (`RowsFound`).  The last one is the theorem; without each of the others a step
  breaks it.  With nobody dying, only a deletion under way hides anything.
  `NothingElseRemains` has its own `LeftInv`, because lost answers break `FilesInv`: every
  file is registered, a known leftover, a copy of the upload under way, or in the folder
  that a deletion is about to remove (`FilesAccounted`); and what a call has hidden would
  be one of these where it came from (`HiddenAccounted`).
* `RowLocks` (`Transactions_proofs`): what a transaction holds when it waits are the locks
  of the statements before (`HoldsItsStatements`), and they are compatible with everybody
  else's.  A circle is a set in which everybody waits for a member; following the waiting
  for a few steps leads to the request's row, and leaves only the two listed pairs.
* `MasterData_proofs`: `MasterInv` adds to the types that a picked record and owner exist,
  that a code under way is still the next one, and that no two callers hold the advisory
  lock of one table (`CallsSound`); `GapFree` makes the codes sequential.  For
  `StaleListsDoNoHarmAlone`, what a call has checked still holds while it is the only
  one in a transaction.
* `RequestDetails` (`Views_proofs`): `DetailsInv` adds to the two invariants what a refresh
  under way has read (`KeepsUp`: with no event and no timer left it read the row as it
  is), and whose files the open file dialog is about (`UploadSound`).  Reconnections and
  failing queries set a timer or are remembered as `torn`.  The action properties follow
  step by step from it.
* `Notifications` (`Transactions_proofs`): `NewsInv` follows one request at a time
  (`RequestTold`): who waits for something finds a notice after the last step, none of
  them gone; only an assigned request has questions, and one assigned for the first time
  has no notice of it yet.  `ManagersListed` says that a transaction which began later
  than a manager's activation has listed him.
* `Accounts`: `AccountsInv` ties the legacy text to the role within each call, and each
  call to the columns it will write; one after the other, the row that a call will write
  fits the others (`RowFits`).  Employee numbers are the highest plus one, which exists
  because they are bounded (`NumbersBounded`).
* `RolePermissions`: no transaction is about the administrators' role; a transaction that
  is its role's only one knows the rows it replaces (`Knows`): what it read when it
  checked is what it deletes.
* `AccountForm`: `FormInv` says of each form that its fields were read or typed, but for a
  title that is no longer on offer (`Sound`); `EntriesKept` and `SavesWhatWasSeen` follow
  step by step.
* `MasterScreen` (`MasterData_proofs`): a dialog about a record has one (`HasTarget`);
  highlight, selection and buttons move together on the client screen, and on the others
  as long as a load does not fail between them.
* `ClarificationView` (`Views_proofs`): `WindowsUpToDate` is about events as `KeepsUp` is.
  `TurnsInv` adds that a call which will be accepted still finds the status it checked
  (`CallsAreDue`): until the request changes hands only its officer has the officer's
  forms (`FirstOfficer`), and the status is what the last entry left.  `AnswersInv` says of
  each window that what it may still send fits the form that the database calls for and
  was written after the last message (`InStep`).
* `RealtimeDelivery` (`Lists_proofs`): `WireInv`.  What is stale on the screen has been
  announced to the client (`Announced`), or a reload is due, or the connection is not
  open, or a reconnection is queued that asks for a full reload (`Reconciles`); a listener
  that is not connected has said so (`KnownDown`).  The last is why the reload after a
  reconnection makes up for every event lost meanwhile.
* `RequestList`, `Dashboard`: with no event and no timer a refresh under way has read the
  records as they are, so the second read completes it (`ListUpToDate`, `BoardUpToDate`).
  Rows that stay keep what a query returns, whatever the sort makes of them; the labels do
  not depend on what is overdue (`SameNumbers`), which is all that midnight changes.

Proof attempts corrected what they are about, and only there did the model change:

* `MasterData` started from any rows; the codes have no gap only if they had none
  (`Numbered`: each was the highest plus one).
* `StoredFiles` must be told that an empty path is no file's content (`FilesAssumption`).
* `SavesWhatWasSeen` allowed another title only if none that the form had read was on offer.
  With more entries than the bounds allow, one that was chosen earlier may be on offer
  while the account's own is not; now one that is missing is enough.
* `FormAssumption` spoke of the accounts for each window together, so it said nothing of
  them where there are no windows.
* `None` must differ from everything it stands beside, which the instances satisfy and the
  assumptions of the modules of screens did not say; the managers of `Notifications` are
  finite, or nobody could tell them all.
* The Tk thread of `RealtimeDelivery` emptied its queue in one step.  It takes item by
  item: the listener may put one in after the loop has found the queue empty.

### What is only model-checked

* Liveness (`progress`): fairness and ENABLED are out of the prover's reach.
* `CardsAreRendered`, and in it `CountsAreOfAll`: the cards are synchronised, and the
  requests counted, by folds and filters over sequences; what those return for every input
  needs induction over data.  `LabelsSayTheData` is the part about labels.
* `NoticesLead`: the panel lists notices by a sort, which is there by a choice among
  bijections; that one exists is again an induction.  `ReadOnce` is the part about reading.
* `RecommendationStands`: the advice is computed by folds over the officers.
* `RowsHaveTheirFiles` and `OnlyKnownLeftovers` beyond the hypotheses of their theorems:
  calls that overlap with an answer lost, deaths with renames.
* The joined properties of the `MC` modules (`EveryoneIsTold`, `ListsAreCurrent`,
  `ConversationSound`, `OrganizationSound`, `ScreensAgree`, the type invariants) are
  conjunctions over instances.  Their conjuncts are the properties that the theorems state
  for every value of the constants; only those named above have none.
* The violations, which are counterexamples.

## 5. Not modelled

* Numbering: `INSERT ... ON CONFLICT DO UPDATE ... RETURNING` is one atomic statement;
  identities are sets.
* Database access: commit or roll back around a function is why a step is a transaction.
* Activity log: one INSERT with the operation it reports, read by nobody who decides
  anything; the one entry whose text is computed from what changed is in
  `RolePermissions`.
* Workflow registry and document lifecycle: tables and validators that no service calls.
  The models take their status values; `find_completed` contrasts one rule with the code.
* Permission catalogue and the fallback from roles to permissions: lookups in constants.
  The guards of the modelled operations are what they decide.
* The edit view's fields: its transactions and what it sends back as `assigned_to` are
  modelled; the other columns are written by nobody else while it is open, but for a save
  without a lock (`find_save_lock`).
* Panels of more than two notices: the limit of 50 rows is `Limit`, and what is beyond it
  is unreachable from the panel by design.
* Remaining screens (navigation, sidebar, list of users, forms of requests and quotations,
  viewers): they display results of queries and call modelled services.
* SMB login, opening documents, dates and number formats: I/O and wording.
* Migrations, tests, scripts: no behaviour of the running program.

## 6. The plan

Everything planned is modelled, and what the prover can reach of it is proved.  What
would come next:

1. `CardList`: a definition of `Sync` by a recursive function on the position, so that
   `ScreenIsRender` could be stated as an invariant of that function's steps.
2. `StoredFiles`: `OnlyKnownLeftovers` for overlapping calls that are `Apart`.
3. `Notifications`: `ClarificationsAreReached`, once the panel's order is a relation
   between notices instead of a sequence.
