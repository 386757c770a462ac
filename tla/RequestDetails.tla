----------------------------- MODULE RequestDetails -----------------------------
(***************************************************************************)
(* One open details view of a Material Request                             *)
(* (material_request_details_view.py), with its header, collaboration      *)
(* banner, attachments and supplier quotations, over a row that others     *)
(* change meanwhile.                                                       *)
(*                                                                         *)
(* The view shows what it loaded.  Each commit sends an event; 150 ms after*)
(* the last one the view reads everything again, in several queries, and   *)
(* brings its parts up to date; after a reconnection it builds them anew.  *)
(* Dialogs are modal for the user, yet the timer runs while they are open: *)
(* what a dialog was opened for may be gone when it is answered.           *)
(***************************************************************************)
EXTENDS Integers

CONSTANTS
  Me,            \* the signed-in user
  Others,        \* whom else the request can be assigned to
  Requester,     \* who asked for the material
  Rights,        \* what Me's permissions allow
  Officer, Manager, Administrator,  \* BOOLEAN: Me's role
  Quotes,        \* the supplier quotations there can be
  None,
  MaxChanges,    \* bound: commits of others
  MaxActs,       \* bound: dialogs and buttons Me uses
  MaxReconnects, \* bound: reconciliation refreshes
  MaxFails       \* bound: failing queries of the view

AllRights == {"edit", "assign", "reassign", "archive", "restore", "delete",
              "quotations", "upload"}

\* The request in the database, and what the view makes of it.
Statuses == {"Pending", "Completed", "Archived"}
Users == Others \cup {Me, Requester}
Record == [status : Statuses, assignment : Nat, assignee : Users \cup {None}]
Quotations == [Quotes -> [state : {"none", "active", "archived"}, files : Nat]]
Rows == [exists : BOOLEAN, status : Statuses, assignment : Nat,
         assignee : Users \cup {None}, holder : Users \cup {None},
         attachments : SUBSET Users, quotes : Quotations]
Headers == [archived : BOOLEAN, assigned : BOOLEAN, assign : BOOLEAN,
            archive : BOOLEAN, edit : BOOLEAN, delete : BOOLEAN]
Panels == [archived : BOOLEAN, upload : BOOLEAN, list : SUBSET Users]
Tabs == [add : BOOLEAN, can : BOOLEAN, archived : BOOLEAN, quotes : Quotations,
         filter : {"All", "Active"}, selected : Quotes \cup {None}, files : Nat,
         listed : BOOLEAN]
Refreshes == [kind : {"change", "reconcile"}, rec : Record \cup {None},
              own : BOOLEAN]

\* The dialogs, by what they are opened for.
QuoteDialogs == {"view upload", "upload", "archive quotation", "delete file"}
Native == {"archive", "restore", "delete", "attach", "detach"} \cup QuoteDialogs
Dialogs ==
  [kind : QuoteDialogs, for : Quotes, gone : BOOLEAN] \cup
  [kind : (Native \ QuoteDialogs) \cup {"assign", "new quotation"},
   for : Users \cup {None}, gone : BOOLEAN]

ASSUME DetailsAssumption ==
  /\ Rights \subseteq AllRights
  /\ {Officer, Manager, Administrator} \subseteq BOOLEAN
  /\ {MaxChanges, MaxActs, MaxReconnects, MaxFails} \subseteq Nat
  /\ Me \notin Others /\ Others # {}
  /\ None \notin Users \cup Quotes \cup {"change", "reconcile"}
  /\ None \notin Record \cup Refreshes \cup Dialogs

VARIABLES
  row,      \* the request in the database
  underway, \* events not yet delivered to this client
  timer,    \* the refresh that is scheduled, or None
  busy,     \* a refresh that has read the request but not the rest, or None
  view,     \* "open", "left" or "deleted"
  loaded,   \* the record the view works with, None if it was not found
  header,   \* the buttons of the header
  banner,   \* what the collaboration banner shows
  attach,   \* the attachment panel
  tab,      \* the supplier quotations with the panel of their files
  dialog,   \* the dialog that is open, or None
  told,     \* the last message to the user
  torn,     \* a failed refresh has not been made up for yet
  changes, acts, reconnects, fails

parts == <<loaded, header, banner, attach, tab>>
counters == <<changes, acts, reconnects, fails>>
vars == <<row, underway, timer, busy, view, parts, dialog, told, torn, counters>>

-----------------------------------------------------------------------------
(* Who may do what: OwnershipService, on a record (None: not found).        *)

Purchaser == Officer \/ Administrator

IsOwner(rec) == Purchaser /\ rec # None /\ rec.assignee = Me

CanEdit(rec) == "edit" \in Rights /\ IsOwner(rec)
CanManage(rec) == "quotations" \in Rights /\ IsOwner(rec)
CanArchive == "archive" \in Rights /\ (Manager \/ Administrator)
CanRestore == "restore" \in Rights /\ (Manager \/ Administrator)
CanUpload(rec) ==
  "upload" \in Rights /\ (IsOwner(rec) \/ (rec # None /\ Requester = Me))
CanDeleteFile(rec, by) ==
  Administrator \/ IsOwner(rec) \/ (rec # None /\ Requester = Me /\ by = Me)

-----------------------------------------------------------------------------
(* The parts of the view, each as the code computes it from a record.       *)

Archived(rec) == rec # None /\ rec.status = "Archived"
Completed(rec) == rec # None /\ rec.status = "Completed"
IsAssigned(rec) == rec # None /\ rec.assignment # 0

\* get_material_request.
Read(r) == IF r.exists THEN [status |-> r.status, assignment |-> r.assignment,
                             assignee |-> r.assignee]
           ELSE None

\* Mutant: a request that is gone leaves the banner empty.
LockShownNone(r) ==
  CASE ~r.exists -> None
    [] r.holder = None -> "available"
    [] r.holder = Me -> "me"
    [] OTHER -> "other"

\* get_material_request_lock_status, as the banner shows it.
LockShown(r) ==
  CASE ~r.exists -> "error"
    [] r.holder = None -> "available"
    [] r.holder = Me -> "me"
    [] OTHER -> "other"

\* Mutant: the lock is not looked at.
EditEnabledUnlocked(rec, lock) == ~Archived(rec) /\ CanEdit(rec)

\* handle_lock_status_change, which the banner calls whenever it refreshes.
EditEnabled(rec, lock) == ~Archived(rec) /\ CanEdit(rec) /\ lock # "other"

Header(rec, lock) ==
  [archived |-> Archived(rec),
   assigned |-> IsAssigned(rec),
   assign   |-> ~Archived(rec)
                /\ (IF IsAssigned(rec) THEN "reassign" ELSE "assign") \in Rights,
   archive  |-> ~Archived(rec) /\ Completed(rec) /\ CanArchive,
   edit     |-> EditEnabled(rec, lock),
   delete   |-> rec # None /\ "delete" \in Rights]

\* A new AttachmentPanel decides once whether files may be uploaded.
NewPanel(rec, list) ==
  [archived |-> Archived(rec), upload |-> CanUpload(rec), list |-> list]

\* AttachmentsTab.set_material_request: the panel only lists again.
PanelAgain(panel, list) == [panel EXCEPT !.list = list]

NoQuotes == [q \in Quotes |-> [state |-> "none", files |-> 0]]

\* The add button keeps the state it was built with.
NewTab(rec, quotes) ==
  LET can == ~Archived(rec) /\ CanManage(rec) IN
  [add |-> can, can |-> can, archived |-> Archived(rec), quotes |-> quotes,
   filter |-> "All", selected |-> None, files |-> 0, listed |-> FALSE]

\* set_quotations, apply_filters: nothing is selected any more.
SetQuotes(t, quotes) ==
  [t EXCEPT !.quotes = quotes, !.selected = None, !.files = 0, !.listed = FALSE]

\* set_permissions
SetPermissions(t, rec) ==
  [t EXCEPT !.can = ~Archived(rec) /\ CanManage(rec), !.archived = Archived(rec)]

Visible(t, q) ==
  /\ t.quotes[q].state # "none"
  /\ t.filter = "Active" => t.quotes[q].state = "active"

NextQuote == CHOOSE q \in Quotes : TRUE \* one that is to be recorded yet

-----------------------------------------------------------------------------
Init ==
  /\ row \in [exists : {TRUE}, status : {"Pending", "Completed"},
              assignment : {0, 1}, assignee : {Me} \cup Others \cup {None},
              holder : {None}, attachments : {{}},
              quotes : {[q \in Quotes |->
                [state |-> IF q = NextQuote THEN "none" ELSE "active",
                 files |-> 0]]}]
  /\ (row.assignment = 0 <=> row.assignee = None)
  /\ row.assignment = 0 => row.status = "Pending"
  /\ underway = {} /\ timer = None /\ busy = None /\ view = "open"
  /\ loaded = Read(row) /\ banner = LockShown(row)
  /\ header = Header(loaded, banner)
  /\ attach = NewPanel(loaded, row.attachments)
  /\ tab = NewTab(loaded, row.quotes)
  /\ dialog = None /\ told = "none"
  /\ torn = FALSE
  /\ changes = 0 /\ acts = 0 /\ reconnects = 0 /\ fails = 0

-----------------------------------------------------------------------------
(* Other clients.                                                           *)

Send(kind) == underway' = underway \cup {kind}

Change(r) ==
  /\ row.exists /\ changes < MaxChanges
  /\ changes' = changes + 1
  /\ row' = r /\ row' # row
  /\ UNCHANGED <<timer, busy, view, parts, dialog, told, torn, acts,
                 reconnects, fails>>

Other == CHOOSE u \in Others : TRUE

\* What the services allow: RequestDesk and Procurement have it in detail.
OthersCommit ==
  /\ Send("change")
  /\ \/ /\ row.status = "Pending"
        /\ \E u \in Others \cup {Me} :
             Change([row EXCEPT !.assignment = @ + 1, !.assignee = u])
     \/ /\ row.status = "Pending" /\ row.assignment # 0
        /\ Change([row EXCEPT !.status = "Completed"])
     \/ /\ row.status = "Completed"
        /\ Change([row EXCEPT !.status = "Archived", !.holder = None])
     \/ /\ row.status = "Archived"
        /\ Change([row EXCEPT !.status = "Completed"])
     \/ Change([row EXCEPT !.exists = FALSE])
     \/ \E holder \in {None, Other} :
          /\ row.status # "Archived" /\ row.holder # Me
          /\ Change([row EXCEPT !.holder = holder])
     \/ \E q \in Quotes :
          /\ row.status # "Archived"
          /\ \/ /\ row.quotes[q].state = "active"
                /\ \/ Change([row EXCEPT !.quotes[q].state = "archived"])
                   \/ Change([row EXCEPT !.quotes[q].files = @ + 1])
             \/ /\ row.quotes[q].state \in {"none", "archived"}
                /\ Change([row EXCEPT !.quotes[q].state = "active"])
     \/ /\ row.status # "Archived"
        /\ Change([row EXCEPT !.attachments = @ \cup {Other}])

\* lock_expires_at passes: nobody sends an event.
LockExpires ==
  /\ row.holder # None
  /\ Change([row EXCEPT !.holder = None])
  /\ UNCHANGED underway

\* The listener reconnects (RealtimeDelivery).
Reconnect ==
  /\ view = "open" /\ reconnects < MaxReconnects
  /\ reconnects' = reconnects + 1
  /\ Send("reconcile")
  /\ UNCHANGED <<row, timer, busy, view, parts, dialog, told, torn, changes,
                 acts, fails>>

-----------------------------------------------------------------------------
(* Events and refreshes.  The UI thread runs one handler at a time: nothing *)
(* else of this client happens while busy.                                  *)

Free == view = "open" /\ busy = None

\* Mutant: an archived request is not refreshed.
DeliverToActive(kind) ==
  /\ Free /\ kind \in underway
  /\ underway' = underway \ {kind}
  /\ timer' = IF Archived(loaded) THEN timer ELSE kind
  /\ UNCHANGED <<row, busy, view, parts, dialog, told, torn, counters>>

\* handle_realtime_event, _schedule_realtime_refresh: a later event restarts
\* the timer, and decides alone what kind of refresh there will be.
Deliver(kind) ==
  /\ Free /\ kind \in underway
  /\ underway' = underway \ {kind}
  /\ timer' = kind
  /\ UNCHANGED <<row, busy, view, parts, dialog, told, torn, counters>>

\* _run_realtime_refresh: the request is read first.
StartRefresh ==
  /\ Free /\ timer # None
  /\ timer' = None
  /\ busy' = [kind |-> timer, rec |-> Read(row), own |-> FALSE]
  /\ UNCHANGED <<row, underway, view, parts, dialog, told, torn, counters>>

Tell(message) == told' = message

Listed(ok, r) == IF ok /\ r.exists THEN r.quotes ELSE NoQuotes
Failed(ok) == fails' = fails + (IF ok THEN 0 ELSE 1)

\* Mutant: the banner is not asked again.
AgainWithoutBanner(rec, ok) ==
  /\ loaded' = rec
  /\ banner' = banner
  /\ header' = [Header(rec, banner) EXCEPT
                  !.edit = ~Archived(rec) /\ CanEdit(rec)]
  /\ attach' = PanelAgain(attach, row.attachments)
  /\ tab' = SetQuotes(SetPermissions(tab, rec), Listed(ok, row))

\* refresh_view_incrementally.  When the quotations cannot be read the list
\* becomes empty, without a message.
Again(rec, ok) ==
  /\ loaded' = rec
  /\ banner' = LockShown(row)
  /\ header' = Header(rec, banner')
  /\ attach' = PanelAgain(attach, row.attachments)
  /\ tab' = SetQuotes(SetPermissions(tab, rec), Listed(ok, row))

Incremental ==
  /\ busy # None /\ busy.kind = "change"
  /\ \E ok \in BOOLEAN :
       /\ ok \/ fails < MaxFails
       /\ Failed(ok) /\ torn' = ~ok
       /\ Again(busy.rec, ok)
  /\ busy' = None
  /\ IF busy.own
       THEN dialog' = None /\ Tell("done")
       ELSE UNCHANGED <<dialog, told>>
  /\ UNCHANGED <<row, underway, timer, view, changes, acts, reconnects>>

\* A rebuild destroys the children of the view, their panels and the dialogs
\* made in Tk; the native ones stay open, on behalf of what is gone.
Orphaned(d) ==
  IF d = None \/ d.kind \notin Native THEN None ELSE [d EXCEPT !.gone = TRUE]

\* reload_view_data
Rebuild ==
  /\ busy # None /\ busy.kind = "reconcile"
  /\ \E ok \in BOOLEAN :
       /\ ok \/ fails < MaxFails
       /\ Failed(ok) /\ torn' = ~ok
       /\ tab' = NewTab(busy.rec, Listed(ok, row))
  /\ loaded' = busy.rec
  /\ banner' = LockShown(row)
  /\ header' = Header(busy.rec, banner')
  /\ attach' = NewPanel(busy.rec, row.attachments)
  /\ dialog' = Orphaned(dialog)
  /\ busy' = None
  /\ UNCHANGED <<row, underway, timer, view, told, changes, acts, reconnects>>

\* A query before the quotations fails: the error box, and nothing is shown
\* anew.  A rebuild has already replaced the record by then.
RefreshFails ==
  /\ busy # None /\ fails < MaxFails
  /\ fails' = fails + 1 /\ torn' = TRUE
  /\ loaded' = IF busy.kind = "reconcile" THEN busy.rec ELSE loaded
  /\ IF busy.own THEN Tell("failed") ELSE UNCHANGED told
  /\ busy' = None
  /\ UNCHANGED <<row, underway, timer, view, header, banner, attach, tab,
                 dialog, changes, acts, reconnects>>

-----------------------------------------------------------------------------
(* The user.  Opening a dialog captures what it will be answered for.       *)

Click == Free /\ dialog = None /\ acts < MaxActs /\ acts' = acts + 1

Open(kind, q) ==
  /\ dialog' = [kind |-> kind, for |-> q, gone |-> FALSE]
  /\ UNCHANGED <<row, underway, timer, busy, view, parts, told, torn, changes,
                 reconnects, fails>>

\* Of the buttons and the checks behind them, on the loaded record.
OpenAssign ==
  /\ Click /\ header.assign /\ ~header.archived
  /\ loaded # None /\ ~Archived(loaded)
  /\ (IF IsAssigned(loaded) THEN "reassign" ELSE "assign") \in Rights
  /\ Open("assign", None)

AskArchive ==
  /\ Click /\ header.archive
  /\ CanArchive /\ Completed(loaded)
  /\ Open("archive", None)

AskRestore ==
  /\ Click /\ header.archived
  /\ CanRestore /\ Archived(loaded)
  /\ Open("restore", None)

AskDelete ==
  /\ Click /\ header.delete /\ loaded # None
  /\ Open("delete", None)

MayManage == ~Archived(loaded) /\ CanManage(loaded)

OpenNewQuotation ==
  /\ Click /\ tab.add /\ tab.can /\ MayManage
  /\ Open("new quotation", None)

Selected(state) ==
  tab.selected # None /\ tab.quotes[tab.selected].state = state

AskArchiveQuotation ==
  /\ Click /\ tab.can /\ Selected("active") /\ MayManage
  /\ Open("archive quotation", tab.selected)

\* The action bar's upload keeps the quotation, the panel's does not.
ChooseFilesInView ==
  /\ Click /\ tab.can /\ Selected("active") /\ MayManage
  /\ Open("view upload", tab.selected)

PanelMayModify == Selected("active") /\ tab.can /\ ~tab.archived

ChooseFilesInPanel ==
  /\ Click /\ PanelMayModify
  /\ Open("upload", tab.selected)

AskDeleteFile ==
  /\ Click /\ PanelMayModify /\ tab.files > 0
  /\ Open("delete file", tab.selected)

ChooseAttachment ==
  /\ Click /\ attach.upload /\ ~attach.archived
  /\ Open("attach", None)

AskDeleteAttachment ==
  /\ Click /\ ~attach.archived
  /\ \E by \in attach.list :
       CanDeleteFile(loaded, by) /\ Open("detach", by)

\* select_quotation reads the files, which corrects the count in the list.
Select(q) ==
  /\ Click /\ Visible(tab, q)
  /\ \E ok \in BOOLEAN :
       /\ ok \/ fails < MaxFails
       /\ Failed(ok)
       /\ tab' = [tab EXCEPT
            !.selected = q,
            !.files = IF ok THEN row.quotes[q].files ELSE 0,
            !.listed = ok,
            !.quotes[q].files = IF ok THEN row.quotes[q].files ELSE @]
  /\ UNCHANGED <<row, underway, timer, busy, view, loaded, header, banner,
                 attach, dialog, told, torn, changes, reconnects>>

Filter(kind) ==
  /\ Click /\ kind # tab.filter
  /\ tab' = [SetQuotes(tab, tab.quotes) EXCEPT !.filter = kind]
  /\ UNCHANGED <<row, underway, timer, busy, view, loaded, header, banner,
                 attach, dialog, told, torn, changes, reconnects, fails>>

\* edit_request and the back button: another view takes the place of this one.
Leave ==
  /\ Click
  /\ view' = "left"
  /\ UNCHANGED <<row, underway, timer, busy, parts, dialog, told, torn,
                 changes, reconnects, fails>>

Cancel ==
  /\ Free /\ dialog # None
  /\ dialog' = None
  /\ UNCHANGED <<row, underway, timer, busy, view, parts, told, torn, counters>>

-----------------------------------------------------------------------------
(* Answers.  The services look at the row again; what they refuse ends in   *)
(* an error box.                                                            *)

Answered(kind) == Free /\ dialog # None /\ dialog.kind = kind

\* Tk dialogs stay open with the error, native ones have closed.
Refused ==
  /\ dialog' = IF dialog.kind \in Native THEN None ELSE dialog
  /\ Tell("failed")
  /\ UNCHANGED <<row, underway, timer, busy, view, parts, torn, counters>>

Commit(r) == row' = r /\ Send("change")

\* Back to the list, after the message.
GoBack(how) ==
  /\ view' = how /\ dialog' = None /\ timer' = None
  /\ Tell("done")
  /\ UNCHANGED <<busy, parts, torn, counters>>

Archive ==
  /\ Answered("archive")
  /\ IF row.exists /\ row.status = "Completed"
       THEN Commit([row EXCEPT !.status = "Archived", !.holder = None])
            /\ GoBack("left")
       ELSE Refused

Restore ==
  /\ Answered("restore")
  /\ IF row.exists /\ row.status = "Archived"
       THEN Commit([row EXCEPT !.status = "Completed"]) /\ GoBack("left")
       ELSE Refused

\* delete_request.  The event of the deletion comes back to this client.
Delete ==
  /\ Answered("delete")
  /\ IF row.exists /\ row.holder \in {None, Me}
       THEN Commit([row EXCEPT !.exists = FALSE]) /\ GoBack("deleted")
       ELSE Refused

\* Mutant: reassign whatever assignment there is.
AssignLatest(u) ==
  /\ Answered("assign") /\ loaded # None
  /\ IF row.exists /\ row.status # "Archived"
       THEN /\ Commit([row EXCEPT !.assignment = @ + 1, !.assignee = u])
            /\ busy' = [kind |-> "change", rec |-> Read(row'), own |-> TRUE]
            /\ UNCHANGED <<timer, view, parts, dialog, told, torn, counters>>
       ELSE Refused

\* submit_assignment: the assignment named is the one loaded by now, not when
\* the dialog was opened.  The whole view is refreshed before the message.
Assign(u) ==
  /\ Answered("assign") /\ loaded # None
  /\ IF row.exists /\ row.status # "Archived"
          /\ row.assignment = loaded.assignment
       THEN /\ Commit([row EXCEPT !.assignment = @ + 1, !.assignee = u])
            /\ busy' = [kind |-> "change", rec |-> Read(row'), own |-> TRUE]
            /\ UNCHANGED <<timer, view, parts, dialog, told, torn, counters>>
       ELSE Refused

\* refresh_supplier_quotations: a failure has its own message and keeps the
\* rows that are shown.
Relisted ==
  /\ \E ok \in BOOLEAN :
       /\ ok \/ fails < MaxFails
       /\ Failed(ok)
       /\ tab' = IF ok THEN SetQuotes(tab, row'.quotes) ELSE tab
       /\ torn' = (torn \/ ~ok)
  /\ dialog' = None
  /\ Tell("done")
  /\ UNCHANGED <<timer, busy, view, loaded, header, banner, attach, changes,
                 acts, reconnects>>

\* The services check the permission on the row, not whether it is archived.
ServiceManages == row.exists /\ CanManage(Read(row))

CreateQuotation(q) ==
  /\ Answered("new quotation")
  /\ row.quotes[q].state = "none" \/ ~ServiceManages
  /\ IF ServiceManages
       THEN Commit([row EXCEPT !.quotes[q].state = "active"]) /\ Relisted
       ELSE Refused

ArchiveQuotation ==
  /\ Answered("archive quotation")
  /\ IF ServiceManages /\ row.quotes[dialog.for].state = "active"
       THEN Commit([row EXCEPT !.quotes[dialog.for].state = "archived"])
            /\ Relisted
       ELSE Refused

\* restore_supplier_quotation asks nothing.
RestoreQuotation ==
  /\ Click /\ tab.can /\ Selected("archived") /\ MayManage
  /\ ServiceManages /\ row.quotes[tab.selected].state = "archived"
  /\ Commit([row EXCEPT !.quotes[tab.selected].state = "active"])
  /\ tab' = SetQuotes(tab, row'.quotes)
  /\ Tell("done")
  /\ UNCHANGED <<timer, busy, view, loaded, header, banner, attach, dialog,
                 torn, changes, reconnects, fails>>

TakesFiles(q) == ServiceManages /\ row.quotes[q].state = "active"

UploadInView ==
  /\ Answered("view upload")
  /\ IF TakesFiles(dialog.for)
       THEN Commit([row EXCEPT !.quotes[dialog.for].files = @ + 1]) /\ Relisted
       ELSE Refused

\* A panel lists its files again; when it has been destroyed meanwhile that
\* raises, and the message of the failed operation is shown.
PanelListed(q) ==
  /\ tab' = IF dialog.gone THEN tab
            ELSE [tab EXCEPT !.files = row'.quotes[q].files,
                             !.quotes[q].files = row'.quotes[q].files]
  /\ Tell(IF dialog.gone THEN "failed" ELSE "done")
  /\ dialog' = None
  /\ UNCHANGED <<timer, busy, view, loaded, header, banner, attach, torn,
                 counters>>

\* The selection of the panel, which a destroyed one keeps.
PanelSelection == IF dialog.gone THEN dialog.for ELSE tab.selected

\* SupplierQuotationFilePanel.upload_files reads the selection again.
UploadInPanel ==
  /\ Answered("upload")
  /\ IF PanelSelection # None /\ TakesFiles(PanelSelection)
       THEN Commit([row EXCEPT !.quotes[PanelSelection].files = @ + 1])
            /\ PanelListed(PanelSelection)
       ELSE Refused

\* delete_selected kept the file; the panel lists what it now shows, if anything.
DeleteFile ==
  /\ Answered("delete file")
  /\ IF TakesFiles(dialog.for) /\ row.quotes[dialog.for].files > 0
       THEN /\ Commit([row EXCEPT !.quotes[dialog.for].files = @ - 1])
            /\ IF PanelSelection = None
                 THEN /\ dialog' = None /\ Tell("done")
                      /\ UNCHANGED <<timer, busy, view, parts, torn, counters>>
                 ELSE PanelListed(PanelSelection)
       ELSE Refused

AttachListed ==
  /\ attach' = IF dialog.gone THEN attach
               ELSE PanelAgain(attach, row'.attachments)
  /\ Tell(IF dialog.gone THEN "failed" ELSE "done")
  /\ dialog' = None
  /\ UNCHANGED <<timer, busy, view, loaded, header, banner, tab, torn, counters>>

\* AttachmentPanel.upload_files; the service checks the permission only.
Attach ==
  /\ Answered("attach")
  /\ IF row.exists /\ CanUpload(Read(row))
       THEN Commit([row EXCEPT !.attachments = @ \cup {Me}]) /\ AttachListed
       ELSE Refused

Detach ==
  /\ Answered("detach")
  /\ IF row.exists /\ dialog.for \in row.attachments
          /\ CanDeleteFile(Read(row), dialog.for)
       THEN Commit([row EXCEPT !.attachments = @ \ {dialog.for}]) /\ AttachListed
       ELSE Refused

User ==
  \/ OpenAssign \/ AskArchive \/ AskRestore \/ AskDelete
  \/ OpenNewQuotation \/ AskArchiveQuotation \/ ChooseFilesInView
  \/ ChooseFilesInPanel \/ AskDeleteFile \/ ChooseAttachment
  \/ AskDeleteAttachment \/ Leave \/ Cancel
  \/ Archive \/ Restore \/ Delete \/ ArchiveQuotation \/ RestoreQuotation
  \/ UploadInView \/ UploadInPanel \/ DeleteFile \/ Attach \/ Detach
  \/ \E q \in Quotes : Select(q) \/ CreateQuotation(q)
  \/ \E kind \in {"All", "Active"} : Filter(kind)
  \/ \E u \in Others \cup {Me} : Assign(u)

Refresh == StartRefresh \/ Incremental \/ Rebuild \/ RefreshFails

Next ==
  \/ OthersCommit \/ LockExpires \/ Reconnect
  \/ \E kind \in {"change", "reconcile"} : Deliver(kind)
  \/ Refresh \/ User

Spec == Init /\ [][Next]_vars

-----------------------------------------------------------------------------
(* Properties.                                                              *)

TypeOK ==
  /\ row \in Rows /\ (row.assignment = 0 <=> row.assignee = None)
  /\ underway \subseteq {"change", "reconcile"}
  /\ timer \in {None, "change", "reconcile"}
  /\ busy \in Refreshes \cup {None}
  /\ view \in {"open", "left", "deleted"}
  /\ loaded \in Record \cup {None} /\ header \in Headers
  /\ banner \in {"available", "me", "other", "error"}
  /\ attach \in Panels /\ tab \in Tabs
  /\ dialog \in Dialogs \cup {None}
  /\ told \in {"none", "done", "failed"} /\ torn \in BOOLEAN
  /\ changes \in 0..MaxChanges /\ acts \in 0..MaxActs
  /\ reconnects \in 0..MaxReconnects /\ fails \in 0..MaxFails

\* Whatever refreshes, failures and own operations there were, the header, the
\* quotations and the banner show one record together: the buttons are those
\* of the record the handlers go by, and Edit is never offered beside a banner
\* that says somebody else is editing.
OneRecordIsShown ==
  torn \/ ( /\ header.archived = Archived(loaded) /\ tab.archived = header.archived
            /\ header.assigned = IsAssigned(loaded)
            /\ header.edit => CanEdit(loaded) /\ banner # "other"
            /\ tab.can = MayManage
            /\ header.delete = (loaded # None /\ "delete" \in Rights) )

\* When nothing is under way and nothing failed the view shows the database:
\* the record, the quotations with their number of files, the attachments, and
\* a lock that is there -- one that ran out may still be shown.
QuietMeansCurrent ==
  view = "open" /\ busy = None /\ timer = None /\ underway = {} /\ ~torn =>
    /\ loaded = Read(row)
    /\ row.exists => /\ tab.quotes = row.quotes
                     /\ attach.list = row.attachments
                     /\ banner # LockShown(row) => LockShown(row) = "available"

\* The panel of files belongs to the selected quotation, and the list beside it
\* counts the files the panel shows.
FilesAreCounted ==
  /\ tab.selected = None => tab.files = 0 /\ ~tab.listed
  /\ tab.selected # None =>
       /\ Visible(tab, tab.selected)
       /\ tab.listed => tab.quotes[tab.selected].files = tab.files

\* The parts of the view fit each other.
PartsAgree == OneRecordIsShown /\ FilesAreCounted

\* Files the user chose go to the quotation they were chosen for, even when the
\* view was refreshed or built anew under the file dialog.
FilesGoToTheChosen ==
  \A q \in Quotes :
    row'.quotes[q].files # row.quotes[q].files /\ changes' = changes =>
      dialog.for = q

\* An assignment this user ends is one the view has shown.
NothingReplacedUnseen ==
  row'.assignment # row.assignment /\ changes' = changes =>
    loaded.assignment = row.assignment

\* After the user's own deletion its event does not bring the view back: no
\* refresh of a request that is gone.
DeletedStaysGone ==
  view = "deleted" => UNCHANGED <<parts, timer, busy, told>>

\* Although the view is refreshed under open dialogs, what the user's answers do
\* is what he saw.
ActsOnWhatWasSeen ==
  [][FilesGoToTheChosen /\ NothingReplacedUnseen /\ DeletedStaysGone]_vars

\* While events arrive and no query fails, the view comes to show the request
\* as the last commit left it, unless it is left.
Settles ==
  <>[](view # "open" \/ (loaded = Read(row) /\ header.archived = Archived(loaded)))
=============================================================================
