----------------------------- MODULE Notifications -----------------------------
(***************************************************************************)
(* The notifications kept in core.notifications: who is told of what, the  *)
(* panel that lists them, and the screen a selected one opens.             *)
(*                                                                         *)
(* PersistentNotificationService writes them in the transaction of the     *)
(* operation they tell of, so they come and go with it.  A row's created_at*)
(* is the start of that transaction, and the panel sorts by it: a slow     *)
(* transaction's notice appears below what others committed meanwhile.     *)
(*                                                                         *)
(* Of the operations only what decides on their recipients is here; the    *)
(* rest is RequestDesk and Procurement.  Windows are running clients; one  *)
(* user may have several.                                                  *)
(***************************************************************************)
EXTENDS Integers, Sequences, FiniteSets, SequencesExt

CONSTANTS
  Managers, Officers, Engineers,  \* accounts by role
  Requests,
  Calls,     \* transactions that may be open at the same time
  Windows,
  UserOf,    \* the signed-in user of each window
  MayDelete, \* may administrators delete requests?
  Limit,     \* rows the panel asks for (50 in main_window.py)
  None,
  MaxCalls,  \* bound: transactions of the services
  MaxFlips,  \* bound: managers enabled and disabled
  MaxClicks  \* bound: what the users of the windows do

Users == Managers \cup Officers \cup Engineers

NotificationsAssumption ==
  /\ UserOf \in [Windows -> Users] /\ IsFiniteSet(Managers)
  /\ Limit \in Nat \ {0} /\ MayDelete \in BOOLEAN
  /\ {MaxCalls, MaxFlips, MaxClicks} \subseteq Nat
  /\ None \notin Users

VARIABLES
  since,    \* manager -> 0 when disabled, else when enabled
  request,  \* what the operations read of each request
  question, \* the clarification each request has open or had last
  notices,  \* core.notifications, in the order of commit
  call,     \* open transactions
  panel,    \* the open panel of each window, or None
  screen,   \* what its workspace shows
  chosen,   \* the notice selected there last, 0 for none
  clock, flips, clicks

tables == <<since, request, question, notices, call, flips>>
window == <<panel, screen, chosen, clicks>>
vars == <<tables, window, clock>>

CreatedTypes == {"request created"}
OfficerTypes == {"assigned", "auto-assigned", "reassigned"}
RequesterTypes == {"requester assigned", "requester auto-assigned",
                   "requester reassigned"}
QuotationTypes == {"quotation created", "quotation files uploaded"}
QuestionTypes == {"question recorded", "response submitted",
                  "follow-up recorded", "question resolved"}
Types == CreatedTypes \cup OfficerTypes \cup RequesterTypes
           \cup QuotationTypes \cup QuestionTypes

Entity(type) ==
  IF type \in QuestionTypes THEN "SUPPLIER_CLARIFICATION" ELSE "MATERIAL_REQUEST"

Notice == [to : Users, type : Types, entity : {Entity(t) : t \in Types},
           id : Requests, created : Nat,
           read : Nat,      \* 0 while unread
           gone : BOOLEAN]  \* deleted along with its request

Home == [view |-> "home"]
Details(r, tab) == [view |-> "request", id |-> r, tab |-> tab]
Clarification(r) == [view |-> "clarification", id |-> r]
Screens == {Home} \cup {Details(r, tab) : r \in Requests,
                        tab \in {"first", "Supplier Quotations"}}
                  \cup {Clarification(r) : r \in Requests}

TypeOK ==
  /\ since \in [Managers -> Nat]
  /\ request \in [Requests ->
       [state : {"none", "new", "assigned", "deleted"},
        by : Engineers \cup {None},
        officer : Officers \cup {None}, read : Nat]]
  /\ question \in [Requests ->
       [status : {"none", "awaiting", "ready", "forwarded", "resolved"},
        at : Nat]]
  /\ notices \in Seq(Notice)
  /\ \A c \in Calls : call[c] # None =>
       /\ call[c].start \in Nat /\ call[c].told \subseteq Managers
  /\ \A w \in Windows :
       panel[w] # None =>
         /\ panel[w].failed \in BOOLEAN
         /\ \A k \in 1..Len(panel[w].list) :
              panel[w].list[k].index \in 1..Len(notices)
  /\ screen \in [Windows -> Screens]
  /\ chosen \in [Windows -> 0..Len(notices)]

Init ==
  /\ since \in [Managers -> {0, 1}]
  /\ request = [r \in Requests |->
       [state |-> "none", by |-> None, officer |-> None, read |-> 0]]
  /\ question = [r \in Requests |-> [status |-> "none", at |-> 0]]
  /\ notices = << >>
  /\ call = [c \in Calls |-> None]
  /\ panel = [w \in Windows |-> None] /\ screen = [w \in Windows |-> Home]
  /\ chosen = [w \in Windows |-> 0]
  /\ clock = 1 /\ flips = 0 /\ clicks = 0

-----------------------------------------------------------------------------
(* Transactions.  Each reads and locks what it decides on at its end; only *)
(* get_active_users_by_role runs on a connection of its own, any time      *)
(* before.                                                                 *)

\* OrganizationService.get_active_users_by_role("Purchasing Manager").
ActiveManagers == {m \in Managers : since[m] # 0}

Begin(c) ==
  /\ call[c] = None /\ clock <= MaxCalls + flips
  /\ clock' = clock + 1
  /\ call' = [call EXCEPT ![c] = [start |-> clock + 1, told |-> ActiveManagers]]
  /\ UNCHANGED <<since, request, question, notices, flips, window>>

\* _create through NotificationRepository.create; without a recipient the
\* notify methods return before it.
Create(c, to, type, r) ==
  IF to = None THEN << >>
  ELSE <<[to |-> to, type |-> type, entity |-> Entity(type), id |-> r,
          created |-> call[c].start, read |-> 0, gone |-> FALSE]>>

Commit(c, told) ==
  /\ notices' = notices \o told
  /\ call' = [call EXCEPT ![c] = None]
  /\ UNCHANGED <<since, clock, flips, window>>

Rollback(c) ==
  /\ call[c] # None
  /\ call' = [call EXCEPT ![c] = None]
  /\ UNCHANGED <<since, request, question, notices, clock, flips, window>>

\* Mutant: only the first of the managers.
TellOneManager(c, r) ==
  LET told == SetToSeq(call[c].told)
  IN  IF told = << >> THEN << >> ELSE Create(c, told[1], "request created", r)

\* notify_material_request_created: one notice for each manager.
TellManagers(c, r) ==
  LET told == SetToSeq(call[c].told)
  IN  [k \in DOMAIN told |-> Create(c, told[k], "request created", r)[1]]

CreateRequest(c, r, by) ==
  /\ call[c] # None /\ request[r].state = "none"
  /\ request' = [request EXCEPT ![r] = [state |-> "new", by |-> by,
                    officer |-> None, read |-> call[c].start]]
  /\ UNCHANGED question
  /\ Commit(c, TellManagers(c, r))

\* Mutant: a reassignment is told to the officer the request is taken from.
TellBothPrevious(c, r, officer, type, requesterType) ==
  LET to == IF type = "reassigned" THEN request[r].officer ELSE officer
  IN  Create(c, to, type, r) \o Create(c, request[r].by, requesterType, r)

\* The officer and, if the request has one, the requester.
TellBoth(c, r, officer, type, requesterType) ==
  Create(c, officer, type, r) \o Create(c, request[r].by, requesterType, r)

Assigned(r, officer) ==
  request' = [request EXCEPT ![r].state = "assigned", ![r].officer = officer]

\* MaterialRequestAssignmentProcess.assign, AutoAssignmentService.
Assign(c, r, officer, type, requesterType) ==
  /\ call[c] # None /\ request[r].state = "new"
  /\ Assigned(r, officer)
  /\ UNCHANGED question
  /\ Commit(c, TellBoth(c, r, officer, type, requesterType))

Reassign(c, r, officer) ==
  /\ call[c] # None /\ request[r].state = "assigned"
  /\ Assigned(r, officer)
  /\ UNCHANGED question
  /\ Commit(c, TellBoth(c, r, officer, "reassigned", "requester reassigned"))

\* Mutant: the request is not looked at.
AddLate(c, r, type) ==
  /\ call[c] # None /\ request[r].state # "none"
  /\ UNCHANGED <<request, question>>
  /\ Commit(c, Create(c, request[r].by, type, r))

\* SupplierQuotationProcess.create and upload_files tell the requester only.
AddQuotation(c, r, type) ==
  /\ call[c] # None /\ request[r].state = "assigned"
  /\ UNCHANGED <<request, question>>
  /\ Commit(c, Create(c, request[r].by, type, r))

\* A step of a clarification; at: the notices there were before it.
Ask(c, r, from, status, told) ==
  /\ call[c] # None /\ question[r].status \in from
  /\ question' = [question EXCEPT ![r] =
                    [status |-> status, at |-> Len(notices)]]
  /\ UNCHANGED request
  /\ Commit(c, told)

\* record_supplier_clarification needs a requester account.
RecordQuestion(c, r) ==
  /\ request[r].state = "assigned" /\ request[r].by # None
  /\ Ask(c, r, {"none", "resolved"}, "awaiting",
         Create(c, request[r].by, "question recorded", r))

\* submit_engineering_response reads the officer with the row locked.
SubmitResponse(c, r) ==
  Ask(c, r, {"awaiting"}, "ready",
      Create(c, request[r].officer, "response submitted", r))

Forward(c, r) == Ask(c, r, {"ready"}, "forwarded", << >>)

FollowUp(c, r) ==
  Ask(c, r, {"forwarded"}, "awaiting",
      Create(c, request[r].by, "follow-up recorded", r))

Resolve(c, r) ==
  Ask(c, r, {"forwarded"}, "resolved",
      Create(c, request[r].by, "question resolved", r))

\* DELETE FROM core.notifications WHERE entity_id = the request's id: those of
\* its clarifications have the clarification's id.
DeleteNotifications(list, r) ==
  [k \in DOMAIN list |->
     IF list[k].id = r /\ list[k].entity = "MATERIAL_REQUEST"
     THEN [list[k] EXCEPT !.gone = TRUE] ELSE list[k]]

\* delete_material_request; the clarification goes with its request.
DeleteRequest(c, r) ==
  /\ MayDelete
  /\ call[c] # None /\ request[r].state \in {"new", "assigned"}
  /\ request' = [request EXCEPT ![r].state = "deleted"]
  /\ question' = [question EXCEPT ![r].status = "none"]
  /\ notices' = DeleteNotifications(notices, r)
  /\ call' = [call EXCEPT ![c] = None]
  /\ UNCHANGED <<since, clock, flips, window>>

\* enable_user and disable_user.
Flip(m) ==
  /\ flips < MaxFlips
  /\ flips' = flips + 1 /\ clock' = clock + 1
  /\ since' = [since EXCEPT ![m] = IF since[m] = 0 THEN clock + 1 ELSE 0]
  /\ UNCHANGED <<request, question, notices, call, window>>

-----------------------------------------------------------------------------
(* The panel of a window.                                                  *)

Of(user) == {k \in DOMAIN notices : notices[k].to = user /\ ~notices[k].gone}

Later(j, k) ==
  \/ notices[j].created > notices[k].created
  \/ notices[j].created = notices[k].created /\ j > k

\* A card remembers whether its notice was read when it was loaded.
PanelRow(k) == [index |-> k, read |-> notices[k].read # 0]

\* NotificationRepository.get_by_recipient: ORDER BY created_at DESC LIMIT.
GetByRecipient(user) ==
  LET sorted == SetToSortSeq(Of(user), Later)
      rows   == SubSeq(sorted, 1, IF Len(sorted) < Limit THEN Len(sorted) ELSE Limit)
  IN  [k \in DOMAIN rows |-> PanelRow(rows[k])]

\* render_error: a failed query leaves the panel without cards.
PanelFails == [list |-> << >>, failed |-> TRUE]

Click == clicks < MaxClicks /\ clicks' = clicks + 1

\* The panel loads when it is opened and with its Refresh button.
LoadPanel(w) ==
  /\ Click
  /\ \E loaded \in {PanelFails,
                    [list |-> GetByRecipient(UserOf[w]), failed |-> FALSE]} :
       panel' = [panel EXCEPT ![w] = loaded]
  /\ UNCHANGED <<tables, screen, chosen, clock>>

ClosePanel(w) ==
  /\ panel[w] # None
  /\ panel' = [panel EXCEPT ![w] = None]
  /\ UNCHANGED <<tables, screen, chosen, clicks, clock>>

\* Mutant: read_at = CURRENT_TIMESTAMP.
MarkAgain(k, user) ==
  notices' = [notices EXCEPT ![k] =
    IF @.to = user /\ ~@.gone THEN [@ EXCEPT !.read = clock] ELSE @]

\* NotificationRepository.mark_as_read; COALESCE keeps the first read_at.
MarkAsRead(k, user) ==
  notices' = [notices EXCEPT ![k] =
    IF @.to = user /\ ~@.gone /\ @.read = 0 THEN [@ EXCEPT !.read = clock] ELSE @]

\* Mutant: every notice opens the request it concerns.
RouteToRequest(notice) == Details(notice.id, "first")

\* MainWindow.route_notification: the view it opens for a notice.
Route(notice) ==
  CASE notice.entity = "MATERIAL_REQUEST" ->
         Details(notice.id, IF notice.type \in QuotationTypes
                            THEN "Supplier Quotations" ELSE "first")
    [] notice.entity = "SUPPLIER_CLARIFICATION" -> Clarification(notice.id)
    [] OTHER -> Home

\* handle_notification_selected.  The flag is that of the loaded row.  When
\* the user may not see clarifications the view stays, with an error box.
Select(w, k) ==
  /\ panel[w] # None /\ k \in DOMAIN panel[w].list
  /\ LET row == panel[w].list[k] IN
       /\ IF row.read THEN UNCHANGED notices ELSE MarkAsRead(row.index, UserOf[w])
       /\ \E allowed \in BOOLEAN :
            screen' = [screen EXCEPT ![w] =
              IF allowed \/ notices[row.index].type \notin QuestionTypes
                THEN Route(notices[row.index]) ELSE @]
       /\ chosen' = [chosen EXCEPT ![w] = row.index]
  /\ panel' = [panel EXCEPT ![w] = None]
  /\ clock' = clock + 1
  /\ UNCHANGED <<since, request, question, call, flips, clicks>>

\* mark_as_read raises: an error box; the panel and the view stay.
SelectFails(w, k) ==
  /\ panel[w] # None /\ k \in DOMAIN panel[w].list
  /\ ~panel[w].list[k].read
  /\ Click
  /\ UNCHANGED <<tables, panel, screen, chosen, clock>>

Work(c) ==
  \E r \in Requests :
    \/ \E by \in Engineers \cup {None} : CreateRequest(c, r, by)
    \/ \E officer \in Officers :
         \/ Assign(c, r, officer, "assigned", "requester assigned")
         \/ Assign(c, r, officer, "auto-assigned", "requester auto-assigned")
         \/ Reassign(c, r, officer)
    \/ \E type \in QuotationTypes : AddQuotation(c, r, type)
    \/ RecordQuestion(c, r) \/ SubmitResponse(c, r) \/ Forward(c, r)
    \/ FollowUp(c, r) \/ Resolve(c, r) \/ DeleteRequest(c, r)

Next ==
  \/ \E c \in Calls : Begin(c) \/ Rollback(c) \/ Work(c)
  \/ \E m \in Managers : Flip(m)
  \/ \E w \in Windows :
       \/ LoadPanel(w) \/ ClosePanel(w)
       \/ \E k \in 1..Limit : Select(w, k) \/ SelectFails(w, k)

Spec == Init /\ [][Next]_vars

-----------------------------------------------------------------------------
(* Properties.                                                             *)

Told(user, types, r, after) ==
  \E k \in DOMAIN notices :
    /\ k > after /\ ~notices[k].gone
    /\ notices[k].to = user /\ notices[k].type \in types /\ notices[k].id = r

\* Whoever a clarification waits for has been told since its last step: the
\* requester of a question or follow-up, the officer of a response -- or, if
\* the request went to another officer after the response, that officer of the
\* request.
WaitedForIsTold ==
  \A r \in Requests :
    /\ question[r].status = "awaiting" =>
         Told(request[r].by, {"question recorded", "follow-up recorded"}, r,
              question[r].at)
    /\ question[r].status = "ready" =>
         Told(request[r].officer, {"response submitted", "reassigned"}, r,
              question[r].at)

\* A request that waits for its first officer is known to every manager who
\* has been active since before it was created.
ManagersAreTold ==
  \A r \in Requests, m \in Managers :
    /\ request[r].state = "new"
    /\ since[m] # 0 /\ since[m] < request[r].read
    => Told(m, CreatedTypes, r, 0)

\* However the manual and the automatic assignment overlap, one officer is
\* told of the first assignment, and every further one is a reassignment.
FirstAssignmentToldOnce ==
  \A r \in Requests :
    Cardinality({k \in DOMAIN notices :
      notices[k].id = r /\ notices[k].type \in {"assigned", "auto-assigned"}}) <= 1

\* Whatever operations overlap with its deletion, no notice of a deleted request
\* is left, or comes afterwards, for a freshly loaded panel.
DeletedIsForgotten ==
  \A user \in Users : \A k \in Of(user) :
    notices[k].entity = "MATERIAL_REQUEST" =>
      request[notices[k].id].state # "deleted"

\* A notice once read stays read at its first time, also when a second window
\* still lists it as unread.
FirstReadKept ==
  \A k \in DOMAIN notices :
    notices[k].read # 0 => notices'[k].read = notices[k].read

\* A notice of a clarification never leads to anything but that clarification:
\* what the user comes to see by selecting it is what waits for an answer.
ClarificationsAreReached ==
  \A w \in Windows : screen'[w] # screen[w] =>
    LET notice == notices[chosen'[w]] IN
      /\ notice.to = UserOf[w]
      /\ screen'[w].id = notice.id
      /\ (screen'[w].view = "clarification") =
           (notice.type \in QuestionTypes)
=============================================================================
