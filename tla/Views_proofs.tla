----------------------------- MODULE Views_proofs -----------------------------
(***************************************************************************)
(* The windows in which a request and its clarifications are worked on,    *)
(* for any users, rights, quotations and windows and any number of commits *)
(* of others, reconnections and failing queries.                           *)
(*                                                                         *)
(* The details view (RequestDetails): its parts agree, it comes to rest on *)
(* what the database has, and what the user's answers do is what the view  *)
(* had shown.  The clarification windows (Chat): the conversation takes    *)
(* turns, and nobody answers what was not on the screen.                   *)
(***************************************************************************)
EXTENDS RequestDetails, Sequences, TLAPS

\* With no event and no refresh to come, a refresh under way has read the
\* request as it is, and a view at rest shows the database.
Current ==
  /\ loaded = Read(row)
  /\ row.exists => /\ tab.quotes = row.quotes
                   /\ attach.list = row.attachments
                   /\ banner # LockShown(row) => LockShown(row) = "available"
KeepsUp ==
  view = "open" /\ timer = None /\ underway = {} =>
    /\ busy # None => busy.rec = Read(row)
    /\ busy = None /\ ~torn => Current

\* The panel that asks for files has the quotation that they are for, or none,
\* unless the panel is gone; a view that was left does not refresh.
UploadSound ==
  dialog # None /\ dialog.kind = "upload" =>
    dialog.gone \/ tab.selected \in {None, dialog.for}
OpenIfBusy == busy # None => view = "open"

DetailsInv == TypeOK /\ PartsAgree /\ KeepsUp /\ UploadSound /\ OpenIfBusy

\* What a step may do.
Acts == FilesGoToTheChosen /\ NothingReplacedUnseen /\ DeletedStaysGone

-----------------------------------------------------------------------------
(* Types.                                                                  *)

\* The columns of a row.
LEMMA RowFields ==
  ASSUME NEW r \in Rows
  PROVE  /\ r.exists \in BOOLEAN /\ r.status \in Statuses /\ r.assignment \in Nat
         /\ r.assignee \in Users \cup {None} /\ r.holder \in Users \cup {None}
         /\ r.attachments \in SUBSET Users /\ r.quotes \in Quotations
         /\ \A q \in Quotes : r.quotes[q] \in
              [state : {"none", "active", "archived"}, files : Nat]
  BY DEF Rows, Quotations

\* Changes of one quotation.
LEMMA QuoteState ==
  ASSUME NEW qs \in Quotations, NEW q \in Quotes,
         NEW state \in {"none", "active", "archived"}
  PROVE  LET new == [qs EXCEPT ![q].state = state]
         IN  new \in Quotations /\ \A p \in Quotes : new[p].files = qs[p].files
  BY DEF Quotations

LEMMA QuoteFiles ==
  ASSUME NEW qs \in Quotations, NEW q \in Quotes, NEW n \in Nat
  PROVE  LET new == [qs EXCEPT ![q].files = n]
         IN  /\ new \in Quotations /\ new[q].files = n
             /\ \A p \in Quotes \ {q} : new[p] = qs[p]
             /\ \A p \in Quotes : new[p].state = qs[p].state
  BY DEF Quotations

\* Columns of the row that others, or the user, change.
LEMMA RowQuotes ==
  ASSUME NEW r \in Rows, NEW qs \in Quotations
  PROVE  LET new == [r EXCEPT !.quotes = qs]
         IN  new \in Rows /\ new.quotes = qs /\ new.assignment = r.assignment
             /\ new.assignee = r.assignee
  BY DEF Rows

LEMMA RowFiles ==
  ASSUME NEW r \in Rows, NEW q \in Quotes, NEW n \in Nat
  PROVE  LET new == [r EXCEPT !.quotes[q].files = n]
         IN  /\ new \in Rows /\ new.assignment = r.assignment /\ new.assignee = r.assignee
             /\ new.quotes[q].files = n
             /\ \A p \in Quotes \ {q} : new.quotes[p] = r.quotes[p]
             /\ \A p \in Quotes : new.quotes[p].state = r.quotes[p].state
  <1> DEFINE qs == [r.quotes EXCEPT ![q].files = n]
             new == [r EXCEPT !.quotes[q].files = n]
  <1>1. r.quotes \in Quotations
    BY RowFields
  <1>2. new = [r EXCEPT !.quotes = qs]
    BY DEF Rows
  <1>3. /\ qs \in Quotations /\ qs[q].files = n
        /\ \A p \in Quotes \ {q} : qs[p] = r.quotes[p]
        /\ \A p \in Quotes : qs[p].state = r.quotes[p].state
    BY <1>1, QuoteFiles
  <1> HIDE DEF qs, new
  <1>4. /\ new \in Rows /\ new.quotes = qs /\ new.assignment = r.assignment
        /\ new.assignee = r.assignee
    BY <1>2, <1>3, RowQuotes
  <1>5. /\ new \in Rows /\ new.assignment = r.assignment /\ new.assignee = r.assignee
        /\ new.quotes[q].files = n
        /\ \A p \in Quotes \ {q} : new.quotes[p] = r.quotes[p]
        /\ \A p \in Quotes : new.quotes[p].state = r.quotes[p].state
    BY <1>3, <1>4
  <1> QED
    BY <1>5 DEF new

LEMMA RowState ==
  ASSUME NEW r \in Rows, NEW q \in Quotes, NEW state \in {"none", "active", "archived"}
  PROVE  LET new == [r EXCEPT !.quotes[q].state = state]
         IN  /\ new \in Rows /\ new.assignment = r.assignment /\ new.assignee = r.assignee
             /\ \A p \in Quotes : new.quotes[p].files = r.quotes[p].files
  <1> DEFINE qs == [r.quotes EXCEPT ![q].state = state]
             new == [r EXCEPT !.quotes[q].state = state]
  <1>1. r.quotes \in Quotations
    BY RowFields
  <1>2. new = [r EXCEPT !.quotes = qs]
    BY DEF Rows
  <1>3. qs \in Quotations
    BY <1>1, QuoteState
  <1>4. \A p \in Quotes : qs[p].files = r.quotes[p].files
    BY <1>1, QuoteState
  <1> HIDE DEF qs, new
  <1>5. /\ new \in Rows /\ new.quotes = qs /\ new.assignment = r.assignment
        /\ new.assignee = r.assignee
    BY <1>2, <1>3, RowQuotes
  <1>6. /\ new \in Rows /\ new.assignment = r.assignment /\ new.assignee = r.assignee
        /\ \A p \in Quotes : new.quotes[p].files = r.quotes[p].files
    BY <1>4, <1>5
  <1> QED
    BY <1>6 DEF new

LEMMA ReadTyped ==
  ASSUME NEW r \in Rows
  PROVE  Read(r) \in Record \cup {None} /\ LockShown(r) \in {"available", "me", "other", "error"}
  BY DEF Read, LockShown, Record, Rows

\* What the view builds from a record and a list, and brings up to date.
LEMMA BuiltTyped ==
  ASSUME NEW rec \in Record \cup {None}, NEW lock, NEW list \in SUBSET Users,
         NEW quotes \in Quotations
  PROVE  /\ Header(rec, lock) \in Headers /\ NewPanel(rec, list) \in Panels
         /\ NewTab(rec, quotes) \in Tabs
  <1>1. Header(rec, lock) \in Headers
    BY DEF Header, Headers, Archived, IsAssigned, Completed, CanArchive, EditEnabled,
       CanEdit, IsOwner, Purchaser
  <1>2. NewPanel(rec, list) \in Panels
    BY DEF NewPanel, Panels, Archived, CanUpload, IsOwner
  <1>3. NewTab(rec, quotes) \in Tabs
    BY DEF NewTab, Tabs, Archived, CanManage, IsOwner
  <1> QED
    BY <1>1, <1>2, <1>3

LEMMA UpdatedTyped ==
  ASSUME NEW rec \in Record \cup {None}, NEW list \in SUBSET Users,
         NEW quotes \in Quotations, NEW t \in Tabs, NEW p \in Panels
  PROVE  /\ PanelAgain(p, list) \in Panels
         /\ SetQuotes(t, quotes) \in Tabs /\ SetPermissions(t, rec) \in Tabs
  BY DEF PanelAgain, Panels, SetQuotes, SetPermissions, Tabs, Archived, CanManage, IsOwner

-----------------------------------------------------------------------------
(* The initial state.                                                      *)

LEMMA InitSound == Init => DetailsInv
  <1> SUFFICES ASSUME Init PROVE DetailsInv
    OBVIOUS
  <1>1. row \in Rows /\ row.holder = None /\ (row.assignment = 0 <=> row.assignee = None)
    <2> DEFINE qs == [q \in Quotes |->
                       [state |-> IF q = NextQuote THEN "none" ELSE "active", files |-> 0]]
    <2>1. qs \in Quotations
      BY DEF Quotations
    <2>2. /\ row \in [exists : {TRUE}, status : {"Pending", "Completed"},
                      assignment : {0, 1}, assignee : {Me} \cup Others \cup {None},
                      holder : {None}, attachments : {{}}, quotes : {qs}]
          /\ (row.assignment = 0 <=> row.assignee = None)
      BY DEF Init
    <2> HIDE DEF qs
    <2> QED
      <3>1. /\ row = [exists |-> row.exists, status |-> row.status,
                      assignment |-> row.assignment, assignee |-> row.assignee,
                      holder |-> row.holder, attachments |-> row.attachments,
                      quotes |-> row.quotes]
            /\ row.exists = TRUE /\ row.status \in Statuses /\ row.assignment \in Nat
            /\ row.assignee \in Users \cup {None} /\ row.holder = None
            /\ row.attachments = {} /\ row.quotes = qs
        <4>1. row = [exists |-> row.exists, status |-> row.status,
                     assignment |-> row.assignment, assignee |-> row.assignee,
                     holder |-> row.holder, attachments |-> row.attachments,
                     quotes |-> row.quotes]
          BY <2>2
        <4>2. row.exists = TRUE /\ row.status \in Statuses
          BY <2>2 DEF Statuses
        <4>3. row.assignment \in {0, 1}
          BY <2>2
        <4>4. row.assignee \in Users \cup {None} /\ row.holder = None
          BY <2>2 DEF Users
        <4>5. row.attachments = {} /\ row.quotes = qs
          BY <2>2
        <4> QED
          BY <4>1, <4>2, <4>3, <4>4, <4>5
      <3>2. row \in Rows
        BY <2>1, <3>1 DEF Rows
      <3> QED
        BY <2>2, <3>1, <3>2
  <1>2. /\ underway = {} /\ timer = None /\ busy = None /\ view = "open"
        /\ loaded = Read(row) /\ banner = LockShown(row)
        /\ header = Header(loaded, banner)
        /\ attach = NewPanel(loaded, row.attachments)
        /\ tab = NewTab(loaded, row.quotes)
        /\ dialog = None /\ told = "none" /\ torn = FALSE
        /\ changes = 0 /\ acts = 0 /\ reconnects = 0 /\ fails = 0
    BY DEF Init
  <1>3. loaded \in Record \cup {None} /\ banner \in {"available", "me", "other", "error"}
    BY <1>1, <1>2, ReadTyped
  <1>4. header \in Headers /\ attach \in Panels /\ tab \in Tabs
    <2>1. row.attachments \in SUBSET Users /\ row.quotes \in Quotations
      BY <1>1, RowFields
    <2> QED
      BY <1>2, <1>3, <2>1, BuiltTyped
  <1>5. TypeOK
    <2>1. MaxChanges \in Nat /\ MaxActs \in Nat /\ MaxReconnects \in Nat /\ MaxFails \in Nat
      BY DetailsAssumption
    <2> QED
      <3>1. row \in Rows /\ (row.assignment = 0 <=> row.assignee = None)
        BY <1>1
      <3>2. /\ underway \subseteq {"change", "reconcile"}
            /\ timer \in {None, "change", "reconcile"} /\ busy \in Refreshes \cup {None}
        BY <1>2
      <3>3. /\ view \in {"open", "left", "deleted"}
            /\ loaded \in Record \cup {None} /\ header \in Headers
            /\ banner \in {"available", "me", "other", "error"}
            /\ attach \in Panels /\ tab \in Tabs
        BY <1>2, <1>3, <1>4
      <3>4. dialog \in Dialogs \cup {None} /\ told \in {"none", "done", "failed"}
            /\ torn \in BOOLEAN
        BY <1>2
      <3>5. /\ changes \in 0..MaxChanges /\ acts \in 0..MaxActs
            /\ reconnects \in 0..MaxReconnects /\ fails \in 0..MaxFails
        BY <1>2, <2>1
      <3> QED
        BY <3>1, <3>2, <3>3, <3>4, <3>5 DEF TypeOK
  <1>6. PartsAgree
    BY <1>2 DEF PartsAgree, OneRecordIsShown, FilesAreCounted, Header, NewTab, EditEnabled,
       MayManage
  <1>7. KeepsUp
    BY <1>2 DEF KeepsUp, Current, NewTab, NewPanel
  <1> QED
    BY <1>2, <1>5, <1>6, <1>7 DEF DetailsInv, UploadSound, OpenIfBusy

-----------------------------------------------------------------------------
(* Families of steps.                                                      *)

\* A step that leaves the parts of the view as they are.
LEMMA PartsKept ==
  ASSUME PartsAgree, UNCHANGED parts, torn => torn'
  PROVE  PartsAgree'
  <1>1. loaded' = loaded /\ header' = header /\ banner' = banner /\ tab' = tab
    BY DEF parts
  <1>2. OneRecordIsShown'
    BY <1>1 DEF PartsAgree, OneRecordIsShown, MayManage
  <1>3. FilesAreCounted'
    BY <1>1 DEF PartsAgree, FilesAreCounted, Visible
  <1> QED
    BY <1>2, <1>3 DEF PartsAgree

\* A new list of quotations in the tab that is there: nothing is selected.
LEMMA ListAgrees ==
  ASSUME PartsAgree, NEW quotes, tab \in Tabs, tab' = SetQuotes(tab, quotes),
         UNCHANGED <<loaded, header, banner>>, torn => torn'
  PROVE  PartsAgree'
  <1>1. tab'.can = tab.can /\ tab'.archived = tab.archived /\ tab'.selected = None
        /\ tab'.files = 0 /\ ~tab'.listed
    BY DEF SetQuotes, Tabs
  <1>2. OneRecordIsShown'
    BY <1>1 DEF PartsAgree, OneRecordIsShown, MayManage
  <1> QED
    BY <1>1, <1>2 DEF PartsAgree, FilesAreCounted

\* Parts that are all built or brought up to date from one record.
LEMMA BuiltAgrees ==
  ASSUME NEW rec \in Record \cup {None}, NEW lock, loaded' = rec, banner' = lock,
         header' = Header(rec, lock),
         tab'.can = (~Archived(rec) /\ CanManage(rec)), tab'.archived = Archived(rec),
         tab'.selected = None, tab'.files = 0, ~tab'.listed
  PROVE  PartsAgree'
  BY DEF PartsAgree, OneRecordIsShown, FilesAreCounted, Header, EditEnabled, MayManage

\* A dialog is opened, answered or closed: the row and the view stay as they are.
LEMMA DialogStep ==
  ASSUME DetailsInv, view = "open", busy = None,
         UNCHANGED <<row, underway, timer, busy, parts, torn, changes, reconnects, fails>>,
         dialog' \in Dialogs \cup {None},
         dialog' = None \/ dialog' = dialog \/ dialog'.kind # "upload"
           \/ dialog'.for = tab.selected,
         view' \in {"open", "left"}, told' \in {"none", "done", "failed"},
         acts' \in 0..MaxActs
  PROVE  DetailsInv' /\ Acts
  <1>1. TypeOK'
    BY DEF DetailsInv, TypeOK, parts
  <1>2. PartsAgree'
    BY PartsKept DEF DetailsInv
  <1>3. KeepsUp'
    BY DEF DetailsInv, KeepsUp, Current, parts
  <1>4. UploadSound' /\ OpenIfBusy'
    BY DEF DetailsInv, UploadSound, OpenIfBusy, parts
  <1>5. Acts
    BY DEF Acts, FilesGoToTheChosen, NothingReplacedUnseen, DeletedStaysGone
  <1> QED
    BY <1>1, <1>2, <1>3, <1>4, <1>5 DEF DetailsInv

\* The user commits: an event is on its way, whatever the view makes of it.
LEMMA CommitStep ==
  ASSUME DetailsInv, view = "open",
         NEW r \in Rows, row' = r, (r.assignment = 0 <=> r.assignee = None),
         underway' = underway \cup {"change"},
         timer' \in {None, timer}, busy' \in Refreshes \cup {None},
         busy' # None => view' = "open", view' \in {"open", "left", "deleted"},
         loaded' = loaded, header' = header, banner' = banner,
         attach' \in Panels, tab' \in Tabs, PartsAgree',
         dialog' = None \/ (dialog' = dialog /\ tab'.selected \in {None, tab.selected}),
         told' \in {"none", "done", "failed"}, torn' \in BOOLEAN,
         changes' = changes, acts' \in 0..MaxActs, reconnects' = reconnects,
         fails' \in 0..MaxFails,
         \A q \in Quotes : r.quotes[q].files # row.quotes[q].files => dialog.for = q,
         r.assignment # row.assignment => loaded.assignment = row.assignment
  PROVE  DetailsInv' /\ Acts
  <1>1. TypeOK'
    BY DEF DetailsInv, TypeOK
  <1>2. KeepsUp'
    BY DEF KeepsUp
  <1>3. UploadSound' /\ OpenIfBusy'
    BY DEF DetailsInv, UploadSound, OpenIfBusy
  <1>4. Acts
    BY DEF Acts, FilesGoToTheChosen, NothingReplacedUnseen, DeletedStaysGone
  <1> QED
    BY <1>1, <1>2, <1>3, <1>4 DEF DetailsInv

-----------------------------------------------------------------------------
(* Other clients, events and refreshes.                                    *)

\* A change of another client sends an event, or is one that Read does not show.
LEMMA ForeignChange ==
  ASSUME DetailsInv, NEW r \in Rows, Change(r), (r.assignment = 0 <=> r.assignee = None),
         \/ underway' = underway \cup {"change"}
         \/ /\ underway' = underway /\ Read(r) = Read(row) /\ r.exists = row.exists
            /\ r.quotes = row.quotes /\ r.attachments = row.attachments
            /\ LockShown(r) = "available"
  PROVE  DetailsInv' /\ Acts
  <1>1. /\ row' = r /\ changes' = changes + 1 /\ changes' \in 0..MaxChanges
        /\ UNCHANGED <<timer, busy, view, loaded, header, banner, attach, tab, dialog, told,
                       torn, acts, reconnects, fails>>
    BY DetailsAssumption DEF Change, parts, DetailsInv, TypeOK
  <1>2. TypeOK'
    BY <1>1 DEF DetailsInv, TypeOK
  <1>3. PartsAgree'
    BY <1>1, PartsKept DEF DetailsInv, parts
  <1>4. KeepsUp'
    BY <1>1 DEF DetailsInv, KeepsUp, Current
  <1>5. UploadSound' /\ OpenIfBusy'
    BY <1>1 DEF DetailsInv, UploadSound, OpenIfBusy
  <1>6. changes' # changes
    BY <1>1 DEF DetailsInv, TypeOK
  <1>7. Acts
    BY <1>1, <1>6 DEF Acts, FilesGoToTheChosen, NothingReplacedUnseen, DeletedStaysGone, parts
  <1> QED
    BY <1>2, <1>3, <1>4, <1>5, <1>7 DEF DetailsInv

\* A row that somebody has or nobody.
Fine(r) == r \in Rows /\ (r.assignment = 0 <=> r.assignee = None)

LEMMA OthersCommitSound ==
  ASSUME DetailsInv, OthersCommit
  PROVE  DetailsInv' /\ Acts
  <1>1. underway' = underway \cup {"change"}
    BY DEF OthersCommit, Send
  <1>2. Fine(row)
    BY DEF DetailsInv, TypeOK, Fine
  <1>3. Other \in Others /\ None \notin Users
    BY DetailsAssumption DEF Other
  <1>4. \E r : Change(r) /\ Fine(r)
    <2>1. \A u \in Others \cup {Me} : Fine([row EXCEPT !.assignment = @ + 1, !.assignee = u])
      <3> SUFFICES ASSUME NEW u \in Others \cup {Me}
                   PROVE  Fine([row EXCEPT !.assignment = @ + 1, !.assignee = u])
        OBVIOUS
      <3> DEFINE r == [row EXCEPT !.assignment = @ + 1, !.assignee = u]
      <3>1. row.assignment \in Nat /\ u \in Users /\ u # None
        BY <1>2, <1>3 DEF Fine, Rows, Users
      <3>2. r \in Rows
        <4> DEFINE n == row.assignment + 1
        <4>1. n \in Nat
          BY <3>1
        <4>2. r = [row EXCEPT !.assignment = n, !.assignee = u]
          OBVIOUS
        <4> HIDE DEF n
        <4> QED
          BY <1>2, <3>1, <4>1, <4>2 DEF Fine, Rows
      <3>3. r.assignment = row.assignment + 1 /\ r.assignee = u
        BY <1>2 DEF Fine, Rows
      <3> HIDE DEF r
      <3>4. r.assignment # 0 /\ r.assignee # None
        BY <3>1, <3>3
      <3> QED
        BY <3>2, <3>4 DEF Fine, r
    <2>2. /\ Fine([row EXCEPT !.status = "Completed"])
          /\ Fine([row EXCEPT !.status = "Archived", !.holder = None])
          /\ Fine([row EXCEPT !.exists = FALSE])
      BY <1>2 DEF Fine, Rows, Statuses
    <2>3. \A holder \in {None, Other} : Fine([row EXCEPT !.holder = holder])
      BY <1>2, <1>3 DEF Fine, Rows, Users
    <2>4. Fine([row EXCEPT !.attachments = @ \cup {Other}])
      BY <1>2, <1>3 DEF Fine, Rows, Users
    <2>5. \A q \in Quotes : /\ Fine([row EXCEPT !.quotes[q].state = "archived"])
                            /\ Fine([row EXCEPT !.quotes[q].state = "active"])
      BY <1>2, RowState DEF Fine
    <2>6. \A q \in Quotes : Fine([row EXCEPT !.quotes[q].files = @ + 1])
      <3> SUFFICES ASSUME NEW q \in Quotes
                   PROVE  Fine([row EXCEPT !.quotes[q].files = @ + 1])
        OBVIOUS
      <3>1. row.quotes[q].files + 1 \in Nat
        BY <1>2, RowFields DEF Fine
      <3>2. Fine([row EXCEPT !.quotes[q].files = row.quotes[q].files + 1])
        BY <1>2, <3>1, RowFiles DEF Fine
      <3> QED
        BY <3>2
    <2> QED
      BY <2>1, <2>2, <2>3, <2>4, <2>5, <2>6, Zenon DEF OthersCommit
  <1> QED
    BY <1>1, <1>4, ForeignChange DEF Fine

LEMMA LockExpiresSound ==
  ASSUME DetailsInv, LockExpires
  PROVE  DetailsInv' /\ Acts
  <1> DEFINE r == [row EXCEPT !.holder = None]
  <1>1. row \in Rows /\ (row.assignment = 0 <=> row.assignee = None)
    BY DEF DetailsInv, TypeOK
  <1>2. r \in Rows /\ r.exists = row.exists /\ r.status = row.status /\ r.holder = None
        /\ r.assignment = row.assignment /\ r.assignee = row.assignee
        /\ r.quotes = row.quotes /\ r.attachments = row.attachments
    BY <1>1 DEF Rows
  <1>3. Change(r) /\ row.exists /\ underway' = underway
    BY DEF LockExpires, Change
  <1> HIDE DEF r
  <1>4. Read(r) = Read(row)
    BY <1>2 DEF Read
  <1>5. LockShown(r) = "available"
    BY <1>2, <1>3, DetailsAssumption DEF LockShown, Users
  <1> QED
    BY <1>1, <1>2, <1>3, <1>4, <1>5, ForeignChange

LEMMA ReconnectSound ==
  ASSUME DetailsInv, Reconnect
  PROVE  DetailsInv' /\ Acts
  <1>1. /\ underway' = underway \cup {"reconcile"} /\ reconnects' \in 0..MaxReconnects
        /\ UNCHANGED <<row, timer, busy, view, parts, dialog, told, torn, changes, acts, fails>>
    BY DetailsAssumption DEF Reconnect, Send, DetailsInv, TypeOK
  <1>2. TypeOK' /\ KeepsUp' /\ UploadSound' /\ OpenIfBusy'
    BY <1>1 DEF DetailsInv, TypeOK, KeepsUp, UploadSound, OpenIfBusy, parts
  <1>3. PartsAgree'
    BY <1>1, PartsKept DEF DetailsInv
  <1>4. Acts
    BY <1>1 DEF Acts, FilesGoToTheChosen, NothingReplacedUnseen, DeletedStaysGone
  <1> QED
    BY <1>2, <1>3, <1>4 DEF DetailsInv

LEMMA DeliverSound ==
  ASSUME DetailsInv, NEW kind \in {"change", "reconcile"}, Deliver(kind)
  PROVE  DetailsInv' /\ Acts
  <1>1. /\ view = "open" /\ underway' = underway \ {kind} /\ timer' = kind /\ kind # None
        /\ UNCHANGED <<row, busy, view, parts, dialog, told, torn, counters>>
    BY DetailsAssumption DEF Deliver, Free
  <1>2. TypeOK' /\ KeepsUp' /\ UploadSound' /\ OpenIfBusy'
    BY <1>1 DEF DetailsInv, TypeOK, KeepsUp, UploadSound, OpenIfBusy, parts, counters
  <1>3. PartsAgree'
    BY <1>1, PartsKept DEF DetailsInv
  <1>4. Acts
    BY <1>1 DEF Acts, FilesGoToTheChosen, NothingReplacedUnseen, DeletedStaysGone
  <1> QED
    BY <1>2, <1>3, <1>4 DEF DetailsInv

LEMMA StartRefreshSound ==
  ASSUME DetailsInv, StartRefresh
  PROVE  DetailsInv' /\ Acts
  <1>1. /\ view = "open" /\ timer' = None
        /\ busy' = [kind |-> timer, rec |-> Read(row), own |-> FALSE]
        /\ timer \in {"change", "reconcile"}
        /\ UNCHANGED <<row, underway, view, parts, dialog, told, torn, counters>>
    BY DEF StartRefresh, Free, DetailsInv, TypeOK
  <1>2. busy' \in Refreshes /\ busy' # None /\ busy'.rec = Read(row)
    <2>1. Read(row) \in Record \cup {None}
      BY ReadTyped DEF DetailsInv, TypeOK
    <2>2. busy' \in Refreshes
      BY <1>1, <2>1 DEF Refreshes
    <2> QED
      BY <1>1, <2>2, DetailsAssumption
  <1>3. TypeOK' /\ UploadSound' /\ OpenIfBusy'
    BY <1>1, <1>2 DEF DetailsInv, TypeOK, UploadSound, OpenIfBusy, parts, counters
  <1>4. KeepsUp'
    BY <1>1, <1>2 DEF KeepsUp, parts
  <1>5. PartsAgree'
    BY <1>1, PartsKept DEF DetailsInv
  <1>6. Acts
    BY <1>1 DEF Acts, FilesGoToTheChosen, NothingReplacedUnseen, DeletedStaysGone
  <1> QED
    BY <1>3, <1>4, <1>5, <1>6 DEF DetailsInv

\* The end of a refresh: what it read first and what it reads now.
LEMMA RefreshEnds ==
  ASSUME DetailsInv, busy # None, NEW ok \in BOOLEAN, ok \/ fails < MaxFails, Failed(ok),
         torn' = ~ok, loaded' = busy.rec, banner' = LockShown(row),
         header' = Header(busy.rec, banner'),
         attach' \in Panels, attach'.list = row.attachments,
         tab' \in Tabs, tab'.can = (~Archived(busy.rec) /\ CanManage(busy.rec)),
         tab'.archived = Archived(busy.rec), tab'.quotes = Listed(ok, row),
         tab'.selected = None, tab'.files = 0, ~tab'.listed,
         dialog' \in Dialogs \cup {None}, told' \in {"none", "done", "failed"}, busy' = None,
         UNCHANGED <<row, underway, timer, view, changes, acts, reconnects>>
  PROVE  DetailsInv' /\ Acts
  <1>1. view = "open" /\ busy.rec \in Record \cup {None} /\ row \in Rows
    BY DEF DetailsInv, TypeOK, OpenIfBusy, Refreshes
  <1>2. header' \in Headers /\ banner' \in {"available", "me", "other", "error"}
    <2>1. row.attachments \in SUBSET Users /\ row.quotes \in Quotations
      BY <1>1, RowFields
    <2> QED
      BY <1>1, <2>1, BuiltTyped, ReadTyped
  <1>3. fails' \in 0..MaxFails
    BY DetailsAssumption DEF Failed, DetailsInv, TypeOK
  <1>4. TypeOK'
    BY <1>1, <1>2, <1>3 DEF DetailsInv, TypeOK
  <1>5. PartsAgree'
    BY <1>1, BuiltAgrees
  <1>6. KeepsUp'
    BY <1>1 DEF DetailsInv, KeepsUp, Current, Listed
  <1>7. UploadSound' /\ OpenIfBusy'
    BY DEF UploadSound, OpenIfBusy
  <1>8. Acts
    BY <1>1 DEF Acts, FilesGoToTheChosen, NothingReplacedUnseen, DeletedStaysGone
  <1> QED
    BY <1>4, <1>5, <1>6, <1>7, <1>8 DEF DetailsInv

\* The lists a refresh reads.
LEMMA ListedTyped ==
  ASSUME NEW r \in Rows, NEW ok \in BOOLEAN
  PROVE  Listed(ok, r) \in Quotations
  <1>1. NoQuotes \in Quotations
    BY DEF NoQuotes, Quotations
  <1>2. r.quotes \in Quotations
    BY RowFields
  <1> QED
    BY <1>1, <1>2 DEF Listed

LEMMA IncrementalSound ==
  ASSUME DetailsInv, Incremental
  PROVE  DetailsInv' /\ Acts
  <1>1. PICK ok \in BOOLEAN : /\ ok \/ fails < MaxFails
                              /\ Failed(ok) /\ torn' = ~ok /\ Again(busy.rec, ok)
    BY DEF Incremental
  <1>2. /\ busy # None /\ busy' = None
        /\ dialog' \in Dialogs \cup {None} /\ told' \in {"none", "done", "failed"}
        /\ UNCHANGED <<row, underway, timer, view, changes, acts, reconnects>>
    BY DEF Incremental, Tell, DetailsInv, TypeOK
  <1>3. busy.rec \in Record \cup {None} /\ row \in Rows /\ tab \in Tabs /\ attach \in Panels
    BY <1>2 DEF DetailsInv, TypeOK, Refreshes
  <1>4. row.attachments \in SUBSET Users /\ Listed(ok, row) \in Quotations
    BY <1>3, RowFields, ListedTyped
  <1>5. attach' \in Panels /\ attach'.list = row.attachments
    <2>1. attach' = PanelAgain(attach, row.attachments)
      BY <1>1 DEF Again
    <2> QED
      BY <1>3, <1>4, <2>1 DEF PanelAgain, Panels
  <1>6. /\ tab' \in Tabs /\ tab'.can = (~Archived(busy.rec) /\ CanManage(busy.rec))
        /\ tab'.archived = Archived(busy.rec) /\ tab'.quotes = Listed(ok, row)
        /\ tab'.selected = None /\ tab'.files = 0 /\ ~tab'.listed
    <2> DEFINE t == SetPermissions(tab, busy.rec)
    <2>1. t \in Tabs
      BY <1>3, <1>4, UpdatedTyped
    <2>2. t.can = (~Archived(busy.rec) /\ CanManage(busy.rec))
          /\ t.archived = Archived(busy.rec)
      BY <1>3 DEF SetPermissions, Tabs
    <2>3. tab' = SetQuotes(t, Listed(ok, row))
      BY <1>1 DEF Again
    <2> HIDE DEF t
    <2>4. tab' \in Tabs
      BY <1>3, <1>4, <2>1, <2>3, UpdatedTyped
    <2> QED
      BY <2>1, <2>2, <2>3, <2>4 DEF SetQuotes, Tabs
  <1>7. loaded' = busy.rec /\ banner' = LockShown(row) /\ header' = Header(busy.rec, banner')
    BY <1>1 DEF Again
  <1> QED
    BY <1>1, <1>2, <1>5, <1>6, <1>7, RefreshEnds

LEMMA RebuildSound ==
  ASSUME DetailsInv, Rebuild
  PROVE  DetailsInv' /\ Acts
  <1>1. PICK ok \in BOOLEAN : /\ ok \/ fails < MaxFails
                              /\ Failed(ok) /\ torn' = ~ok
                              /\ tab' = NewTab(busy.rec, Listed(ok, row))
    BY DEF Rebuild
  <1>2. /\ busy # None /\ busy' = None /\ loaded' = busy.rec /\ banner' = LockShown(row)
        /\ header' = Header(busy.rec, banner') /\ told' \in {"none", "done", "failed"}
        /\ attach' = NewPanel(busy.rec, row.attachments)
        /\ UNCHANGED <<row, underway, timer, view, changes, acts, reconnects>>
    BY DEF Rebuild, DetailsInv, TypeOK
  <1>3. busy.rec \in Record \cup {None} /\ row \in Rows
    BY <1>2 DEF DetailsInv, TypeOK, Refreshes
  <1>4. row.attachments \in SUBSET Users /\ Listed(ok, row) \in Quotations
    BY <1>3, RowFields, ListedTyped
  <1>5. attach' \in Panels /\ attach'.list = row.attachments
    <2>1. attach' \in Panels
      BY <1>2, <1>3, <1>4, BuiltTyped
    <2> QED
      BY <1>2, <2>1 DEF NewPanel
  <1>6. /\ tab' \in Tabs /\ tab'.can = (~Archived(busy.rec) /\ CanManage(busy.rec))
        /\ tab'.archived = Archived(busy.rec) /\ tab'.quotes = Listed(ok, row)
        /\ tab'.selected = None /\ tab'.files = 0 /\ ~tab'.listed
    <2>1. tab' \in Tabs
      BY <1>1, <1>3, <1>4, BuiltTyped
    <2> QED
      BY <1>1, <2>1 DEF NewTab
  <1>7. dialog' \in Dialogs \cup {None}
    BY DEF Rebuild, Orphaned, DetailsInv, TypeOK, Dialogs
  <1> QED
    BY <1>1, <1>2, <1>5, <1>6, <1>7, RefreshEnds

LEMMA RefreshFailsSound ==
  ASSUME DetailsInv, RefreshFails
  PROVE  DetailsInv' /\ Acts
  <1>1. /\ busy # None /\ busy' = None /\ torn' = TRUE /\ fails' \in 0..MaxFails
        /\ told' \in {"none", "done", "failed"}
        /\ loaded' \in {busy.rec, loaded}
        /\ UNCHANGED <<row, underway, timer, view, header, banner, attach, tab,
                       dialog, changes, acts, reconnects>>
    BY DetailsAssumption DEF RefreshFails, Tell, DetailsInv, TypeOK
  <1>2. view = "open" /\ loaded' \in Record \cup {None}
    BY <1>1 DEF DetailsInv, TypeOK, OpenIfBusy, Refreshes
  <1>3. TypeOK'
    BY <1>1, <1>2 DEF DetailsInv, TypeOK
  <1>4. PartsAgree'
    BY <1>1 DEF DetailsInv, PartsAgree, OneRecordIsShown, FilesAreCounted, Visible
  <1>5. KeepsUp' /\ UploadSound' /\ OpenIfBusy'
    BY <1>1 DEF DetailsInv, KeepsUp, UploadSound, OpenIfBusy
  <1>6. Acts
    BY <1>1, <1>2 DEF Acts, FilesGoToTheChosen, NothingReplacedUnseen, DeletedStaysGone
  <1> QED
    BY <1>3, <1>4, <1>5, <1>6 DEF DetailsInv

-----------------------------------------------------------------------------
(* The user opens dialogs, and looks at quotations.                        *)

LEMMA ClickFacts ==
  ASSUME DetailsInv, Click
  PROVE  view = "open" /\ busy = None /\ dialog = None /\ acts' \in 0..MaxActs
  BY DetailsAssumption DEF Click, Free, DetailsInv, TypeOK

LEMMA OpenSound ==
  ASSUME DetailsInv, Click, NEW kind, NEW q, Open(kind, q),
         [kind |-> kind, for |-> q, gone |-> FALSE] \in Dialogs,
         kind = "upload" => q = tab.selected
  PROVE  DetailsInv' /\ Acts
  <1>1. dialog' = [kind |-> kind, for |-> q, gone |-> FALSE]
        /\ UNCHANGED <<row, underway, timer, busy, view, parts, told, torn, changes,
                       reconnects, fails>>
    BY DEF Open
  <1>2. view = "open" /\ busy = None /\ acts' \in 0..MaxActs /\ told \in {"none", "done", "failed"}
    BY ClickFacts DEF DetailsInv, TypeOK
  <1> QED
    BY <1>1, <1>2, DialogStep

LEMMA OpeningSound ==
  ASSUME DetailsInv,
         \/ OpenAssign \/ AskArchive \/ AskRestore \/ AskDelete
         \/ OpenNewQuotation \/ AskArchiveQuotation \/ ChooseFilesInView
         \/ ChooseFilesInPanel \/ AskDeleteFile \/ ChooseAttachment
         \/ AskDeleteAttachment
  PROVE  DetailsInv' /\ Acts
  <1>1. ASSUME NEW kind \in (Native \ QuoteDialogs) \cup {"assign", "new quotation"},
               Click, Open(kind, None)
        PROVE  DetailsInv' /\ Acts
    <2>1. [kind |-> kind, for |-> None, gone |-> FALSE] \in Dialogs
      BY DEF Dialogs
    <2> QED
      BY <1>1, <2>1, OpenSound DEF QuoteDialogs
  <1>2. ASSUME NEW kind \in QuoteDialogs, Click, Selected("active"), Open(kind, tab.selected)
        PROVE  DetailsInv' /\ Acts
    <2>1. tab.selected \in Quotes
      BY <1>2 DEF Selected, DetailsInv, TypeOK, Tabs
    <2>2. [kind |-> kind, for |-> tab.selected, gone |-> FALSE] \in Dialogs
      BY <2>1 DEF Dialogs
    <2> QED
      BY <1>2, <2>2, OpenSound
  <1>3. CASE \/ OpenAssign \/ AskArchive \/ AskRestore \/ AskDelete
             \/ OpenNewQuotation \/ ChooseAttachment
    BY <1>1, <1>3 DEF OpenAssign, AskArchive, AskRestore, AskDelete, OpenNewQuotation,
       ChooseAttachment, Native, QuoteDialogs
  <1>4. CASE \/ AskArchiveQuotation \/ ChooseFilesInView \/ ChooseFilesInPanel
             \/ AskDeleteFile
    BY <1>2, <1>4 DEF AskArchiveQuotation, ChooseFilesInView, ChooseFilesInPanel,
       AskDeleteFile, PanelMayModify, QuoteDialogs
  <1>5. CASE AskDeleteAttachment
    <2>1. PICK by \in attach.list : Open("detach", by)
      BY <1>5 DEF AskDeleteAttachment
    <2>2. by \in Users
      BY DEF DetailsInv, TypeOK, Panels
    <2>3. [kind |-> "detach", for |-> by, gone |-> FALSE] \in Dialogs
      BY <2>2 DEF Dialogs, Native, QuoteDialogs
    <2> QED
      BY <1>5, <2>1, <2>3, OpenSound DEF AskDeleteAttachment
  <1> QED
    BY <1>3, <1>4, <1>5

LEMMA LeaveSound ==
  ASSUME DetailsInv, Leave \/ Cancel
  PROVE  DetailsInv' /\ Acts
  <1>1. CASE Leave
    <2>1. /\ view' = "left" /\ dialog' = dialog /\ told' = told
          /\ UNCHANGED <<row, underway, timer, busy, parts, torn, changes, reconnects, fails>>
      BY <1>1 DEF Leave
    <2>2. Click
      BY <1>1 DEF Leave
    <2>3. view = "open" /\ busy = None /\ acts' \in 0..MaxActs
          /\ told \in {"none", "done", "failed"} /\ dialog \in Dialogs \cup {None}
      BY <2>2, ClickFacts DEF DetailsInv, TypeOK
    <2> QED
      BY <2>1, <2>3, DialogStep
  <1>2. CASE Cancel
    <2>1. /\ dialog' = None
          /\ UNCHANGED <<row, underway, timer, busy, parts, torn, changes, reconnects, fails>>
          /\ view = "open" /\ busy = None /\ view' = view /\ told' = told /\ acts' = acts
      BY <1>2 DEF Cancel, Free, counters
    <2>2. told \in {"none", "done", "failed"} /\ acts \in 0..MaxActs
      BY DEF DetailsInv, TypeOK
    <2> QED
      BY <2>1, <2>2, DialogStep
  <1> QED
    BY <1>1, <1>2

\* An answer that the service refuses.
LEMMA RefusedSound ==
  ASSUME DetailsInv, Free, Refused
  PROVE  DetailsInv' /\ Acts
  <1>1. /\ dialog' \in {None, dialog} /\ told' = "failed"
        /\ UNCHANGED <<row, underway, timer, busy, parts, torn, changes, reconnects, fails>>
        /\ view = "open" /\ busy = None /\ view' = view /\ acts' = acts
    BY DEF Refused, Free, Tell, counters
  <1>2. acts \in 0..MaxActs /\ dialog' \in Dialogs \cup {None}
    BY <1>1 DEF DetailsInv, TypeOK
  <1> QED
    BY <1>1, <1>2, DialogStep

\* The user looks at quotations: the tab has the quotations it had, with files
\* that were counted again.
LEMMA LookSound ==
  ASSUME DetailsInv, Click, tab' \in Tabs, FilesAreCounted',
         tab'.can = tab.can, tab'.archived = tab.archived,
         tab.quotes = row.quotes => tab'.quotes = tab.quotes,
         fails' \in 0..MaxFails,
         UNCHANGED <<row, underway, timer, busy, view, loaded, header, banner,
                     attach, dialog, told, torn, changes, reconnects>>
  PROVE  DetailsInv' /\ Acts
  <1>1. view = "open" /\ busy = None /\ dialog = None /\ acts' \in 0..MaxActs
    BY ClickFacts
  <1>2. TypeOK'
    BY <1>1 DEF DetailsInv, TypeOK
  <1>3. PartsAgree'
    BY DEF DetailsInv, PartsAgree, OneRecordIsShown, MayManage
  <1>4. KeepsUp' /\ UploadSound' /\ OpenIfBusy'
    BY <1>1 DEF DetailsInv, KeepsUp, Current, UploadSound, OpenIfBusy
  <1>5. Acts
    BY <1>1 DEF Acts, FilesGoToTheChosen, NothingReplacedUnseen, DeletedStaysGone
  <1> QED
    BY <1>2, <1>3, <1>4, <1>5 DEF DetailsInv

LEMMA FilterSound ==
  ASSUME DetailsInv, NEW kind \in {"All", "Active"}, Filter(kind)
  PROVE  DetailsInv' /\ Acts
  <1>1. tab \in Tabs /\ tab.quotes \in Quotations
    BY DEF DetailsInv, TypeOK, Tabs
  <1>2. /\ tab' \in Tabs /\ tab'.can = tab.can /\ tab'.archived = tab.archived
        /\ tab'.quotes = tab.quotes
        /\ tab'.selected = None /\ tab'.files = 0 /\ tab'.listed = FALSE
    BY <1>1 DEF Filter, SetQuotes, Tabs
  <1>3. FilesAreCounted'
    BY <1>2 DEF FilesAreCounted
  <1> QED
    BY <1>2, <1>3, LookSound DEF Filter, DetailsInv, TypeOK

LEMMA SelectSound ==
  ASSUME DetailsInv, NEW q \in Quotes, Select(q)
  PROVE  DetailsInv' /\ Acts
  <1>1. PICK ok \in BOOLEAN :
          /\ ok \/ fails < MaxFails
          /\ Failed(ok)
          /\ tab' = [tab EXCEPT
               !.selected = q,
               !.files = IF ok THEN row.quotes[q].files ELSE 0,
               !.listed = ok,
               !.quotes[q].files = IF ok THEN row.quotes[q].files ELSE @]
    BY DEF Select
  <1>2. tab \in Tabs /\ tab.quotes \in Quotations /\ row.quotes \in Quotations
    BY RowFields DEF DetailsInv, TypeOK, Tabs
  <1>3. tab.quotes[q].files \in Nat /\ row.quotes[q].files \in Nat
    BY <1>2 DEF Quotations
  <1> DEFINE n == IF ok THEN row.quotes[q].files ELSE tab.quotes[q].files
             f == IF ok THEN row.quotes[q].files ELSE 0
             qs == [tab.quotes EXCEPT ![q].files = n]
  <1>4. tab' = [tab EXCEPT !.selected = q, !.files = f, !.listed = ok, !.quotes = qs]
    BY <1>1, <1>2 DEF Tabs
  <1>5. n \in Nat /\ f \in Nat
    BY <1>3
  <1>6. /\ qs \in Quotations /\ qs[q].files = n /\ qs[q].state = tab.quotes[q].state
        /\ tab.quotes = row.quotes => qs = tab.quotes
    <2>1. tab.quotes = row.quotes => n = tab.quotes[q].files
      OBVIOUS
    <2> HIDE DEF n
    <2>2. /\ qs \in Quotations /\ qs[q].files = n
          /\ \A p \in Quotes : qs[p].state = tab.quotes[p].state
      BY <1>2, <1>5, QuoteFiles
    <2>3. n = tab.quotes[q].files => qs = tab.quotes
      BY <1>2 DEF Quotations
    <2> QED
      BY <2>1, <2>2, <2>3
  <1>7. n = f \/ ~ok
    OBVIOUS
  <1> HIDE DEF n, f, qs
  <1>8. /\ tab' \in Tabs /\ tab'.can = tab.can /\ tab'.archived = tab.archived
        /\ tab'.selected = q /\ tab'.files = f /\ tab'.listed = ok /\ tab'.quotes = qs
        /\ tab'.filter = tab.filter
    BY <1>2, <1>4, <1>5, <1>6 DEF Tabs
  <1>9. FilesAreCounted'
    <2>1. Visible(tab, q) /\ q # None
      BY DetailsAssumption DEF Select
    <2> QED
      BY <1>6, <1>7, <1>8, <2>1 DEF FilesAreCounted, Visible
  <1>10. fails' \in 0..MaxFails
    BY <1>1, DetailsAssumption DEF Failed, DetailsInv, TypeOK
  <1> QED
    BY <1>6, <1>8, <1>9, <1>10, LookSound DEF Select

-----------------------------------------------------------------------------
(* The user's answers.                                                     *)

LEMMA AnsweredFacts ==
  ASSUME DetailsInv, NEW kind, Answered(kind)
  PROVE  /\ Free /\ view = "open" /\ busy = None /\ dialog \in Dialogs /\ dialog.kind = kind
         /\ row \in Rows /\ (row.assignment = 0 <=> row.assignee = None)
         /\ kind \in QuoteDialogs => dialog.for \in Quotes
         /\ attach \in Panels /\ tab \in Tabs /\ torn \in BOOLEAN
         /\ acts \in 0..MaxActs /\ fails \in 0..MaxFails
         /\ told \in {"none", "done", "failed"}
  <1>1. Free /\ view = "open" /\ busy = None /\ dialog \in Dialogs /\ dialog.kind = kind
    BY DEF Answered, Free, DetailsInv, TypeOK
  <1>2. kind \in QuoteDialogs => dialog.for \in Quotes
    <2>1. kind \in QuoteDialogs => kind \notin (Native \ QuoteDialogs) \cup {"assign", "new quotation"}
      BY DEF QuoteDialogs
    <2> HIDE DEF Native, QuoteDialogs
    <2> QED
      BY <1>1, <2>1 DEF Dialogs
  <1>3. /\ row \in Rows /\ (row.assignment = 0 <=> row.assignee = None)
        /\ attach \in Panels /\ tab \in Tabs /\ torn \in BOOLEAN
        /\ acts \in 0..MaxActs /\ fails \in 0..MaxFails
        /\ told \in {"none", "done", "failed"}
    BY DEF DetailsInv, TypeOK
  <1> QED
    BY <1>1, <1>2, <1>3

\* Changes of the row that leave its assignment and the files of quotations.
LEMMA RowColumns ==
  ASSUME NEW r \in Rows
  PROVE  /\ LET new == [r EXCEPT !.status = "Archived", !.holder = None]
            IN  new \in Rows /\ new.assignment = r.assignment /\ new.assignee = r.assignee
                /\ new.quotes = r.quotes
         /\ LET new == [r EXCEPT !.status = "Completed"]
            IN  new \in Rows /\ new.assignment = r.assignment /\ new.assignee = r.assignee
                /\ new.quotes = r.quotes
         /\ LET new == [r EXCEPT !.exists = FALSE]
            IN  new \in Rows /\ new.assignment = r.assignment /\ new.assignee = r.assignee
                /\ new.quotes = r.quotes
  BY DEF Rows, Statuses

LEMMA RowAttachments ==
  ASSUME NEW r \in Rows, NEW list \in SUBSET Users
  PROVE  LET new == [r EXCEPT !.attachments = list]
         IN  new \in Rows /\ new.assignment = r.assignment /\ new.assignee = r.assignee
             /\ new.quotes = r.quotes /\ new.attachments = list
  BY DEF Rows

\* The view goes back to the list.
LEMMA GoBackSound ==
  ASSUME DetailsInv, view = "open", busy = None,
         NEW r \in Rows, row' = r, r.assignment = row.assignment, r.assignee = row.assignee,
         r.quotes = row.quotes, underway' = underway \cup {"change"},
         NEW how \in {"left", "deleted"}, GoBack(how)
  PROVE  DetailsInv' /\ Acts
  <1>1. /\ view' = how /\ dialog' = None /\ timer' = None /\ told' = "done"
        /\ UNCHANGED <<busy, loaded, header, banner, attach, tab, torn, changes, acts,
                       reconnects, fails>>
    BY DEF GoBack, Tell, parts, counters
  <1>2. PartsAgree'
    BY <1>1, PartsKept DEF DetailsInv, parts
  <1> QED
    BY <1>1, <1>2, CommitStep DEF DetailsInv, TypeOK

LEMMA ArchiveSound ==
  ASSUME DetailsInv, Archive \/ Restore \/ Delete
  PROVE  DetailsInv' /\ Acts
  <1>1. Free /\ view = "open" /\ busy = None /\ row \in Rows
    BY AnsweredFacts DEF Archive, Restore, Delete
  <1>2. CASE Refused
    BY <1>1, <1>2, RefusedSound
  <1>3. ASSUME NEW r, NEW how \in {"left", "deleted"}, Commit(r), GoBack(how),
               r \in Rows /\ r.assignment = row.assignment /\ r.assignee = row.assignee
                 /\ r.quotes = row.quotes
        PROVE  DetailsInv' /\ Acts
    BY <1>1, <1>3, GoBackSound DEF Commit, Send
  <1> QED
    BY <1>1, <1>2, <1>3, RowColumns DEF Archive, Restore, Delete

LEMMA AssignSound ==
  ASSUME DetailsInv, NEW u \in Others \cup {Me}, Assign(u)
  PROVE  DetailsInv' /\ Acts
  <1>1. /\ Free /\ view = "open" /\ busy = None /\ row \in Rows /\ dialog \in Dialogs
        /\ attach \in Panels /\ tab \in Tabs /\ torn \in BOOLEAN
        /\ acts \in 0..MaxActs /\ fails \in 0..MaxFails
        /\ told \in {"none", "done", "failed"}
    BY AnsweredFacts DEF Assign
  <1>2. CASE Refused
    BY <1>1, <1>2, RefusedSound
  <1>3. CASE ~Refused
    <2> DEFINE r == [row EXCEPT !.assignment = @ + 1, !.assignee = u]
    <2>1. /\ row' = r /\ underway' = underway \cup {"change"}
          /\ busy' = [kind |-> "change", rec |-> Read(row'), own |-> TRUE]
          /\ UNCHANGED <<timer, view, loaded, header, banner, attach, tab, dialog, told,
                         torn, changes, acts, reconnects, fails>>
          /\ row.assignment = loaded.assignment
      BY <1>3 DEF Assign, Commit, Send, parts, counters
    <2>2. u \in Users /\ u # None
      BY DetailsAssumption DEF Users
    <2>3. r \in Rows /\ r.assignment # 0 /\ r.assignee # None /\ r.quotes = row.quotes
      <3> DEFINE n == row.assignment + 1
      <3>1. n \in Nat /\ n # 0
        BY <1>1, RowFields
      <3>2. r = [row EXCEPT !.assignment = n, !.assignee = u]
        OBVIOUS
      <3> HIDE DEF n, r
      <3>3. r \in Rows
        BY <1>1, <2>2, <3>1, <3>2 DEF Rows
      <3>4. r.assignment = n /\ r.assignee = u /\ r.quotes = row.quotes
        BY <1>1, <3>2 DEF Rows
      <3> QED
        BY <2>2, <3>1, <3>3, <3>4
    <2> HIDE DEF r
    <2>4. busy' \in Refreshes \cup {None}
      BY <2>1, <2>3, ReadTyped DEF Refreshes
    <2>5. PartsAgree'
      BY <2>1, PartsKept DEF DetailsInv, parts
    <2> QED
      BY <1>1, <2>1, <2>3, <2>4, <2>5, CommitStep
  <1> QED
    BY <1>2, <1>3

\* The quotations are listed again after a commit.
LEMMA RelistedSound ==
  ASSUME DetailsInv, view = "open", busy = None,
         NEW r \in Rows, row' = r, r.assignment = row.assignment, r.assignee = row.assignee,
         \A q \in Quotes : r.quotes[q].files # row.quotes[q].files => dialog.for = q,
         underway' = underway \cup {"change"}, Relisted
  PROVE  DetailsInv' /\ Acts
  <1>1. PICK ok \in BOOLEAN :
          /\ ok \/ fails < MaxFails
          /\ Failed(ok)
          /\ tab' = IF ok THEN SetQuotes(tab, row'.quotes) ELSE tab
          /\ torn' = (torn \/ ~ok)
    BY DEF Relisted
  <1>2. /\ dialog' = None /\ told' = "done"
        /\ UNCHANGED <<timer, busy, view, loaded, header, banner, attach, changes, acts,
                       reconnects>>
    BY DEF Relisted, Tell
  <1>3. tab \in Tabs /\ r.quotes \in Quotations
    BY RowFields DEF DetailsInv, TypeOK
  <1>4. tab' \in Tabs /\ PartsAgree'
    <2>1. CASE ok
      <3>1. tab' = SetQuotes(tab, r.quotes)
        BY <1>1, <2>1
      <3>2. tab' \in Tabs
        BY <1>3, <3>1 DEF SetQuotes, Tabs
      <3> QED
        BY <1>1, <1>2, <1>3, <3>1, <3>2, ListAgrees DEF DetailsInv
    <2>2. CASE ~ok
      BY <1>1, <1>2, <1>3, <2>2, PartsKept DEF DetailsInv, parts
    <2> QED
      BY <2>1, <2>2
  <1>5. fails' \in 0..MaxFails
    BY <1>1, DetailsAssumption DEF Failed, DetailsInv, TypeOK
  <1>6. torn' \in BOOLEAN
    BY <1>1
  <1> QED
    BY <1>2, <1>4, <1>5, <1>6, CommitStep DEF DetailsInv, TypeOK

LEMMA CreateQuotationSound ==
  ASSUME DetailsInv, NEW q \in Quotes, CreateQuotation(q)
  PROVE  DetailsInv' /\ Acts
  <1>1. Free /\ view = "open" /\ busy = None /\ row \in Rows
    BY AnsweredFacts DEF CreateQuotation
  <1>2. CASE Refused
    BY <1>1, <1>2, RefusedSound
  <1>3. CASE Commit([row EXCEPT !.quotes[q].state = "active"]) /\ Relisted
    <2> DEFINE r == [row EXCEPT !.quotes[q].state = "active"]
    <2>1. r \in Rows /\ r.assignment = row.assignment /\ r.assignee = row.assignee
          /\ \A p \in Quotes : r.quotes[p].files = row.quotes[p].files
      BY <1>1, RowState
    <2>2. row' = r /\ underway' = underway \cup {"change"}
      BY <1>3 DEF Commit, Send
    <2> HIDE DEF r
    <2> QED
      BY <1>1, <1>3, <2>1, <2>2, RelistedSound
  <1> QED
    BY <1>2, <1>3 DEF CreateQuotation

LEMMA ArchiveQuotationSound ==
  ASSUME DetailsInv, ArchiveQuotation
  PROVE  DetailsInv' /\ Acts
  <1>1. Free /\ view = "open" /\ busy = None /\ row \in Rows /\ dialog.for \in Quotes
    BY AnsweredFacts DEF ArchiveQuotation, QuoteDialogs
  <1>2. CASE Refused
    BY <1>1, <1>2, RefusedSound
  <1>3. CASE Commit([row EXCEPT !.quotes[dialog.for].state = "archived"]) /\ Relisted
    <2> DEFINE r == [row EXCEPT !.quotes[dialog.for].state = "archived"]
    <2>1. r \in Rows /\ r.assignment = row.assignment /\ r.assignee = row.assignee
          /\ \A p \in Quotes : r.quotes[p].files = row.quotes[p].files
      BY <1>1, RowState
    <2>2. row' = r /\ underway' = underway \cup {"change"}
      BY <1>3 DEF Commit, Send
    <2> HIDE DEF r
    <2> QED
      BY <1>1, <1>3, <2>1, <2>2, RelistedSound
  <1> QED
    BY <1>2, <1>3 DEF ArchiveQuotation

LEMMA RestoreQuotationSound ==
  ASSUME DetailsInv, RestoreQuotation
  PROVE  DetailsInv' /\ Acts
  <1> DEFINE q == tab.selected
             r == [row EXCEPT !.quotes[q].state = "active"]
  <1>1. Click /\ view = "open" /\ busy = None /\ dialog = None /\ acts' \in 0..MaxActs
    BY ClickFacts DEF RestoreQuotation
  <1>2. /\ row \in Rows /\ tab \in Tabs /\ q \in Quotes
        /\ (row.assignment = 0 <=> row.assignee = None)
    BY DEF RestoreQuotation, Selected, DetailsInv, TypeOK, Tabs
  <1> HIDE DEF q
  <1>3. r \in Rows /\ r.assignment = row.assignment /\ r.assignee = row.assignee
        /\ \A p \in Quotes : r.quotes[p].files = row.quotes[p].files
    BY <1>2, RowState
  <1>4. /\ row' = r /\ underway' = underway \cup {"change"}
        /\ tab' = SetQuotes(tab, row'.quotes) /\ told' = "done"
        /\ UNCHANGED <<timer, busy, view, loaded, header, banner, attach, dialog,
                       torn, changes, reconnects, fails>>
    BY DEF RestoreQuotation, Commit, Send, Tell, q
  <1> HIDE DEF r
  <1>5. r.quotes \in Quotations
    BY <1>3, RowFields
  <1>6. tab' \in Tabs
    BY <1>2, <1>4, <1>5 DEF SetQuotes, Tabs
  <1>7. PartsAgree'
    BY <1>2, <1>4, ListAgrees DEF DetailsInv
  <1> QED
    BY <1>1, <1>2, <1>3, <1>4, <1>6, <1>7, CommitStep DEF DetailsInv, TypeOK

LEMMA UploadInViewSound ==
  ASSUME DetailsInv, UploadInView
  PROVE  DetailsInv' /\ Acts
  <1> DEFINE q == dialog.for
             n == row.quotes[q].files + 1
             r == [row EXCEPT !.quotes[q].files = n]
  <1>1. Free /\ view = "open" /\ busy = None /\ row \in Rows /\ q \in Quotes
    BY AnsweredFacts DEF UploadInView, QuoteDialogs
  <1>2. CASE Refused
    BY <1>1, <1>2, RefusedSound
  <1>3. CASE ~Refused
    <2>1. row' = r /\ underway' = underway \cup {"change"} /\ Relisted
      BY <1>1, <1>3, RowFields DEF UploadInView, Commit, Send, Rows, Quotations
    <2>2. n \in Nat
      BY <1>1, RowFields
    <2> HIDE DEF n, q
    <2>3. r \in Rows /\ r.assignment = row.assignment /\ r.assignee = row.assignee
          /\ \A p \in Quotes \ {q} : r.quotes[p] = row.quotes[p]
      BY <1>1, <2>2, RowFiles
    <2> HIDE DEF r
    <2> QED
      BY <1>1, <2>1, <2>3, RelistedSound DEF q
  <1> QED
    BY <1>2, <1>3

\* The panel lists its files, after a commit that changed those of the quotation
\* the dialog is for.
LEMMA PanelListedSound ==
  ASSUME DetailsInv, view = "open", busy = None,
         NEW r \in Rows, row' = r, r.assignment = row.assignment, r.assignee = row.assignee,
         \A p \in Quotes : r.quotes[p].files # row.quotes[p].files => dialog.for = p,
         underway' = underway \cup {"change"},
         NEW q \in Quotes, q = PanelSelection, PanelListed(q)
  PROVE  DetailsInv' /\ Acts
  <1> DEFINE n == r.quotes[q].files
  <1>1. /\ dialog' = None /\ told' \in {"none", "done", "failed"}
        /\ UNCHANGED <<timer, busy, view, loaded, header, banner, attach, torn, changes,
                       acts, reconnects, fails>>
    BY DEF PanelListed, Tell, counters
  <1>2. tab \in Tabs /\ n \in Nat /\ torn \in BOOLEAN /\ acts \in 0..MaxActs
        /\ attach \in Panels /\ busy \in Refreshes \cup {None} /\ fails \in 0..MaxFails
        /\ (row.assignment = 0 <=> row.assignee = None)
    BY RowFields DEF DetailsInv, TypeOK
  <1>3. tab' \in Tabs /\ PartsAgree'
    <2>1. CASE dialog.gone
      <3>1. tab' = tab
        BY <2>1 DEF PanelListed
      <3> QED
        BY <1>1, <1>2, <3>1, PartsKept DEF DetailsInv, parts
    <2>2. CASE ~dialog.gone
      <3> DEFINE qs == [tab.quotes EXCEPT ![q].files = n]
      <3>1. tab.selected = q /\ tab' = [tab EXCEPT !.files = n, !.quotes = qs]
        BY <1>2, <2>2 DEF PanelListed, PanelSelection, Tabs
      <3>2. tab.quotes \in Quotations
        BY <1>2 DEF Tabs
      <3> HIDE DEF n
      <3>3. qs \in Quotations /\ qs[q].files = n /\ qs[q].state = tab.quotes[q].state
        BY <1>2, <3>2, QuoteFiles
      <3> HIDE DEF qs
      <3>4. /\ tab' \in Tabs /\ tab'.can = tab.can /\ tab'.archived = tab.archived
            /\ tab'.selected = q /\ tab'.files = n /\ tab'.listed = tab.listed
            /\ tab'.quotes = qs /\ tab'.filter = tab.filter
        BY <1>2, <3>1, <3>3 DEF Tabs
      <3>5. q # None
        BY DetailsAssumption
      <3>6. FilesAreCounted'
        <4>1. Visible(tab, q)
          BY <3>1, <3>5 DEF DetailsInv, PartsAgree, FilesAreCounted
        <4>2. Visible(tab, q)'
          BY <3>3, <3>4, <4>1 DEF Visible
        <4> QED
          BY <3>3, <3>4, <3>5, <4>2 DEF FilesAreCounted
      <3>7. OneRecordIsShown'
        BY <1>1, <3>4 DEF DetailsInv, PartsAgree, OneRecordIsShown, MayManage
      <3> QED
        BY <3>4, <3>6, <3>7 DEF PartsAgree
    <2> QED
      BY <2>1, <2>2
  <1> QED
    BY <1>1, <1>2, <1>3, CommitStep

LEMMA UploadInPanelSound ==
  ASSUME DetailsInv, UploadInPanel
  PROVE  DetailsInv' /\ Acts
  <1> DEFINE q == PanelSelection
             n == row.quotes[q].files + 1
             r == [row EXCEPT !.quotes[q].files = n]
  <1>1. Free /\ view = "open" /\ busy = None /\ row \in Rows /\ dialog.for \in Quotes
        /\ dialog # None /\ dialog.kind = "upload"
    BY AnsweredFacts DEF UploadInPanel, QuoteDialogs, Answered
  <1>2. CASE Refused
    BY <1>1, <1>2, RefusedSound
  <1>3. CASE ~Refused
    <2>1. q # None /\ row' = [row EXCEPT !.quotes[q].files = @ + 1]
          /\ underway' = underway \cup {"change"} /\ PanelListed(q)
      BY <1>3 DEF UploadInPanel, Commit, Send
    <2>2. q = dialog.for /\ q \in Quotes
      BY <1>1, <2>1 DEF DetailsInv, UploadSound, PanelSelection
    <2>3. n \in Nat
      BY <1>1, <2>2, RowFields
    <2>4. q = PanelSelection
      OBVIOUS
    <2> HIDE DEF q
    <2>5. row' = r
      BY <1>1, <2>1, <2>2 DEF Rows, Quotations
    <2> HIDE DEF n
    <2>6. r \in Rows /\ r.assignment = row.assignment /\ r.assignee = row.assignee
          /\ \A p \in Quotes \ {q} : r.quotes[p] = row.quotes[p]
      BY <1>1, <2>2, <2>3, RowFiles
    <2> HIDE DEF r
    <2> QED
      BY <1>1, <2>1, <2>2, <2>4, <2>5, <2>6, PanelListedSound
  <1> QED
    BY <1>2, <1>3

LEMMA DeleteFileSound ==
  ASSUME DetailsInv, DeleteFile
  PROVE  DetailsInv' /\ Acts
  <1> DEFINE q == dialog.for
             n == row.quotes[q].files - 1
             r == [row EXCEPT !.quotes[q].files = n]
  <1>1. Free /\ view = "open" /\ busy = None /\ row \in Rows /\ q \in Quotes /\ dialog # None
    BY AnsweredFacts DEF DeleteFile, QuoteDialogs, Answered
  <1>2. CASE Refused
    BY <1>1, <1>2, RefusedSound
  <1>3. CASE ~Refused
    <2>1. /\ row' = r /\ underway' = underway \cup {"change"} /\ row.quotes[q].files > 0
          /\ \/ /\ PanelSelection = None /\ dialog' = None /\ told' = "done"
                /\ UNCHANGED <<timer, busy, view, parts, torn, counters>>
             \/ PanelSelection # None /\ PanelListed(PanelSelection)
      BY <1>1, <1>3, RowFields DEF DeleteFile, Commit, Send, Tell, Rows, Quotations
    <2>2. n \in Nat
      BY <1>1, <2>1, RowFields
    <2> HIDE DEF n, q
    <2>3. r \in Rows /\ r.assignment = row.assignment /\ r.assignee = row.assignee
          /\ \A p \in Quotes \ {q} : r.quotes[p] = row.quotes[p]
      BY <1>1, <2>2, RowFiles
    <2>4. \A p \in Quotes : r.quotes[p].files # row.quotes[p].files => dialog.for = p
      BY <2>3 DEF q
    <2> HIDE DEF r
    <2>5. CASE PanelSelection = None
      <3>1. /\ dialog' = None /\ told' = "done"
            /\ UNCHANGED <<timer, busy, view, loaded, header, banner, attach, tab, torn,
                           changes, acts, reconnects, fails>>
        BY <2>1, <2>5 DEF parts, counters
      <3>2. PartsAgree'
        BY <3>1, PartsKept DEF DetailsInv, parts
      <3> QED
        BY <1>1, <2>1, <2>3, <2>4, <3>1, <3>2, CommitStep DEF DetailsInv, TypeOK
    <2>6. CASE PanelSelection # None
      <3>1. PanelSelection \in Quotes
        BY <1>1, <2>6 DEF PanelSelection, q, DetailsInv, TypeOK, Tabs
      <3> DEFINE p == PanelSelection
      <3>2. p \in Quotes /\ p = PanelSelection /\ PanelListed(p)
        BY <2>1, <2>6, <3>1
      <3> HIDE DEF p
      <3> QED
        BY <1>1, <2>1, <2>3, <2>4, <3>2, PanelListedSound
    <2> QED
      BY <2>5, <2>6
  <1> QED
    BY <1>2, <1>3

LEMMA AttachSound ==
  ASSUME DetailsInv, Attach \/ Detach
  PROVE  DetailsInv' /\ Acts
  <1>1. Free /\ view = "open" /\ busy = None /\ row \in Rows /\ attach \in Panels
    BY AnsweredFacts DEF Attach, Detach
  <1>2. CASE Refused
    BY <1>1, <1>2, RefusedSound
  <1>3. CASE ~Refused
    <2>1. PICK list \in SUBSET Users :
            Commit([row EXCEPT !.attachments = list]) /\ AttachListed
      <3>1. CASE Attach
        <4>1. row.attachments \cup {Me} \in SUBSET Users
          BY <1>1, RowFields DEF Users
        <4> QED
          BY <1>3, <3>1, <4>1 DEF Attach
      <3>2. CASE Detach
        <4>1. row.attachments \ {dialog.for} \in SUBSET Users
          BY <1>1, RowFields
        <4> QED
          BY <1>3, <3>2, <4>1 DEF Detach
      <3> QED
        BY <3>1, <3>2
    <2> DEFINE r == [row EXCEPT !.attachments = list]
    <2>2. r \in Rows /\ r.assignment = row.assignment /\ r.assignee = row.assignee
          /\ r.quotes = row.quotes /\ r.attachments = list
      BY <1>1, RowAttachments
    <2>3. row' = r /\ underway' = underway \cup {"change"}
      BY <2>1 DEF Commit, Send
    <2> HIDE DEF r
    <2>4. /\ attach' \in Panels
          /\ dialog' = None /\ told' \in {"none", "done", "failed"}
          /\ UNCHANGED <<timer, busy, view, loaded, header, banner, tab, torn, changes,
                         acts, reconnects, fails>>
      BY <1>1, <2>1, <2>2, <2>3 DEF AttachListed, PanelAgain, Panels, Tell, counters
    <2>5. PartsAgree'
      BY <2>4 DEF DetailsInv, PartsAgree, OneRecordIsShown, FilesAreCounted, MayManage,
         Visible
    <2> QED
      BY <1>1, <2>2, <2>3, <2>4, <2>5, CommitStep DEF DetailsInv, TypeOK
  <1> QED
    BY <1>2, <1>3

-----------------------------------------------------------------------------
(* The steps together.                                                     *)

LEMMA UserSound ==
  ASSUME DetailsInv, User
  PROVE  DetailsInv' /\ Acts
  <1>1. CASE \/ OpenAssign \/ AskArchive \/ AskRestore \/ AskDelete
             \/ OpenNewQuotation \/ AskArchiveQuotation \/ ChooseFilesInView
             \/ ChooseFilesInPanel \/ AskDeleteFile \/ ChooseAttachment
             \/ AskDeleteAttachment
    BY <1>1, OpeningSound
  <1>2. CASE Leave \/ Cancel
    BY <1>2, LeaveSound
  <1>3. CASE Archive \/ Restore \/ Delete
    BY <1>3, ArchiveSound
  <1>4. CASE ArchiveQuotation \/ RestoreQuotation \/ \E q \in Quotes : CreateQuotation(q)
    BY <1>4, ArchiveQuotationSound, RestoreQuotationSound, CreateQuotationSound
  <1>5. CASE UploadInView \/ UploadInPanel \/ DeleteFile \/ Attach \/ Detach
    BY <1>5, UploadInViewSound, UploadInPanelSound, DeleteFileSound, AttachSound
  <1>6. CASE \/ \E q \in Quotes : Select(q)
             \/ \E kind \in {"All", "Active"} : Filter(kind)
             \/ \E u \in Others \cup {Me} : Assign(u)
    BY <1>6, SelectSound, FilterSound, AssignSound
  <1> QED
    BY <1>1, <1>2, <1>3, <1>4, <1>5, <1>6 DEF User

LEMMA NextSound == DetailsInv /\ [Next]_vars => DetailsInv' /\ [Acts]_vars
  <1> SUFFICES ASSUME DetailsInv, [Next]_vars PROVE DetailsInv' /\ [Acts]_vars
    OBVIOUS
  <1>1. CASE UNCHANGED vars
    <2>1. /\ UNCHANGED <<row, underway, timer, busy, view, loaded, header, banner, attach,
                         tab, dialog, told, torn, changes, acts, reconnects, fails>>
          /\ UNCHANGED parts
      BY <1>1 DEF vars, parts, counters
    <2>2. TypeOK'
      BY <2>1 DEF DetailsInv, TypeOK
    <2>3. PartsAgree'
      BY <2>1, PartsKept DEF DetailsInv
    <2>4. KeepsUp' /\ UploadSound' /\ OpenIfBusy'
      BY <2>1 DEF DetailsInv, KeepsUp, Current, UploadSound, OpenIfBusy
    <2> QED
      BY <1>1, <2>2, <2>3, <2>4 DEF DetailsInv
  <1>2. CASE OthersCommit \/ LockExpires \/ Reconnect
    BY <1>2, OthersCommitSound, LockExpiresSound, ReconnectSound
  <1>3. CASE \E kind \in {"change", "reconcile"} : Deliver(kind)
    BY <1>3, DeliverSound
  <1>4. CASE Refresh
    BY <1>4, StartRefreshSound, IncrementalSound, RebuildSound, RefreshFailsSound DEF Refresh
  <1>5. CASE User
    BY <1>5, UserSound
  <1> QED
    BY <1>1, <1>2, <1>3, <1>4, <1>5 DEF Next

-----------------------------------------------------------------------------
(* The theorems.                                                           *)

\* In every behaviour of the view the invariant holds and each step is one that
\* is allowed.
LEMMA DetailsHold == Spec => []DetailsInv /\ [][Acts]_vars
  BY InitSound, NextSound, PTL DEF Spec

\* Types: the view, its dialog and its refresh are what they can be.
THEOREM DetailsTypeCorrect == Spec => []TypeOK
  <1>1. DetailsInv => TypeOK
    BY DEF DetailsInv
  <1> QED
    BY <1>1, DetailsHold, PTL

\* Header, banner and quotations show one record, and the panel of files fits
\* the list beside it, whatever refreshes and failures there were.
THEOREM PartsAlwaysAgree == Spec => []PartsAgree
  <1>1. DetailsInv => PartsAgree
    BY DEF DetailsInv
  <1> QED
    BY <1>1, DetailsHold, PTL

\* A view at rest, with nothing failed since, shows the database.
THEOREM QuietViewsAreCurrent == Spec => []QuietMeansCurrent
  <1>1. DetailsInv => QuietMeansCurrent
    BY DEF DetailsInv, KeepsUp, Current, QuietMeansCurrent
  <1> QED
    BY <1>1, DetailsHold, PTL

\* What the user's answers do is what the view had shown, although it is
\* refreshed and built anew under the dialogs.
THEOREM AnswersAreAboutWhatWasSeen == Spec => ActsOnWhatWasSeen
  <1>1. [Acts]_vars => [FilesGoToTheChosen /\ NothingReplacedUnseen /\ DeletedStaysGone]_vars
    BY DEF Acts
  <1> QED
    BY <1>1, DetailsHold, PTL DEF ActsOnWhatWasSeen

-----------------------------------------------------------------------------
(* The clarification windows.                                              *)
(*                                                                         *)
(* The conversation of a clarification, for any windows, users and numbers *)
(* of messages: who writes, in what order, and after having seen what.     *)
(* Nothing of this is in the row: it depends on what the open windows have *)
(* loaded, which of them may still act on it, and on no two of them being  *)
(* of one side.                                                            *)

CONSTANTS Engineer, Officers, Windows, UserOf, MaxMessages, MaxReassigns,
          MaxReturns, MaxLosses
VARIABLES record, sent, due, reading, shown, form, text, asked, call, reassigns,
          returns, losses

Chat == INSTANCE ClarificationView WITH
  MaxReconnects <- MaxReturns, MaxFails <- MaxLosses,
  row <- record, underway <- sent, timer <- due, busy <- reading,
  reconnects <- returns, fails <- losses


\* Each side has one window; an officer who has none takes no part.
OneWindowEach == \A v, w \in Windows : UserOf[v] = UserOf[w] => v = w

-----------------------------------------------------------------------------
(* The invariants.                                                         *)

\* With no event and no refresh to come, and nothing failed, a refresh under
\* way has read the status as it is, and a window at rest shows the database.
WindowsUpToDate ==
  \A w \in Windows : w \notin sent \cup due /\ losses = 0 =>
    /\ reading[w] # None => reading[w].status = record.status
    /\ reading[w] = None => /\ shown[w].status = record.status
                         /\ shown[w].count = Len(record.said)

\* The status is what the last operation left.
Last == record.said[Len(record.said)]
StatusFollows ==
  /\ record.said # << >>
  /\ record.status = IF Last.op = "ask" THEN "awaiting" ELSE Chat!Becomes[Last.op]

\* Before the request changes hands only its officer has the officer's forms.
FirstOfficer ==
  reassigns = 0 => \A w \in Windows :
    /\ reading[w] # None => reading[w].officer = record.officer
    /\ form[w] \in {"forward", "forwarded"} => UserOf[w] = record.officer
    /\ \A k \in {asked[w], call[w]} :
         k # None /\ k.op # "respond" => UserOf[w] = record.officer

\* A call that will be accepted still finds the status that it checked.
CallsAreDue ==
  \A w \in Windows :
    call[w] # None /\ Chat!Responsible(UserOf[w], call[w].op, record.officer) =>
      record.status = Chat!Wanted[call[w].op]

TurnsInv ==
  Chat!TypeOK /\ StatusFollows /\ FirstOfficer /\ CallsAreDue /\ Chat!TurnsAreTaken

\* What a window may still send fits the form that the database calls for, and
\* was written with everything on the screen.
Sendable(w, k) ==
  /\ Chat!Offers(Chat!Form(UserOf[w], record.status, record.officer), k.op)
  /\ Chat!NeedsText(k.op) => k.text = Len(record.said)
InStep(w) ==
  /\ reading[w] # None =>
       /\ call[w] = None /\ reading[w].officer = record.officer
       /\ \/ reading[w].status = record.status
          \/ Chat!Form(UserOf[w], reading[w].status, record.officer) = "read-only"
  /\ reading[w] = None /\ form[w] # "read-only" =>
       /\ form[w] = Chat!Form(UserOf[w], record.status, record.officer)
       /\ shown[w].count = Len(record.said)
       /\ text[w] \in {None, Len(record.said)}
  /\ \A k \in {asked[w], call[w]} : k # None => Sendable(w, k)
  /\ asked[w] = None \/ call[w] = None

AnswersInv == Chat!TypeOK /\ (\A w \in Windows : InStep(w)) /\ Chat!AnswersWhatWasSeen

-----------------------------------------------------------------------------
(* Forms and operations.                                                   *)

LEMMA FormType ==
  ASSUME NEW user, NEW status, NEW officer
  PROVE  Chat!Form(user, status, officer) \in Chat!Actions
  BY DEF Chat!Form, Chat!Actions

\* A form offers what its user may do and the status calls for.
LEMMA OffersAreDue ==
  ASSUME NEW user, NEW status, NEW officer, NEW op \in Chat!Ops,
         Chat!Offers(Chat!Form(user, status, officer), op)
  PROVE  Chat!Responsible(user, op, officer) /\ status = Chat!Wanted[op]
  BY DEF Chat!Form, Chat!Offers, Chat!Responsible, Chat!Wanted, Chat!Ops

\* Those who may act in one status are one.
LEMMA OneSide ==
  ASSUME NEW user, NEW other, NEW officer, NEW op \in Chat!Ops, NEW o \in Chat!Ops,
         Chat!Responsible(user, op, officer), Chat!Responsible(other, o, officer),
         Chat!Wanted[op] = Chat!Wanted[o]
  PROVE  user = other
  BY DEF Chat!Responsible, Chat!Wanted, Chat!Ops

LEMMA OpTypes ==
  ASSUME NEW op \in Chat!Ops
  PROVE  Chat!Wanted[op] \in Chat!Statuses /\ Chat!Becomes[op] \in Chat!Statuses /\ Chat!Becomes[op] # Chat!Wanted[op]
  BY DEF Chat!Wanted, Chat!Becomes, Chat!Ops, Chat!Statuses

\* What a commit adds stands at the end, and nothing else changes.
LEMMA AppendFacts ==
  ASSUME NEW S, NEW s \in Seq(S), NEW e \in S
  PROVE  /\ Append(s, e) \in Seq(S) /\ Len(Append(s, e)) = Len(s) + 1
         /\ Append(s, e)[Len(s) + 1] = e /\ Append(s, e) # << >>
         /\ \A k \in 1..Len(s) : Append(s, e)[k] = s[k]
         /\ Len(s) \in Nat
  OBVIOUS

\* The row with another status and conversation.
LEMMA NewRow ==
  ASSUME NEW r \in [status : Chat!Statuses, officer : Officers, said : Seq(Chat!Messages)],
         NEW status \in Chat!Statuses, NEW said \in Seq(Chat!Messages)
  PROVE  LET n == [r EXCEPT !.status = status, !.said = said]
         IN  /\ n.status = status /\ n.said = said /\ n.officer = r.officer
             /\ n \in [status : Chat!Statuses, officer : Officers, said : Seq(Chat!Messages)]
  OBVIOUS

\* A commit that is accepted.
LEMMA Accepted ==
  ASSUME Chat!ClarificationViewAssumption, Chat!TypeOK, NEW w \in Windows, call[w] # None, Chat!Answered(w)
  PROVE  /\ Chat!Said(w) \in Chat!Messages /\ Chat!Said(w).op = call[w].op
         /\ Chat!Said(w).by = UserOf[w] /\ Chat!Said(w).officer = record.officer
         /\ Chat!Said(w).seen = IF Chat!NeedsText(call[w].op) THEN call[w].text ELSE Len(record.said)
         /\ record'.status = Chat!Becomes[call[w].op] /\ record'.officer = record.officer
         /\ record'.said = Append(record.said, Chat!Said(w))
         /\ record' \in [status : Chat!Statuses, officer : Officers, said : Seq(Chat!Messages)]
         /\ call[w] \in Chat!Answers
  <1>1. call[w] \in Chat!Answers /\ call[w].op \in Chat!Ops /\ call[w].text \in Nat \cup {None}
    BY DEF Chat!TypeOK, Chat!Answers
  <1>2. record.said \in Seq(Chat!Messages) /\ record.officer \in Officers
    BY DEF Chat!TypeOK
  <1>3. UserOf[w] \in Officers \cup {Engineer}
    BY DEF Chat!ClarificationViewAssumption
  <1>4. Len(record.said) \in Nat
    BY <1>2
  <1>5. Chat!NeedsText(call[w].op) => call[w].text \in Nat
    BY <1>1 DEF Chat!Answers
  <1>6. Chat!Said(w) \in Chat!Messages
    BY <1>1, <1>2, <1>3, <1>4, <1>5 DEF Chat!Said, Chat!Messages
  <1>7. /\ record'.status = Chat!Becomes[call[w].op] /\ record'.officer = record.officer
        /\ record'.said = Append(record.said, Chat!Said(w))
        /\ record' \in [status : Chat!Statuses, officer : Officers, said : Seq(Chat!Messages)]
    <2>1. Append(record.said, Chat!Said(w)) \in Seq(Chat!Messages)
      BY <1>2, <1>6, AppendFacts
    <2>2. record' = [record EXCEPT !.status = Chat!Becomes[call[w].op],
                             !.said = Append(record.said, Chat!Said(w))]
      BY DEF Chat!Answered
    <2>3. Chat!Becomes[call[w].op] \in Chat!Statuses
      BY <1>1, OpTypes
    <2> QED
      BY <2>1, <2>2, <2>3, NewRow DEF Chat!TypeOK
  <1> QED
    BY <1>1, <1>6, <1>7 DEF Chat!Said

-----------------------------------------------------------------------------
(* Types.                                                                  *)

LEMMA InitTyped ==
  ASSUME Chat!ClarificationViewAssumption, Chat!Init PROVE Chat!TypeOK
  <1>1. record.status = "awaiting" /\ record.officer \in Officers
        /\ record.said = <<[op |-> "ask", by |-> None, seen |-> 0, officer |-> None]>>
        /\ record = [status |-> record.status, officer |-> record.officer, said |-> record.said]
    BY DEF Chat!Init
  <1>2. [op |-> "ask", by |-> None, seen |-> 0, officer |-> None] \in Chat!Messages
    BY DEF Chat!Messages
  <1>3. record.said \in Seq(Chat!Messages) /\ Len(record.said) = 1
    BY <1>1, <1>2
  <1>4. Chat!Seen \in Chat!Loaded /\ Chat!Seen.count = 1
    BY <1>1, <1>3 DEF Chat!Seen, Chat!Loaded, Chat!Statuses
  <1>5. record \in [status : Chat!Statuses, officer : Officers, said : Seq(Chat!Messages)]
    BY <1>1, <1>3 DEF Chat!Statuses
  <1>6. form \in [Windows -> Chat!Actions]
    BY FormType DEF Chat!Init
  <1> QED
    BY <1>3, <1>4, <1>5, <1>6 DEF Chat!Init, Chat!TypeOK

\* What a window loads now.
LEMMA SeenTyped ==
  ASSUME Chat!TypeOK
  PROVE  /\ Chat!Seen \in Chat!Loaded /\ Chat!Seen.status = record.status /\ Chat!Seen.officer = record.officer
         /\ Chat!Seen.count = Len(record.said) /\ Len(record.said) \in Nat
  BY DEF Chat!TypeOK, Chat!Seen, Chat!Loaded

\* ... and with the number of messages that is read after it.
LEMMA Counted ==
  ASSUME NEW first \in Chat!Loaded, NEW n \in Nat
  PROVE  LET l == [first EXCEPT !.count = n]
         IN  l \in Chat!Loaded /\ l.count = n /\ l.status = first.status
  BY DEF Chat!Loaded

LEMMA TypeStep ==
  ASSUME Chat!ClarificationViewAssumption, Chat!TypeOK, [Chat!Next]_Chat!vars
  PROVE  Chat!TypeOK'
  <1>1. CASE UNCHANGED Chat!vars
    BY <1>1 DEF Chat!vars, Chat!ui, Chat!TypeOK
  <1>2. ASSUME NEW officer \in Officers, Chat!Reassign(officer)
        PROVE  Chat!TypeOK'
    BY <1>2 DEF Chat!Reassign, Chat!ui, Chat!TypeOK
  <1>3. ASSUME NEW w \in Windows, Chat!Reconnect(w) \/ Chat!Deliver(w)
        PROVE  Chat!TypeOK'
    BY <1>3 DEF Chat!Reconnect, Chat!Deliver, Chat!ui, Chat!TypeOK
  <1>4. ASSUME NEW w \in Windows, Chat!StartReload(w)
        PROVE  Chat!TypeOK'
    BY <1>4, SeenTyped DEF Chat!StartReload, Chat!ui, Chat!TypeOK
  <1>5. ASSUME NEW w \in Windows, Chat!FinishReload(w)
        PROVE  Chat!TypeOK'
    <2>1. reading[w] \in Chat!Loaded
      BY <1>5 DEF Chat!FinishReload, Chat!TypeOK
    <2>2. PICK l \in Chat!Loaded : shown' = [shown EXCEPT ![w] = l] /\ l.count = Len(record.said)
      BY <1>5, <2>1, SeenTyped, Counted DEF Chat!FinishReload
    <2>3. PICK f \in Chat!Actions : form' = [form EXCEPT ![w] = f]
      BY <1>5, FormType DEF Chat!FinishReload
    <2>4. /\ UNCHANGED <<record, asked, call, reassigns, returns, losses, sent, due>>
          /\ reading' = [reading EXCEPT ![w] = None] /\ text' = [text EXCEPT ![w] = None]
      BY <1>5 DEF Chat!FinishReload
    <2>5. /\ shown' \in [Windows -> Chat!Loaded] /\ form' \in [Windows -> Chat!Actions]
          /\ reading' \in [Windows -> Chat!Loaded \cup {None}] /\ text' \in [Windows -> Nat \cup {None}]
      BY <2>2, <2>3, <2>4 DEF Chat!TypeOK
    <2>6. \A v \in Windows : /\ shown'[v].count =< Len(record'.said)
                             /\ text'[v] # None => text'[v] =< Len(record'.said)
      BY <2>2, <2>4, SeenTyped DEF Chat!TypeOK, Chat!Loaded
    <2> QED
      BY <2>4, <2>5, <2>6 DEF Chat!TypeOK
  <1>6. ASSUME NEW w \in Windows, Chat!ReloadFails(w)
        PROVE  Chat!TypeOK'
    <2>1. reading[w] \in Chat!Loaded /\ shown[w].count \in Nat /\ shown[w] \in Chat!Loaded
      BY <1>6 DEF Chat!ReloadFails, Chat!TypeOK, Chat!Loaded
    <2>2. PICK l \in Chat!Loaded : shown' = [shown EXCEPT ![w] = l] /\ l.count = shown[w].count
      <3>1. shown = [shown EXCEPT ![w] = shown[w]]
        BY DEF Chat!TypeOK
      <3> QED
        BY <1>6, <2>1, <3>1, Counted DEF Chat!ReloadFails
    <2>3. /\ reading' = [reading EXCEPT ![w] = None] /\ losses' = losses + 1
          /\ UNCHANGED <<record, sent, due, form, text, asked, call, reassigns>>
      BY <1>6 DEF Chat!ReloadFails
    <2>4. shown' \in [Windows -> Chat!Loaded] /\ reading' \in [Windows -> Chat!Loaded \cup {None}]
      BY <2>2, <2>3 DEF Chat!TypeOK
    <2>6. returns' \in Nat
      BY <1>6 DEF Chat!TypeOK, Chat!ReloadFails
    <2>7. reassigns' \in Nat /\ losses' \in Nat
      BY <2>3 DEF Chat!TypeOK
    <2>5. \A v \in Windows : shown'[v].count = shown[v].count
      BY <2>2 DEF Chat!TypeOK
    <2> QED
      BY <2>3, <2>4, <2>5, <2>6, <2>7 DEF Chat!TypeOK
  <1>7. ASSUME NEW w \in Windows, Chat!Type(w)
        PROVE  Chat!TypeOK'
    BY <1>7 DEF Chat!Type, Chat!TypeOK, Chat!Loaded
  <1>8. ASSUME NEW w \in Windows, NEW op \in Chat!Ops, Chat!Ask(w, op)
        PROVE  Chat!TypeOK'
    BY <1>8 DEF Chat!Ask, Chat!ui, Chat!TypeOK, Chat!Answers
  <1>9. ASSUME NEW w \in Windows, Chat!Decline(w) \/ Chat!Begin(w) \/ Chat!CallFails(w)
        PROVE  Chat!TypeOK'
    BY <1>9 DEF Chat!Decline, Chat!Begin, Chat!CallFails, Chat!ui, Chat!TypeOK
  <1>10. ASSUME NEW w \in Windows, Chat!Commit(w)
         PROVE  Chat!TypeOK'
    <2>1. CASE ~Chat!Responsible(UserOf[w], call[w].op, record.officer)
      BY <1>10, <2>1 DEF Chat!Commit, Chat!ui, Chat!TypeOK
    <2>2. CASE Chat!Responsible(UserOf[w], call[w].op, record.officer)
      <3>1. call[w] # None /\ Chat!Answered(w) /\ reading' = [reading EXCEPT ![w] = Chat!Seen']
            /\ sent' = Windows /\ call' = [call EXCEPT ![w] = None]
            /\ UNCHANGED <<due, shown, form, text, asked, reassigns, returns, losses>>
        BY <1>10, <2>2 DEF Chat!Commit, Chat!ui
      <3>2. record' \in [status : Chat!Statuses, officer : Officers, said : Seq(Chat!Messages)]
            /\ Len(record'.said) = Len(record.said) + 1 /\ Len(record.said) \in Nat
        BY <3>1, Accepted, AppendFacts DEF Chat!TypeOK
      <3>3. Chat!Seen' \in Chat!Loaded
        BY <3>2 DEF Chat!Seen, Chat!Loaded
      <3> QED
        BY <3>1, <3>2, <3>3 DEF Chat!TypeOK, Chat!Loaded
    <2> QED
      BY <2>1, <2>2
  <1> QED
    BY <1>1, <1>2, <1>3, <1>4, <1>5, <1>6, <1>7, <1>8, <1>9, <1>10 DEF Chat!Next

\* The row, the windows and their calls are what they can be.
THEOREM ConversationTyped ==
  ASSUME Chat!ClarificationViewAssumption
  PROVE  Chat!Spec => []Chat!TypeOK
  BY InitTyped, TypeStep, PTL DEF Chat!Spec

-----------------------------------------------------------------------------
(* What is said.                                                           *)

\* Only an accepted commit adds to the conversation.
LEMMA SaidStep ==
  ASSUME Chat!TypeOK, [Chat!Next]_Chat!vars
  PROVE  \/ record'.said = record.said /\ record'.status = record.status
         \/ \E w \in Windows :
              /\ Chat!Commit(w) /\ call[w] # None /\ Chat!Answered(w)
              /\ Chat!Responsible(UserOf[w], call[w].op, record.officer)
  BY DEF Chat!Next, Chat!vars, Chat!ui, Chat!Reassign, Chat!Reconnect, Chat!Deliver, Chat!StartReload, Chat!FinishReload,
         Chat!ReloadFails, Chat!Type, Chat!Ask, Chat!Decline, Chat!Begin, Chat!Commit, Chat!CallFails, Chat!TypeOK

-----------------------------------------------------------------------------
(* Who writes.                                                             *)

LEMMA AuthorsStep ==
  ASSUME Chat!ClarificationViewAssumption, Chat!TypeOK, Chat!AuthorsAreResponsible, [Chat!Next]_Chat!vars
  PROVE  Chat!AuthorsAreResponsible'
  <1>1. CASE record'.said = record.said
    BY <1>1 DEF Chat!AuthorsAreResponsible
  <1>2. ASSUME NEW w \in Windows, call[w] # None, Chat!Answered(w),
               Chat!Responsible(UserOf[w], call[w].op, record.officer)
        PROVE  Chat!AuthorsAreResponsible'
    <2>1. record'.said = Append(record.said, Chat!Said(w)) /\ Chat!Said(w).op = call[w].op
          /\ Chat!Said(w).by = UserOf[w] /\ Chat!Said(w).officer = record.officer
          /\ Chat!Said(w) \in Chat!Messages /\ record.said \in Seq(Chat!Messages)
      BY <1>2, Accepted DEF Chat!TypeOK
    <2> QED
      BY <1>2, <2>1, AppendFacts DEF Chat!AuthorsAreResponsible
  <1> QED
    BY <1>1, <1>2, SaidStep

\* A message is its side's, however often the request changes hands.
THEOREM AuthorsSound ==
  ASSUME Chat!ClarificationViewAssumption
  PROVE  Chat!Spec => []Chat!AuthorsAreResponsible
  <1>1. Chat!Init => Chat!AuthorsAreResponsible
    BY DEF Chat!Init, Chat!AuthorsAreResponsible
  <1>2. Chat!Init => Chat!TypeOK
    BY InitTyped
  <1>3. Chat!TypeOK /\ Chat!AuthorsAreResponsible /\ [Chat!Next]_Chat!vars => Chat!TypeOK' /\ Chat!AuthorsAreResponsible'
    BY TypeStep, AuthorsStep
  <1> QED
    BY <1>1, <1>2, <1>3, PTL DEF Chat!Spec

-----------------------------------------------------------------------------
(* What a window at rest shows.                                            *)

LEMMA KeepsUpStep ==
  ASSUME Chat!ClarificationViewAssumption, Chat!TypeOK, WindowsUpToDate, [Chat!Next]_Chat!vars
  PROVE  WindowsUpToDate'
  <1>1. CASE UNCHANGED Chat!vars
    BY <1>1 DEF Chat!vars, Chat!ui, WindowsUpToDate
  <1>2. ASSUME NEW officer \in Officers, Chat!Reassign(officer)
        PROVE  WindowsUpToDate'
    BY <1>2 DEF Chat!Reassign, Chat!ui, Chat!TypeOK, WindowsUpToDate
  <1>3. ASSUME NEW w \in Windows, Chat!Reconnect(w) \/ Chat!Deliver(w)
        PROVE  WindowsUpToDate'
    BY <1>3 DEF Chat!Reconnect, Chat!Deliver, Chat!ui, WindowsUpToDate
  <1>4. ASSUME NEW w \in Windows, Chat!StartReload(w)
        PROVE  WindowsUpToDate'
    <2>1. Chat!Seen # None
      BY SeenTyped DEF Chat!ClarificationViewAssumption
    <2> QED
      BY <1>4, <2>1, SeenTyped DEF Chat!StartReload, Chat!ui, Chat!TypeOK, WindowsUpToDate
  <1>5. ASSUME NEW w \in Windows, Chat!FinishReload(w)
        PROVE  WindowsUpToDate'
    <2>1. reading[w] \in Chat!Loaded
      BY <1>5 DEF Chat!FinishReload, Chat!TypeOK
    <2>2. PICK l \in Chat!Loaded : /\ shown' = [shown EXCEPT ![w] = l]
                              /\ l.count = Len(record.said) /\ l.status = reading[w].status
      BY <1>5, <2>1, SeenTyped, Counted DEF Chat!FinishReload
    <2> QED
      BY <1>5, <2>2 DEF Chat!FinishReload, Chat!TypeOK, WindowsUpToDate
  <1>6. ASSUME NEW w \in Windows, Chat!ReloadFails(w) \/ Chat!CallFails(w)
        PROVE  WindowsUpToDate'
    <2>1. losses' # 0
      BY <1>6 DEF Chat!ReloadFails, Chat!CallFails, Chat!TypeOK
    <2> QED
      BY <2>1 DEF WindowsUpToDate
  <1>7. ASSUME NEW w \in Windows,
               Chat!Type(w) \/ (\E op \in Chat!Ops : Chat!Ask(w, op)) \/ Chat!Decline(w) \/ Chat!Begin(w)
        PROVE  WindowsUpToDate'
    BY <1>7 DEF Chat!Type, Chat!Ask, Chat!Decline, Chat!Begin, Chat!ui, WindowsUpToDate
  <1>8. ASSUME NEW w \in Windows, Chat!Commit(w)
        PROVE  WindowsUpToDate'
    <2>1. CASE sent' = Windows
      BY <2>1 DEF WindowsUpToDate
    <2>2. CASE ~Chat!Responsible(UserOf[w], call[w].op, record.officer)
      BY <1>8, <2>2 DEF Chat!Commit, Chat!ui, WindowsUpToDate
    <2> QED
      BY <1>8, <2>1, <2>2 DEF Chat!Commit
  <1> QED
    BY <1>1, <1>2, <1>3, <1>4, <1>5, <1>6, <1>7, <1>8 DEF Chat!Next

\* A window at rest, when no query failed, shows the database.
THEOREM WindowsKeepUp ==
  ASSUME Chat!ClarificationViewAssumption
  PROVE  Chat!Spec => []Chat!QuietMeansCurrent
  <1>1. Chat!Init => Chat!TypeOK /\ WindowsUpToDate
    <2> SUFFICES ASSUME Chat!Init PROVE Chat!TypeOK /\ WindowsUpToDate
      OBVIOUS
    <2>1. Chat!TypeOK
      BY InitTyped
    <2>2. WindowsUpToDate
      BY <2>1, SeenTyped DEF Chat!Init, WindowsUpToDate
    <2> QED
      BY <2>1, <2>2
  <1>2. Chat!TypeOK /\ WindowsUpToDate /\ [Chat!Next]_Chat!vars => Chat!TypeOK' /\ WindowsUpToDate'
    BY TypeStep, KeepsUpStep
  <1>3. WindowsUpToDate => Chat!QuietMeansCurrent
    BY DEF WindowsUpToDate, Chat!QuietMeansCurrent, Chat!Idle
  <1> QED
    BY <1>1, <1>2, <1>3, PTL DEF Chat!Spec

-----------------------------------------------------------------------------
(* In what order.                                                          *)

LEMMA StatusStep ==
  ASSUME Chat!ClarificationViewAssumption, Chat!TypeOK, StatusFollows, [Chat!Next]_Chat!vars
  PROVE  StatusFollows'
  <1>1. CASE record'.said = record.said /\ record'.status = record.status
    BY <1>1 DEF StatusFollows, Last
  <1>2. ASSUME NEW w \in Windows, call[w] # None, Chat!Answered(w)
        PROVE  StatusFollows'
    <2>1. /\ record'.said = Append(record.said, Chat!Said(w)) /\ Chat!Said(w).op = call[w].op
          /\ record'.status = Chat!Becomes[call[w].op]
          /\ Chat!Said(w) \in Chat!Messages /\ record.said \in Seq(Chat!Messages) /\ call[w] \in Chat!Answers
      BY <1>2, Accepted DEF Chat!TypeOK
    <2>2. Last' = Chat!Said(w) /\ record'.said # << >>
      BY <2>1, AppendFacts DEF Last
    <2>3. call[w].op # "ask"
      BY <2>1 DEF Chat!Answers, Chat!Ops
    <2> QED
      BY <2>1, <2>2, <2>3 DEF StatusFollows
  <1> QED
    BY <1>1, <1>2, SaidStep

LEMMA FirstOfficerStep ==
  ASSUME Chat!ClarificationViewAssumption, Chat!TypeOK, Chat!TypeOK', FirstOfficer, [Chat!Next]_Chat!vars
  PROVE  FirstOfficer'
  <1>1. CASE UNCHANGED Chat!vars
    BY <1>1 DEF Chat!vars, Chat!ui, FirstOfficer
  <1>2. ASSUME NEW officer \in Officers, Chat!Reassign(officer)
        PROVE  FirstOfficer'
    BY <1>2 DEF Chat!Reassign, Chat!TypeOK, FirstOfficer
  <1>3. ASSUME NEW w \in Windows,
               Chat!Reconnect(w) \/ Chat!Deliver(w) \/ Chat!Type(w) \/ Chat!ReloadFails(w)
        PROVE  FirstOfficer'
    BY <1>3 DEF Chat!Reconnect, Chat!Deliver, Chat!Type, Chat!ReloadFails, Chat!ui, Chat!TypeOK, FirstOfficer
  <1>4. ASSUME NEW w \in Windows, Chat!StartReload(w)
        PROVE  FirstOfficer'
    BY <1>4, SeenTyped DEF Chat!StartReload, Chat!ui, Chat!TypeOK, FirstOfficer
  <1>5. ASSUME NEW w \in Windows, Chat!FinishReload(w)
        PROVE  FirstOfficer'
    <2>1. Chat!Form(UserOf[w], reading[w].status, reading[w].officer) \in {"forward", "forwarded"}
            => UserOf[w] = reading[w].officer
      BY DEF Chat!Form
    <2> QED
      BY <1>5, <2>1 DEF Chat!FinishReload, Chat!TypeOK, FirstOfficer
  <1>6. ASSUME NEW w \in Windows, NEW op \in Chat!Ops, Chat!Ask(w, op)
        PROVE  FirstOfficer'
    <2>1. op # "respond" => form[w] \in {"forward", "forwarded"}
      BY <1>6 DEF Chat!Ask, Chat!Offers
    <2>2. asked' = [asked EXCEPT ![w] = [op |-> op, text |-> text[w]]]
          /\ UNCHANGED <<record, reading, form, call, reassigns>>
      BY <1>6 DEF Chat!Ask, Chat!ui
    <2> QED
      BY <2>1, <2>2 DEF Chat!TypeOK, FirstOfficer
  <1>7. ASSUME NEW w \in Windows, Chat!Decline(w) \/ Chat!Begin(w) \/ Chat!CallFails(w)
        PROVE  FirstOfficer'
    BY <1>7 DEF Chat!Decline, Chat!Begin, Chat!CallFails, Chat!ui, Chat!TypeOK, FirstOfficer
  <1>8. ASSUME NEW w \in Windows, Chat!Commit(w)
        PROVE  FirstOfficer'
    <2>1. call[w] # None /\ call' = [call EXCEPT ![w] = None]
          /\ UNCHANGED <<form, asked, reassigns>>
      BY <1>8 DEF Chat!Commit, Chat!ui
    <2>2. record'.officer = record.officer /\ reading' \in {reading, [reading EXCEPT ![w] = Chat!Seen']}
      BY <1>8, Accepted DEF Chat!Commit
    <2>3. Chat!Seen'.officer = record'.officer
      BY DEF Chat!Seen
    <2> QED
      BY <2>1, <2>2, <2>3 DEF Chat!TypeOK, FirstOfficer
  <1> QED
    BY <1>1, <1>2, <1>3, <1>4, <1>5, <1>6, <1>7, <1>8 DEF Chat!Next

LEMMA CallsStep ==
  ASSUME Chat!ClarificationViewAssumption, OneWindowEach, MaxReassigns <= 1,
         Chat!TypeOK, FirstOfficer, CallsAreDue, [Chat!Next]_Chat!vars
  PROVE  CallsAreDue'
  <1>1. CASE UNCHANGED <<record, call>>
    BY <1>1 DEF CallsAreDue
  <1>2. ASSUME NEW officer \in Officers, Chat!Reassign(officer)
        PROVE  CallsAreDue'
    <2>1. reassigns = 0 /\ officer # record.officer /\ record'.officer = officer
          /\ record'.status = record.status /\ call' = call
      BY <1>2 DEF Chat!Reassign, Chat!TypeOK, Chat!ClarificationViewAssumption
    <2>2. ASSUME NEW w \in Windows, call[w] # None,
                 Chat!Responsible(UserOf[w], call[w].op, officer)
          PROVE  call[w].op = "respond"
      BY <2>1, <2>2 DEF FirstOfficer, Chat!Responsible
    <2> QED
      BY <2>1, <2>2 DEF CallsAreDue, Chat!Responsible
  <1>3. ASSUME NEW w \in Windows, Chat!Begin(w) \/ Chat!CallFails(w)
        PROVE  CallsAreDue'
    BY <1>3 DEF Chat!Begin, Chat!CallFails, Chat!TypeOK, CallsAreDue
  <1>4. ASSUME NEW w \in Windows, Chat!Commit(w)
        PROVE  CallsAreDue'
    <2>1. call[w] # None /\ call' = [call EXCEPT ![w] = None]
      BY <1>4 DEF Chat!Commit
    <2>2. CASE UNCHANGED record
      BY <2>1, <2>2 DEF Chat!TypeOK, CallsAreDue
    <2>3. CASE Chat!Answered(w) /\ Chat!Responsible(UserOf[w], call[w].op, record.officer)
      <3>1. record'.officer = record.officer
        BY <2>1, <2>3, Accepted
      <3>2. ASSUME NEW v \in Windows, v # w, call[v] # None,
                   Chat!Responsible(UserOf[v], call[v].op, record.officer)
            PROVE  FALSE
        <4>1. call[v].op \in Chat!Ops /\ call[w].op \in Chat!Ops
          BY <2>1, <3>2 DEF Chat!TypeOK, Chat!Answers
        <4>2. Chat!Wanted[call[v].op] = record.status /\ Chat!Wanted[call[w].op] = record.status
          BY <2>1, <2>3, <3>2 DEF CallsAreDue
        <4>3. UserOf[v] = UserOf[w]
          BY <2>3, <3>2, <4>1, <4>2, OneSide
        <4> QED
          BY <3>2, <4>3 DEF OneWindowEach
      <3> QED
        BY <2>1, <3>1, <3>2 DEF Chat!TypeOK, CallsAreDue
    <2> QED
      BY <1>4, <2>2, <2>3 DEF Chat!Commit
  <1> QED
    BY <1>1, <1>2, <1>3, <1>4
       DEF Chat!Next, Chat!vars, Chat!ui, Chat!Reconnect, Chat!Deliver, Chat!StartReload, Chat!FinishReload, Chat!ReloadFails,
           Chat!Type, Chat!Ask, Chat!Decline

LEMMA TurnsStep ==
  ASSUME Chat!ClarificationViewAssumption, Chat!TypeOK, StatusFollows, CallsAreDue,
         Chat!TurnsAreTaken, [Chat!Next]_Chat!vars
  PROVE  Chat!TurnsAreTaken'
  <1>1. CASE record'.said = record.said
    BY <1>1 DEF Chat!TurnsAreTaken
  <1>2. ASSUME NEW w \in Windows, call[w] # None, Chat!Answered(w),
               Chat!Responsible(UserOf[w], call[w].op, record.officer)
        PROVE  Chat!TurnsAreTaken'
    <2>1. /\ record'.said = Append(record.said, Chat!Said(w)) /\ Chat!Said(w).op = call[w].op
          /\ Chat!Said(w) \in Chat!Messages /\ record.said \in Seq(Chat!Messages) /\ call[w] \in Chat!Answers
      BY <1>2, Accepted DEF Chat!TypeOK
    <2>2. record.status = Chat!Wanted[call[w].op] /\ call[w].op \in Chat!Ops
      BY <1>2, <2>1 DEF CallsAreDue, Chat!Answers
    <2>3. Last \in Chat!Messages /\ Len(record.said) \in Nat \ {0}
      BY <2>1 DEF StatusFollows, Last
    <2>4. /\ call[w].op = "respond" => Last.op \in {"ask", "follow up"}
          /\ call[w].op = "forward" => Last.op = "respond"
          /\ call[w].op \notin {"respond", "forward"} => Last.op = "forward"
      BY <2>2, <2>3 DEF StatusFollows, Chat!Wanted, Chat!Becomes, Chat!Messages, Chat!Ops
    <2>5. \A k \in 1..Len(record.said) : record'.said[k] = record.said[k]
      BY <2>1, AppendFacts
    <2>6. record'.said[Len(record.said) + 1] = Chat!Said(w) /\ Len(record'.said) = Len(record.said) + 1
      BY <2>1, AppendFacts
    <2>7. ASSUME NEW k \in 2..Len(record'.said)
          PROVE  LET before == record'.said[k - 1].op IN
                   CASE record'.said[k].op = "respond" -> before \in {"ask", "follow up"}
                     [] record'.said[k].op = "forward" -> before = "respond"
                     [] OTHER -> before = "forward"
      <3>1. CASE k = Len(record.said) + 1
        <4>1. record'.said[k - 1] = Last /\ record'.said[k].op = call[w].op
          BY <2>1, <2>3, <2>5, <2>6, <3>1 DEF Last
        <4> QED
          BY <2>4, <4>1
      <3>2. CASE k \in 2..Len(record.said)
        <4>1. record'.said[k - 1] = record.said[k - 1] /\ record'.said[k] = record.said[k]
          BY <2>3, <2>5, <3>2
        <4> QED
          BY <3>2, <4>1 DEF Chat!TurnsAreTaken
      <3>3. k = Len(record.said) + 1 \/ k \in 2..Len(record.said)
        BY <2>3, <2>6
      <3> QED
        BY <3>1, <3>2, <3>3
    <2> QED
      BY <2>7 DEF Chat!TurnsAreTaken
  <1> QED
    BY <1>1, <1>2, SaidStep

\* The sides take turns, when each has one window and the request changes hands
\* at most once.
THEOREM TurnsSound ==
  ASSUME Chat!ClarificationViewAssumption, OneWindowEach, MaxReassigns <= 1
  PROVE  Chat!Spec => []Chat!TurnsAreTaken
  <1>1. Chat!Init => TurnsInv
    <2> SUFFICES ASSUME Chat!Init PROVE TurnsInv
      OBVIOUS
    <2>1. Chat!TypeOK
      BY InitTyped
    <2>2. Len(record.said) = 1 /\ record.said[1].op = "ask" /\ record.status = "awaiting"
      BY DEF Chat!Init
    <2>3. FirstOfficer
      BY <2>1, SeenTyped DEF Chat!Init, FirstOfficer, Chat!Form
    <2> QED
      BY <2>1, <2>2, <2>3 DEF Chat!Init, TurnsInv, StatusFollows, Last, CallsAreDue,
         Chat!TurnsAreTaken
  <1>2. TurnsInv /\ [Chat!Next]_Chat!vars => TurnsInv'
    BY TypeStep, StatusStep, FirstOfficerStep, CallsStep, TurnsStep DEF TurnsInv
  <1>3. TurnsInv => Chat!TurnsAreTaken
    BY DEF TurnsInv
  <1> QED
    BY <1>1, <1>2, <1>3, PTL DEF Chat!Spec

-----------------------------------------------------------------------------
(* After having seen what.                                                 *)

\* In a status one user at most has more than a read-only form.
LEMMA OneForm ==
  ASSUME NEW user, NEW other, NEW status, NEW officer,
         Chat!Form(user, status, officer) # "read-only",
         Chat!Form(other, status, officer) # "read-only"
  PROVE  user = other
  BY DEF Chat!Form

LEMMA ReadOnlyOffersNothing ==
  ASSUME NEW op PROVE ~Chat!Offers("read-only", op)
  BY DEF Chat!Offers

LEMMA InStepCommit ==
  ASSUME Chat!ClarificationViewAssumption, OneWindowEach, Chat!TypeOK, Chat!TypeOK',
         \A v \in Windows : InStep(v),
         NEW w \in Windows, Chat!Commit(w), Chat!Answered(w),
         reading' = [reading EXCEPT ![w] = Chat!Seen']
  PROVE  \A v \in Windows : InStep(v)'
  <1>1. /\ call[w] # None /\ call' = [call EXCEPT ![w] = None]
        /\ UNCHANGED <<shown, form, text, asked>>
    BY DEF Chat!Commit, Chat!ui
  <1>2. record'.officer = record.officer
    BY <1>1, Accepted
  <1>3. Chat!Seen'.status = record'.status /\ Chat!Seen'.officer = record'.officer
    BY DEF Chat!Seen
  <1>4. asked[w] = None
    BY <1>1 DEF InStep
  <1>5. InStep(w)'
    <2>1. reading'[w] = Chat!Seen' /\ call'[w] = None /\ asked'[w] = None
      BY <1>1, <1>4 DEF Chat!TypeOK
    <2>2. reading'[w] # None
      <3>1. Chat!Seen' \in Chat!Loaded
        BY DEF Chat!TypeOK, Chat!Seen, Chat!Loaded
      <3> QED
        BY <2>1, <3>1 DEF Chat!ClarificationViewAssumption
    <2> QED
      BY <1>3, <2>1, <2>2 DEF InStep
  <1>6. Chat!Form(UserOf[w], record.status, record.officer) # "read-only"
    BY <1>1, ReadOnlyOffersNothing DEF InStep, Sendable
  <1>7. ASSUME NEW v \in Windows, v # w
        PROVE  InStep(v)'
    <2>1. Chat!Form(UserOf[v], record.status, record.officer) = "read-only"
      BY <1>6, <1>7, OneForm DEF OneWindowEach
    <2>2. asked[v] = None /\ call[v] = None
      BY <2>1, ReadOnlyOffersNothing DEF InStep, Sendable
    <2>3. reading'[v] = reading[v] /\ call'[v] = None /\ asked'[v] = None
      BY <1>1, <1>7, <2>2 DEF Chat!TypeOK
    <2>4. reading[v] # None => /\ reading[v].officer = record.officer
                           /\ Chat!Form(UserOf[v], reading[v].status, record.officer) = "read-only"
      BY <2>1 DEF InStep
    <2>5. reading[v] = None => form[v] = "read-only"
      BY <2>1 DEF InStep
    <2> QED
      BY <1>1, <1>2, <2>3, <2>4, <2>5 DEF InStep
  <1> QED
    BY <1>5, <1>7

LEMMA InStepStep ==
  ASSUME Chat!ClarificationViewAssumption, OneWindowEach, MaxReassigns = 0, MaxLosses = 0,
         Chat!TypeOK, Chat!TypeOK', \A v \in Windows : InStep(v), [Chat!Next]_Chat!vars
  PROVE  \A v \in Windows : InStep(v)'
  <1>1. CASE UNCHANGED <<record, reading, shown, form, text, asked, call>>
    BY <1>1 DEF InStep, Sendable
  <1>2. ASSUME NEW officer \in Officers, Chat!Reassign(officer)
        PROVE  FALSE
    BY <1>2 DEF Chat!Reassign, Chat!TypeOK
  <1>3. ASSUME NEW w \in Windows, Chat!ReloadFails(w) \/ Chat!CallFails(w)
        PROVE  FALSE
    BY <1>3 DEF Chat!ReloadFails, Chat!CallFails, Chat!TypeOK
  <1>4. ASSUME NEW w \in Windows, Chat!StartReload(w)
        PROVE  \A v \in Windows : InStep(v)'
    <2>1. /\ reading' = [reading EXCEPT ![w] = Chat!Seen] /\ call[w] = None
          /\ UNCHANGED <<record, shown, form, text, asked, call>>
      BY <1>4 DEF Chat!StartReload, Chat!ui, Chat!Idle
    <2>2. Chat!Seen # None
      BY SeenTyped DEF Chat!ClarificationViewAssumption
    <2> QED
      BY <2>1, <2>2, SeenTyped DEF Chat!TypeOK, InStep, Sendable
  <1>5. ASSUME NEW w \in Windows, Chat!FinishReload(w)
        PROVE  \A v \in Windows : InStep(v)'
    <2>1. reading[w] \in Chat!Loaded
      BY <1>5 DEF Chat!FinishReload, Chat!TypeOK
    <2>2. PICK l \in Chat!Loaded : shown' = [shown EXCEPT ![w] = l] /\ l.count = Len(record.said)
      BY <1>5, <2>1, SeenTyped, Counted DEF Chat!FinishReload
    <2>3. /\ form' = [form EXCEPT ![w] =
                        Chat!Form(UserOf[w], reading[w].status, reading[w].officer)]
          /\ text' = [text EXCEPT ![w] = None] /\ reading' = [reading EXCEPT ![w] = None]
          /\ UNCHANGED <<record, asked, call>> /\ reading[w] # None
      BY <1>5 DEF Chat!FinishReload
    <2>4. /\ reading[w].officer = record.officer
          /\ \/ reading[w].status = record.status
             \/ Chat!Form(UserOf[w], reading[w].status, record.officer) = "read-only"
      BY <2>3 DEF InStep
    <2>5. form'[w] # "read-only" => form'[w] = Chat!Form(UserOf[w], record.status, record.officer)
      <3>1. form'[w] = Chat!Form(UserOf[w], reading[w].status, reading[w].officer)
        BY <2>3 DEF Chat!TypeOK
      <3> QED
        BY <2>4, <3>1
    <2>6. shown'[w].count = Len(record.said) /\ text'[w] = None /\ reading'[w] = None
      BY <2>2, <2>3 DEF Chat!TypeOK
    <2>7. InStep(w)'
      BY <2>3, <2>5, <2>6 DEF InStep, Sendable
    <2>8. ASSUME NEW v \in Windows, v # w PROVE InStep(v)'
      <3>1. /\ shown'[v] = shown[v] /\ form'[v] = form[v] /\ text'[v] = text[v]
            /\ reading'[v] = reading[v] /\ asked'[v] = asked[v] /\ call'[v] = call[v]
        BY <2>2, <2>3, <2>8 DEF Chat!TypeOK
      <3> QED
        BY <2>3, <3>1 DEF InStep, Sendable
    <2> QED
      BY <2>7, <2>8
  <1>6. ASSUME NEW w \in Windows, Chat!Type(w)
        PROVE  \A v \in Windows : InStep(v)'
    BY <1>6 DEF Chat!Type, Chat!HasBox, Chat!Idle, Chat!TypeOK, InStep, Sendable
  <1>7. ASSUME NEW w \in Windows, NEW op \in Chat!Ops, Chat!Ask(w, op)
        PROVE  \A v \in Windows : InStep(v)'
    <2>1. /\ asked' = [asked EXCEPT ![w] = [op |-> op, text |-> text[w]]]
          /\ UNCHANGED <<record, reading, shown, form, text, call>>
          /\ reading[w] = None /\ call[w] = None /\ Chat!Offers(form[w], op)
          /\ Chat!NeedsText(op) => text[w] # None
      BY <1>7 DEF Chat!Ask, Chat!ui, Chat!Idle
    <2>2. form[w] = Chat!Form(UserOf[w], record.status, record.officer) /\ text[w] \in {None, Len(record.said)}
      BY <2>1, ReadOnlyOffersNothing DEF InStep
    <2>3. Sendable(w, [op |-> op, text |-> text[w]])
      BY <2>1, <2>2 DEF Sendable
    <2> QED
      BY <2>1, <2>3 DEF Chat!TypeOK, InStep, Sendable
  <1>8. ASSUME NEW w \in Windows, Chat!Decline(w) \/ Chat!Begin(w)
        PROVE  \A v \in Windows : InStep(v)'
    BY <1>8 DEF Chat!Decline, Chat!Begin, Chat!ui, Chat!Idle, Chat!TypeOK, InStep, Sendable
  <1>9. ASSUME NEW w \in Windows, Chat!Commit(w)
        PROVE  \A v \in Windows : InStep(v)'
    <2>1. CASE Chat!Answered(w) /\ reading' = [reading EXCEPT ![w] = Chat!Seen']
      BY <1>9, <2>1, InStepCommit
    <2>2. CASE UNCHANGED <<record, reading>>
      BY <1>9, <2>2 DEF Chat!Commit, Chat!ui, Chat!TypeOK, InStep, Sendable
    <2> QED
      BY <1>9, <2>1, <2>2 DEF Chat!Commit
  <1> QED
    BY <1>1, <1>2, <1>3, <1>4, <1>5, <1>6, <1>7, <1>8, <1>9
       DEF Chat!Next, Chat!vars, Chat!ui, Chat!Reconnect, Chat!Deliver

LEMMA AnswersStep ==
  ASSUME Chat!ClarificationViewAssumption, AnswersInv, [Chat!Next]_Chat!vars
  PROVE  Chat!AnswersWhatWasSeen'
  <1>1. CASE record'.said = record.said
    BY <1>1 DEF AnswersInv, Chat!AnswersWhatWasSeen
  <1>2. ASSUME NEW w \in Windows, call[w] # None, Chat!Answered(w)
        PROVE  Chat!AnswersWhatWasSeen'
    <2>1. /\ record'.said = Append(record.said, Chat!Said(w))
          /\ Chat!Said(w).seen = IF Chat!NeedsText(call[w].op) THEN call[w].text ELSE Len(record.said)
          /\ Chat!Said(w) \in Chat!Messages /\ record.said \in Seq(Chat!Messages)
      BY <1>2, Accepted DEF AnswersInv, Chat!TypeOK
    <2>2. Chat!Said(w).seen = Len(record.said)
      BY <1>2, <2>1 DEF AnswersInv, InStep, Sendable
    <2> QED
      BY <2>1, <2>2, AppendFacts DEF AnswersInv, Chat!AnswersWhatWasSeen
  <1> QED
    BY <1>1, <1>2, SaidStep DEF AnswersInv

\* An answer was written with everything said before it on the screen, when each
\* side has one window, the officer stays and no query fails.
THEOREM AnswersSound ==
  ASSUME Chat!ClarificationViewAssumption, OneWindowEach, MaxReassigns = 0, MaxLosses = 0
  PROVE  Chat!Spec => []Chat!AnswersWhatWasSeen
  <1>1. Chat!Init => AnswersInv
    <2> SUFFICES ASSUME Chat!Init PROVE AnswersInv
      OBVIOUS
    <2>1. Chat!TypeOK
      BY InitTyped
    <2>2. Len(record.said) = 1
      BY DEF Chat!Init
    <2> QED
      BY <2>1, <2>2, SeenTyped DEF Chat!Init, AnswersInv, InStep, Chat!AnswersWhatWasSeen
  <1>2. AnswersInv /\ [Chat!Next]_Chat!vars => AnswersInv'
    BY TypeStep, InStepStep, AnswersStep DEF AnswersInv
  <1>3. AnswersInv => Chat!AnswersWhatWasSeen
    BY DEF AnswersInv
  <1> QED
    BY <1>1, <1>2, <1>3, PTL DEF Chat!Spec
=============================================================================
