---------------------------- MODULE MasterScreen ----------------------------
(***************************************************************************)
(* One window of the master data workspace: the client, project or site    *)
(* screen, its toolbar (search box, status filter, buttons), its grid and  *)
(* the dialogs it opens, over a table that other users change too.         *)
(*                                                                         *)
(* Three objects remember a selection, each for itself: the grid keeps the *)
(* id of the row it highlights, the toolbar the record its buttons are     *)
(* enabled for, the screen the record its commands act on.  Every load     *)
(* has to bring the three together again, and the site and project screens *)
(* (Kind = "site") do so differently from the client screen ("client").    *)
(*                                                                         *)
(* A load is synchronous, so no handler of the window runs inside it; but  *)
(* a native message box runs the event loop, and the search timer expires  *)
(* under one.  The permissions read when the screen opened are all granted.*)
(***************************************************************************)
EXTENDS Naturals, Sequences, FiniteSets

CONSTANTS
  Records,      \* ids a record of the table may have
  Names,        \* what a record may be called; a search looks for one of them
  AnyName,      \* the empty search box
  NoRecord,     \* no record selected
  Kind,         \* "site": the site and project screens; "client"
  MayFail,      \* the query of a load, or a save, may fail
  MaxForeign,   \* bound on the changes of other users
  MaxGestures   \* bound on the commands, searches and filters of this user

ScreenAssumption ==
  /\ Kind \in {"site", "client"}
  /\ AnyName \notin Names /\ NoRecord \notin Records
  /\ MayFail \in BOOLEAN /\ MaxForeign \in Nat /\ MaxGestures \in Nat

VARIABLES
  table,        \* the table: Records -> Row
  filter,       \* status filter of the toolbar
  search,       \* text of the search box
  timer,        \* a debounced search is scheduled
  rows,         \* what the grid lists: Records -> Row
  asked,        \* the filter and text the rows answer; <<>> after a failed load
  highlight,    \* MasterDataGrid.selected_row_id
  selected,     \* selected_site / selected_project / selected_client
  button,       \* MasterDataToolbar.selected_record
  boxes,        \* dialogs and message boxes, the topmost first
  target,       \* the record the open dialog was opened for
  foreign, gestures

vars == <<table, filter, search, timer, rows, asked, highlight, selected,
          button, boxes, target, foreign, gestures>>

Filters == {"Active", "Inactive", "All"}

\* A row of the table; "absent" is a row that is not there.
Absent == [status |-> "absent", name |-> AnyName]
Row == {Absent} \cup [status : {"Active", "Inactive"}, name : Names]

\* A record as a screen object holds it: a copy of a row with its id.
Held(r, row) == [id |-> r, row |-> row]
Nothing == Held(NoRecord, Absent)

TypeOK ==
  /\ table \in [Records -> Row] /\ rows \in [Records -> Row]
  /\ filter \in Filters /\ search \in Names \cup {AnyName}
  /\ timer \in BOOLEAN
  /\ asked \in {<<>>} \cup (Filters \X (Names \cup {AnyName}))
  /\ highlight \in Records \cup {NoRecord}
  /\ {selected, button, target}
       \subseteq {Nothing} \cup [id : Records, row : Row \ {Absent}]
  /\ boxes \in Seq({"create", "edit", "archive", "restore", "error", "told"})
  /\ foreign \in 0..MaxForeign /\ gestures \in 0..MaxGestures

-----------------------------------------------------------------------------
(* The queries. *)

\* SiteRepository.search: rows of the wanted status that contain the text.
Answer(db, f, s) ==
  [r \in Records |->
     IF /\ db[r].status # "absent"
        /\ f = "All" \/ db[r].status = f
        /\ s = AnyName \/ db[r].name = s
     THEN db[r] ELSE Absent]

\* MasterDataGrid.get_selected_row: the row of the highlighted id, if listed.
RowOf(list, r) ==
  IF r = NoRecord \/ (r # NoRecord /\ list[r] = Absent)
  THEN Nothing ELSE Held(r, list[r])

-----------------------------------------------------------------------------
(* The grid, the toolbar and the screen. *)

\* clear_selection of the screen: grid, screen and toolbar together.
ClearSelection == highlight' = NoRecord /\ selected' = Nothing /\ button' = Nothing

\* _is_loading: a load that reported its error still has its message box up.
IsLoading == \E i \in DOMAIN boxes : boxes[i] = "error"

\* set_rows: the highlight stays on its row while the row is listed.
StillListed(list, r) == IF RowOf(list, r) = Nothing THEN NoRecord ELSE r

\* Mutant: what is selected survives a list it is not in.
SitesLoadedUnmatched(db, f, s, wanted) ==
  /\ rows' = Answer(db, f, s) /\ asked' = <<f, s>>
  /\ highlight' = StillListed(rows', highlight)
  /\ UNCHANGED <<selected, button>>

\* load_sites: the record `wanted` is selected again from the new rows.
\* set_rows has told screen and toolbar of the row the grid kept; then
\* _restore_selection looks for a method the grid does not have, so screen and
\* toolbar move to the wanted record and the highlight stays where it was.
SitesLoaded(db, f, s, wanted) ==
  LET list == Answer(db, f, s) IN
  /\ rows' = list /\ asked' = <<f, s>>
  /\ IF RowOf(list, wanted) = Nothing
     THEN ClearSelection
     ELSE /\ highlight' = StillListed(list, highlight)
          /\ selected' = RowOf(list, wanted) /\ button' = RowOf(list, wanted)

\* Mutants: the screen is not told of what the grid kept; the grid keeps nothing.
ClientsLoadedUntold(db, f, s, keep) ==
  /\ rows' = Answer(db, f, s) /\ asked' = <<f, s>>
  /\ highlight' = IF keep THEN StillListed(rows', highlight) ELSE NoRecord
  /\ UNCHANGED <<selected, button>>
ClientsLoadedAnew(db, f, s, keep) ==
  /\ rows' = Answer(db, f, s) /\ asked' = <<f, s>> /\ ClearSelection

\* load_clients: screen and toolbar follow the row the grid kept.
ClientsLoaded(db, f, s, keep) ==
  LET list == Answer(db, f, s)
      kept == IF keep THEN StillListed(list, highlight) ELSE NoRecord IN
  /\ rows' = list /\ asked' = <<f, s>>
  /\ highlight' = kept
  /\ selected' = RowOf(list, kept) /\ button' = RowOf(list, kept)

\* The site screen keeps everything when the query fails ...
SitesNotLoaded(chosen) ==
  /\ selected' = chosen
  /\ asked' = <<>>
  /\ UNCHANGED <<rows, highlight, button>>

\* ... the client screen empties its list, and so does a site screen whose
\* user may no longer look at the records.
EmptyList ==
  /\ rows' = [r \in Records |-> Absent] /\ asked' = <<>>
  /\ ClearSelection

\* One load: `chosen` is what the screen holds as selected when it starts,
\* `keep` whether the grid may keep its highlight.  `rest` are the boxes that
\* are or come up beneath the error of a load that fails.
Load(db, f, s, chosen, keep, rest) ==
  \/ /\ boxes' = rest
     /\ IF Kind = "site" THEN SitesLoaded(db, f, s, chosen.id)
                         ELSE ClientsLoaded(db, f, s, keep)
  \/ /\ MayFail
     /\ boxes' = <<"error">> \o rest
     /\ \/ Kind = "site" /\ SitesNotLoaded(chosen)
        \/ EmptyList

\* The window takes gestures only while no dialog or box is over it.
Free == boxes = <<>> /\ gestures < MaxGestures /\ gestures' = gestures + 1

Init ==
  /\ table \in [Records -> Row]
  /\ filter = "Active" /\ search = AnyName /\ timer = FALSE
  /\ rows = Answer(table, "Active", AnyName) /\ asked = <<"Active", AnyName>>
  /\ highlight = NoRecord /\ selected = Nothing /\ button = Nothing
  /\ boxes = <<>> /\ target = Nothing
  /\ foreign = 0 /\ gestures = 0

-----------------------------------------------------------------------------
(* Search, filter, refresh, rows. *)

\* A key in the search box starts the timer anew.
TypeSearch(s) ==
  /\ Free /\ s # search
  /\ search' = s /\ timer' = TRUE
  /\ UNCHANGED <<table, filter, rows, asked, highlight, selected, button, boxes,
                 target, foreign>>

\* Mutant: no search under a dialog.
RunDebouncedSearchIfFree ==
  /\ timer /\ timer' = FALSE
  /\ IF boxes # <<>>
     THEN UNCHANGED <<rows, asked, highlight, selected, button, boxes>>
     ELSE Load(table, filter, search, selected, TRUE, boxes)
  /\ UNCHANGED <<table, filter, search, target, foreign, gestures>>

\* The timer expires: a load, unless one is under way.
RunDebouncedSearch ==
  /\ timer /\ timer' = FALSE
  /\ IF IsLoading
     THEN UNCHANGED <<rows, asked, highlight, selected, button, boxes>>
     ELSE Load(table, filter, search, selected, TRUE, boxes)
  /\ UNCHANGED <<table, filter, search, target, foreign, gestures>>

\* Another status: the selection goes, the rows are read again.
HandleStatusChange(f) ==
  /\ Free
  /\ filter' = f
  /\ timer' = (timer /\ Kind = "site")
  /\ \/ /\ boxes' = <<>>
        /\ rows' = Answer(table, f, search) /\ asked' = <<f, search>>
        /\ ClearSelection
     \/ /\ MayFail /\ boxes' = <<"error">>
        /\ \/ EmptyList
           \/ Kind = "site" /\ ClearSelection /\ asked' = <<>> /\ UNCHANGED rows
  /\ UNCHANGED <<table, search, target, foreign>>

HandleRefresh ==
  /\ Free
  /\ timer' = (timer /\ Kind = "site")
  /\ Load(table, filter, search, selected, TRUE, <<>>)
  /\ UNCHANGED <<table, filter, search, target, foreign>>

\* A click on a row: the grid highlights it and tells screen and toolbar.
SelectRow(r) ==
  /\ Free /\ rows[r] # Absent
  /\ highlight' = r
  /\ selected' = RowOf(rows, r) /\ button' = RowOf(rows, r)
  /\ UNCHANGED <<table, filter, search, timer, rows, asked, boxes, target, foreign>>

-----------------------------------------------------------------------------
(* Commands. *)

\* _get_selected_site: the screen's own record, else the grid's row.
GetSelected == IF selected # Nothing THEN selected ELSE RowOf(rows, highlight)

\* A command opens `box` for the selected record when its status is the one
\* the command is for, and a warning otherwise.
Open(box, status) ==
  /\ Free
  /\ GetSelected # Nothing
  /\ selected' = GetSelected
  /\ IF GetSelected.row.status = status
     THEN boxes' = <<box>> /\ target' = GetSelected
     ELSE boxes' = <<"told">> /\ UNCHANGED target
  /\ UNCHANGED <<table, filter, search, timer, rows, asked, highlight, button, foreign>>

\* The toolbar looks at the record it holds, the screen at its own.
HandleEdit == button # Nothing /\ Open("edit", "Active")
HandleArchive == button.row.status = "Active" /\ Open("archive", "Active")
HandleRestore == button.row.status = "Inactive" /\ Open("restore", "Inactive")

HandleNew ==
  /\ Free
  /\ boxes' = <<"create">> /\ target' = Nothing
  /\ UNCHANGED <<table, filter, search, timer, rows, asked, highlight, selected,
                 button, foreign>>

\* Cancel, No, or OK in a message box.
Dismiss ==
  /\ boxes # <<>>
  /\ boxes' = Tail(boxes)
  /\ target' = IF Tail(boxes) = <<>> THEN Nothing ELSE target
  /\ UNCHANGED <<table, filter, search, timer, rows, asked, highlight, selected,
                 button, foreign, gestures>>

\* A record was saved: it becomes the selected one, the rows are read again
\* and the user is told, all before the dialog closes.
AfterSaved(db, r) ==
  Load(db, filter, search, Held(r, db[r]), TRUE, <<"told">>)

CreateRecord(r, n) ==
  LET db == [table EXCEPT ![r] = [status |-> "Active", name |-> n]] IN
  /\ boxes = <<"create">> /\ table[r] = Absent
  /\ table' = db /\ target' = Nothing
  /\ AfterSaved(db, r)
  /\ UNCHANGED <<filter, search, timer, foreign, gestures>>

\* update_site and update_project: the record must still be active.
\* update_client: it must exist, and is saved also when it was archived meanwhile.
UpdateRecord(n) ==
  LET r == target.id
      db == [table EXCEPT ![r].name = n] IN
  /\ boxes = <<"edit">> /\ table[r] # Absent
  /\ Kind = "site" => table[r].status = "Active"
  /\ table' = db /\ target' = Nothing
  /\ AfterSaved(db, r)
  /\ UNCHANGED <<filter, search, timer, foreign, gestures>>

\* Yes in the confirmation: the service sets the status of a record that still
\* has the other one.  The site screen selects the record again, if the filter
\* still lists it; the client screen starts without a selection.
SetStatus(box, from, to) ==
  LET r == target.id
      db == [table EXCEPT ![r].status = to] IN
  /\ boxes = <<box>> /\ table[r].status = from
  /\ table' = db /\ target' = Nothing
  /\ \/ /\ Kind = "site"
        /\ \/ SitesLoaded(db, filter, search, r) /\ boxes' = <<"told">>
           \/ /\ MayFail /\ boxes' = <<"error", "told">>
              /\ SitesNotLoaded(selected) \/ EmptyList
     \/ /\ Kind = "client"
        /\ Load(db, filter, search, Nothing, FALSE, <<"told">>)
  /\ UNCHANGED <<filter, search, timer, foreign, gestures>>

ArchiveConfirmed == SetStatus("archive", "Active", "Inactive")
RestoreConfirmed == SetStatus("restore", "Inactive", "Active")

\* The service refuses or the transaction fails: the confirmation is gone and a
\* message box says why.  (A form says why and stays open: no step.)
Refused ==
  /\ boxes \in {<<"archive">>, <<"restore">>}
  /\ MayFail \/ table[target.id].status # target.row.status
  /\ boxes' = <<"told">> /\ target' = Nothing
  /\ UNCHANGED <<table, filter, search, timer, rows, asked, highlight, selected,
                 button, foreign, gestures>>

-----------------------------------------------------------------------------
\* Another user creates, renames, archives or restores a record.
ForeignChange(r, row) ==
  /\ foreign < MaxForeign /\ foreign' = foreign + 1
  /\ row \notin {Absent, table[r]}
  /\ table' = [table EXCEPT ![r] = row]
  /\ UNCHANGED <<filter, search, timer, rows, asked, highlight, selected, button,
                 boxes, target, gestures>>

Next ==
  \/ \E s \in Names \cup {AnyName} : TypeSearch(s)
  \/ RunDebouncedSearch
  \/ \E f \in Filters : HandleStatusChange(f)
  \/ HandleRefresh
  \/ \E r \in Records : SelectRow(r)
  \/ HandleEdit \/ HandleArchive \/ HandleRestore \/ HandleNew
  \/ Dismiss
  \/ \E r \in Records, n \in Names : CreateRecord(r, n)
  \/ \E n \in Names : UpdateRecord(n)
  \/ ArchiveConfirmed \/ RestoreConfirmed \/ Refused
  \/ \E r \in Records, row \in Row : ForeignChange(r, row)

Spec == Init /\ [][Next]_vars

-----------------------------------------------------------------------------
(* Properties. *)

\* The row the user sees highlighted is the record the buttons are enabled for
\* and the commands act on (the toolbar: "Whether a row is selected", "Whether
\* the selected row is active").  After a load each of the three is set by its
\* own path: set_rows, on_select, _restore_selection.
ButtonsFollowTheRow ==
  button = RowOf(rows, highlight) /\ selected = button

\* What a command would act on is a row the grid lists, as it lists it: no
\* load, save or archived record leaves a selection the user cannot see.
TargetIsShown ==
  GetSelected # Nothing => rows[GetSelected.id] = GetSelected.row

\* With no search scheduled the grid answers the filter and the text that the
\* toolbar shows, or the user was told that the load failed: a timer that
\* expires under a message box, or is cancelled, leaves no older answer.
QuietMeansAnswered == timer \/ asked = <<>> \/ asked = <<filter, search>>

\* A refresh or a search that still lists the selected record keeps it.
SelectionKept ==
  RunDebouncedSearch \/ HandleRefresh =>
    \/ selected = Nothing \/ rows'[selected.id] = Absent
    \/ asked' = <<>> \/ selected'.id = selected.id

\* A search is answered in the end, under whatever box is up when it is due.
SearchIsAnswered == timer ~> asked = <<filter, search>>
=============================================================================
