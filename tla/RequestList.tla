------------------------------ MODULE RequestList ------------------------------
(***************************************************************************)
(* The quotation list (quotation_view.py) with get_material_requests: a    *)
(* status filter, a search text, the counts on the filter buttons and the  *)
(* cards.  An event of another client is followed, 150 ms after the last   *)
(* one, by a refresh that reads all requests and then the filtered ones,   *)
(* each in a transaction of its own, and synchronises the cards.           *)
(*                                                                         *)
(* A request is its number (requests are listed newest first), its status  *)
(* and one text that the search looks at.                                  *)
(***************************************************************************)
EXTENDS Integers, FiniteSets, CardList

CONSTANTS
  Requests,    \* numbers of the requests, in the order of created_at
  Statuses, Archived, Texts,
  Filters,     \* the filter buttons: "All", "Active" and statuses
  None,        \* no text, no request, no refresh
  MaxChanges,  \* bound: what others change
  MaxFailures, \* bound: reads that fail
  MaxInputs    \* bound: clicks and keys

RequestListAssumption ==
  /\ Requests \subseteq Nat /\ IsFiniteSet(Requests)
  /\ Archived \in Statuses /\ {"All", "Active"} \subseteq Filters
  /\ Filters \subseteq {"All", "Active"} \cup Statuses
  /\ None \notin Texts \cup {"sync", "full"}
  /\ MaxChanges \in Nat /\ MaxFailures \in Nat /\ MaxInputs \in Nat

VARIABLES
  db,      \* the requests that exist
  events,  \* events that have not reached the view
  all, requests, filter, search, \* all_requests, requests, status_filter, entry
  counts,  \* what the filter buttons say
  screen,  \* the cards
  timer,   \* the scheduled refresh and its _pending_full_rebuild
  reading, \* a refresh between its two reads
  changes, failures, inputs

loaded == <<all, requests, counts, screen>>
bounds == <<changes, failures, inputs>>
vars == <<db, events, loaded, filter, search, timer, reading, bounds>>

\* The WHERE clause of get_material_requests.
Selected(status, f) ==
  CASE f = "All" -> TRUE [] f = "Active" -> status # Archived
    [] OTHER -> status = f

\* The records that it makes of the rows, ORDER BY created_at DESC.
Records(rows, f) ==
  LET Record(i) == [id |-> i, status |-> rows[i].status, text |-> rows[i].text]
      Newer(a, b) == a.id > b.id
  IN  SetToSortSeq({Record(i) : i \in {j \in Requests :
                      rows[j] # None /\ Selected(rows[j].status, f)}}, Newer)

\* get_material_requests
Fetch(f) == Records(db, f)

\* _get_visible_requests
Visible(records, text) ==
  LET Found(r) == text = None \/ r.text = text IN SelectSeq(records, Found)

\* update_filter_counts
Count(allRequests, filtered) ==
  [f \in Filters |-> Len(SelectSeq(allRequests, LAMBDA r : Selected(r.status, f)))]

TypeOK ==
  /\ \A i \in Requests : db[i] # None => db[i] \in [status : Statuses, text : Texts]
  /\ events \in Nat /\ filter \in Filters /\ search \in Texts \cup {None}
  /\ counts \in [Filters -> 0..Cardinality(Requests)]
  /\ timer \in {None, "sync", "full"}
  /\ reading.how \in {None, "sync", "full"}
  /\ changes \in 0..MaxChanges /\ failures \in 0..MaxFailures
  /\ inputs \in 0..MaxInputs

\* Between two refreshes.
NotReading == [how |-> None, all |-> << >>]

\* render_requests: every widget is destroyed, and the cards built again.
Render(records, text) == Sync(Blank, Visible(records, text))

Init ==
  /\ \E there \in SUBSET Requests : \E status \in [there -> Statuses] :
       db = [i \in Requests |-> IF i \notin there THEN None
               ELSE [status |-> status[i], text |-> CHOOSE t \in Texts : TRUE]]
  /\ events = 0 /\ filter = "Active" /\ search = None
  /\ all = Fetch("All") /\ requests = Fetch("Active")
  /\ counts = Count(all, requests) /\ screen = Render(requests, None)
  /\ timer = None /\ reading = NotReading
  /\ changes = 0 /\ failures = 0 /\ inputs = 0

-----------------------------------------------------------------------------
(* Other clients                                                           *)

\* A request is created, or its status or text changes; with it an event.
Change(i) ==
  /\ changes < MaxChanges /\ changes' = changes + 1
  /\ \E new \in [status : Statuses, text : Texts] :
       /\ new # db[i] /\ db[i] = None => new.status # Archived
       /\ db' = [db EXCEPT ![i] = new]
  /\ events' = events + 1
  /\ UNCHANGED <<loaded, filter, search, timer, reading, failures, inputs>>

-----------------------------------------------------------------------------
(* Events and the refresh (the Tk thread; nothing of it runs between the   *)
(* reads)                                                                  *)

\* _schedule_realtime_refresh: the last one replaces the one before it.
Schedule(how) == timer' = how

Idle == reading.how = None

\* handle_realtime_event
Event ==
  /\ Idle /\ events > 0 /\ events' = events - 1 /\ Schedule("sync")
  /\ UNCHANGED <<db, loaded, filter, search, reading, bounds>>

\* The reconciliation after a reconnection stands for all events before it.
Reconcile ==
  /\ Idle /\ events > 0 /\ events' = 0 /\ Schedule("full")
  /\ UNCHANGED <<db, loaded, filter, search, reading, bounds>>

\* The first read of load_requests and _refresh_requests_incrementally.
ReadAll(how) == reading' = [how |-> how, all |-> Fetch("All")]

\* _run_realtime_refresh
Refresh ==
  /\ Idle /\ timer # None /\ timer' = None /\ ReadAll(timer)
  /\ UNCHANGED <<db, events, loaded, filter, search, bounds>>

\* Mutant: only the filtered requests are compared.
SameRequests(newAll, new) == new = requests

\* The data is as it was: nothing is touched.
Same(newAll, new) == newAll = all /\ new = requests

\* Mutant: the numbers of the last load are not reset before the count.
ShowLoadedOnTop(newAll, new) ==
  /\ all' = newAll /\ requests' = new
  /\ counts' = [f \in Filters |-> counts[f] + Count(newAll, new)[f]]

ShowLoaded(newAll, new) ==
  /\ all' = newAll /\ requests' = new /\ counts' = Count(newAll, new)

\* The second read of load_requests: everything is built anew.
ShowFull ==
  /\ reading.how = "full"
  /\ ShowLoaded(reading.all, Fetch(filter))
  /\ screen' = Render(requests', search)
  /\ reading' = NotReading
  /\ UNCHANGED <<db, events, filter, search, timer, bounds>>

\* The second read of _refresh_requests_incrementally.
ShowSync ==
  /\ reading.how = "sync"
  /\ LET new == Fetch(filter)
     IN  IF Same(reading.all, new) THEN UNCHANGED loaded
         ELSE /\ ShowLoaded(reading.all, new)
              /\ screen' = Sync(screen, Visible(new, search))
  /\ reading' = NotReading
  /\ UNCHANGED <<db, events, filter, search, timer, bounds>>

\* Either read fails: a synchronisation keeps what is shown, a full load
\* shows nothing.
ReadFails ==
  /\ ~Idle /\ failures < MaxFailures /\ failures' = failures + 1
  /\ IF reading.how = "sync" THEN UNCHANGED loaded
     ELSE ShowLoaded(<< >>, << >>) /\ screen' = Render(<< >>, search)
  /\ reading' = NotReading
  /\ UNCHANGED <<db, events, filter, search, timer, changes, inputs>>

-----------------------------------------------------------------------------
(* The user                                                                *)

MayInput == Idle /\ inputs < MaxInputs

Input == MayInput /\ inputs' = inputs + 1

\* set_status_filter; the button "Refresh" loads with the filter as it is.
SetFilter(f) ==
  /\ Input /\ filter' = f /\ ReadAll("full")
  /\ UNCHANGED <<db, events, loaded, search, timer, changes, failures>>

\* A key in the search entry.
TypeSearch(text) ==
  /\ Input /\ search' = text /\ screen' = Render(requests, text)
  /\ UNCHANGED <<db, events, all, requests, counts, filter, timer, reading,
                 changes, failures>>

\* Text pasted with the mouse raises no KeyRelease: nothing is rendered.
PasteSearch(text) ==
  /\ Input /\ search' = text
  /\ UNCHANGED <<db, events, loaded, filter, timer, reading, changes, failures>>

Next ==
  \/ \E i \in Requests : Change(i)
  \/ Event \/ Reconcile \/ Refresh \/ ShowFull \/ ShowSync \/ ReadFails
  \/ \E f \in Filters : SetFilter(f)
  \/ \E text \in Texts \cup {None} : TypeSearch(text) \/ PasteSearch(text)

Spec == Init /\ [][Next]_vars

-----------------------------------------------------------------------------
(* Properties                                                              *)

\* The cards that events add, change, move and remove one by one are, at any
\* time, those that building the list anew would give for the loaded requests
\* and a text that was searched for: in the order of the data, each with its
\* current record, the label exactly when there is none ("Reorder without
\* rebuilding", _sync_visible_request_cards).
ScreenIsRender ==
  \E text \in Texts \cup {None} : Shows(screen, Visible(requests, text))

\* The numbers on the filter buttons count the requests that were loaded,
\* whatever the filter and however the last load ended.
CountsAreOfAll ==
  \A f \in Filters :
    counts[f] = Cardinality({i \in DOMAIN all : Selected(all[i].status, f)})

\* When no event is on its way and no refresh is due, the list and the numbers
\* are those of the database, although each refresh reads twice, a filter is
\* chosen between events and a reconciliation forgets that it wanted to
\* rebuild.
QuietMeansCurrent ==
  events = 0 /\ timer = None /\ Idle =>
    /\ all = Fetch("All") /\ requests = Fetch(filter)
    /\ counts = Count(all, requests)
===============================================================================
