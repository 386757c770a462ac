------------------------------- MODULE Dashboard -------------------------------
(***************************************************************************)
(* The dashboard (dashboard_view.py) with DashboardService: the requests of*)
(* the user's perspective in the order of priority and due date, six       *)
(* numbers, and how many matters wait for the user.                        *)
(*                                                                         *)
(* get_dashboard reads the requests and the matters that wait in two       *)
(* transactions.  An event leads to a refresh that changes the widgets     *)
(* which differ; "Refresh" and the reconciliation rebuild everything.      *)
(***************************************************************************)
EXTENDS Integers, FiniteSets, CardList

CONSTANTS
  Requests,     \* numbers of the requests, in the order of created_at
  Perspectives, \* those of the instance: "engineering", "purchasing", "manager"
  None,
  Statuses,     \* those of the instance
  Today,        \* a day; due dates are days around it, and NoDue
  MaxChanges, MaxFailures, MaxClicks \* bounds

DashboardAssumption ==
  /\ Requests \subseteq Nat /\ IsFiniteSet(Requests)
  /\ Perspectives \subseteq {"engineering", "purchasing", "manager"}
  /\ Today \in Nat /\ MaxChanges \in Nat /\ MaxFailures \in Nat
  /\ MaxClicks \in Nat /\ None \notin {"sync", "full"}

VARIABLES
  db,          \* the requests, with the status of their clarification
  day,         \* date.today()
  events,      \* events that have not reached the view
  perspective,
  data,        \* dashboard_data
  summary,     \* what the six labels say
  attention,   \* what the banner says
  screen,      \* the cards
  timer, reading, changes, failures, clicks

shown  == <<data, summary, attention, screen>>
bounds == <<changes, failures, clicks>>
vars == <<db, day, events, perspective, shown, timer, reading, bounds>>

NoDue == Today + 2

\* A request as others make and change it: "me" is the user of the dashboard.
Row == {r \in [status : Statuses, requester : {"me", "other"},
               assignee : {"me", "other", None}, priority : 1..2,
               due : {Today, NoDue},
               clarification : {None, "awaiting", "ready"}] :
          /\ r.assignee = None => r.status \in {"New", "Archived"}
          /\ r.clarification # None => r.status = "In Progress"}

\* _get_material_requests: the WHERE clause of the perspective p.
Mine(r, p) ==
  /\ r.status # "Archived"
  /\ p = "engineering" => r.requester = "me"
  /\ p = "purchasing" => r.assignee = "me"

\* _is_overdue
Overdue(r) ==
  /\ r.due # NoDue /\ r.due < day
  /\ r.status \notin {"Completed", "Archived"}

Record(i) ==
  [id |-> i, status |-> db[i].status, assignee |-> db[i].assignee,
   priority |-> db[i].priority, due |-> db[i].due, overdue |-> Overdue(db[i])]

Existing == {i \in Requests : db[i] # None}

\* ORDER BY priority, due date with NULL last, created_at DESC: the numbers of
\* the requests of the perspective p.
Sorted(rows, p) ==
  LET Before(i, j) ==
        LET a == rows[i]
            b == rows[j]
        IN  \/ a.priority < b.priority
            \/ a.priority = b.priority /\ a.due < b.due
            \/ a.priority = b.priority /\ a.due = b.due /\ i > j
  IN  SetToSortSeq({i \in Requests : rows[i] # None /\ Mine(rows[i], p)}, Before)

FetchRecords ==
  LET numbers == Sorted(db, perspective)
  IN  [n \in DOMAIN numbers |-> Record(numbers[n])]

\* _get_attention_count
Waits(r) ==
  CASE perspective = "engineering" -> r.clarification = "awaiting"
    [] perspective = "purchasing" -> r.clarification = "ready"
    [] perspective = "manager" -> r.assignee = None

FetchAttention ==
  Cardinality({i \in Existing : Mine(db[i], perspective) /\ Waits(db[i])})

\* _build_cards
Labels == {"requests", "second", "In Progress", "Waiting Supplier Quote",
           "Completed", "attention"}

Having(records, statuses) ==
  Cardinality({n \in DOMAIN records : records[n].status \in statuses})

\* The second label: what is new, what is to be started, what is unassigned.
Second(records) ==
  CASE perspective = "engineering" -> Having(records, {"New", "Assigned"})
    [] perspective = "purchasing" -> Having(records, {"Assigned"})
    [] perspective = "manager" ->
         Cardinality({n \in DOMAIN records : records[n].assignee = None})

Numbers(records, waiting) ==
  [label \in Labels |-> CASE label = "requests" -> Cardinality(DOMAIN records)
                          [] label = "second" -> Second(records)
                          [] label = "attention" -> waiting
                          [] OTHER -> Having(records, {label})]

Data(records, waiting) ==
  [records |-> records, numbers |-> Numbers(records, waiting),
   attention |-> waiting]

TypeOK ==
  /\ \A i \in Existing : db[i] \in Row
  /\ day \in {Today, Today + 1} /\ events \in Nat
  /\ summary \in [Labels -> Nat] /\ attention \in Nat
  /\ timer \in {None, "sync", "full"}
  /\ changes \in 0..MaxChanges /\ failures \in 0..MaxFailures
  /\ clicks \in 0..MaxClicks

\* Between two refreshes.
NotReading == [how |-> None, records |-> << >>]

\* load_data and build_ui: reload_view.
Build(new) ==
  /\ data' = new /\ summary' = new.numbers /\ attention' = new.attention
  /\ screen' = Sync(Blank, new.records)

First == CHOOSE i \in Requests : \A j \in Requests : i <= j

\* The oldest request is there when the view is opened.
Init ==
  /\ perspective \in Perspectives /\ day = Today
  /\ \E r \in Row : /\ r.requester = "me" /\ r.priority = 1 /\ r.due = Today
                   /\ db = [i \in Requests |-> IF i = First THEN r ELSE None]
  /\ data = Data(FetchRecords, FetchAttention)
  /\ summary = data.numbers /\ attention = data.attention
  /\ screen = Sync(Blank, data.records)
  /\ events = 0 /\ timer = None /\ reading = NotReading
  /\ changes = 0 /\ failures = 0 /\ clicks = 0

-----------------------------------------------------------------------------
(* The others                                                              *)

\* Mutant: the dashboard does not hear of clarifications.
HeardUnlessClarified(old, new) ==
  old = None \/ new # [old EXCEPT !.clarification = new.clarification]

\* Events of clarifications are of entity type material_request as well.
Heard(old, new) == TRUE

\* A request is created, takes a step of the workflow or is reassigned, is
\* edited, or its clarification goes on.
Leads(old, new) ==
  \/ old = None /\ new.status = "New"
  \/ /\ old # None /\ new # old
     /\ \/ new = [old EXCEPT !.status = new.status, !.assignee = new.assignee]
        \/ new = [old EXCEPT !.priority = new.priority, !.due = new.due]
        \/ new = [old EXCEPT !.clarification = new.clarification]

Change(i) ==
  /\ changes < MaxChanges /\ changes' = changes + 1
  /\ \E new \in Row :
       /\ Leads(db[i], new)
       /\ db' = [db EXCEPT ![i] = new]
       /\ events' = IF Heard(db[i], new) THEN events + 1 ELSE events
  /\ UNCHANGED <<day, perspective, shown, timer, reading, failures, clicks>>

\* Midnight: no event tells of it.
NextDay ==
  /\ day = Today /\ day' = Today + 1
  /\ UNCHANGED <<db, events, perspective, shown, timer, reading, bounds>>

-----------------------------------------------------------------------------
(* The view                                                                *)

Idle == reading.how = None

\* handle_realtime_event: _schedule_realtime_refresh
Event ==
  /\ Idle /\ events > 0 /\ events' = events - 1 /\ timer' = "sync"
  /\ UNCHANGED <<db, day, perspective, shown, reading, bounds>>

Reconcile ==
  /\ Idle /\ events > 0 /\ events' = 0 /\ timer' = "full"
  /\ UNCHANGED <<db, day, perspective, shown, reading, bounds>>

\* get_dashboard reads the records first.
Read(how) == reading' = [how |-> how, records |-> FetchRecords]

\* _run_realtime_refresh
Refresh ==
  /\ Idle /\ timer # None /\ timer' = None /\ Read(timer)
  /\ UNCHANGED <<db, day, events, perspective, shown, bounds>>

Click == Idle /\ clicks < MaxClicks /\ clicks' = clicks + 1

\* _manual_refresh
ManualRefresh ==
  /\ Click /\ Read("full")
  /\ UNCHANGED <<db, day, events, perspective, shown, timer, changes, failures>>

\* Mutant: the labels are compared with the data that has replaced the old.
ComparedLate(old, new) == [label \in Labels |-> IF data'.numbers[label] # new[label]
                                                THEN new[label] ELSE summary[label]]

\* A label changes when its number differs from that of the data before.
NewSummary(old, new) == [label \in Labels |-> IF old[label] # new[label]
                                              THEN new[label] ELSE summary[label]]

\* _apply_incremental_data
Apply(new) ==
  /\ data' = new
  /\ summary' = NewSummary(data.numbers, new.numbers)
  /\ attention' = new.attention
  /\ screen' = Sync(screen, new.records)

\* get_dashboard reads how much waits, and the view shows it all.
Show ==
  /\ ~Idle /\ reading' = NotReading
  /\ LET new == Data(reading.records, FetchAttention)
     IN  IF reading.how = "full" THEN Build(new) ELSE Apply(new)
  /\ UNCHANGED <<db, day, events, perspective, timer, bounds>>

\* Either read fails, before a widget is touched.
ReadFails ==
  /\ ~Idle /\ reading' = NotReading
  /\ failures < MaxFailures /\ failures' = failures + 1
  /\ UNCHANGED <<db, day, events, perspective, shown, timer, changes, clicks>>

Next ==
  \/ \E i \in Requests : Change(i)
  \/ NextDay \/ Event \/ Reconcile \/ Refresh \/ ManualRefresh \/ Show \/ ReadFails

Spec == Init /\ [][Next]_vars

-----------------------------------------------------------------------------
(* Properties                                                              *)

\* The widgets that are changed one by one say what the loaded data says: the
\* cards in the order of the service, the six numbers, the banner.
BoardShowsData ==
  /\ Shows(screen, data.records)
  /\ summary = data.numbers /\ attention = data.attention

\* When no event is on its way and no refresh is due, the dashboard shows the
\* requests of its perspective as they are in the database, in the order of
\* urgency, and the number of matters that wait, although the two are read in
\* different transactions; only a due date may have passed since.
SameButOverdue(a, b) == [a EXCEPT !.overdue = b.overdue] = b
QuietMeansCurrent ==
  events = 0 /\ timer = None /\ Idle =>
    /\ DOMAIN data.records = DOMAIN FetchRecords
    /\ \A i \in DOMAIN data.records :
         SameButOverdue(data.records[i], FetchRecords[i])
    /\ data.numbers = Numbers(FetchRecords, FetchAttention)
===============================================================================
