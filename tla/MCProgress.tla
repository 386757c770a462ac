------------------------------ MODULE MCProgress ------------------------------
(***************************************************************************)
(* What must happen in the end: the worker, row locks, events, and views   *)
(* that reload, on small instances under the fairness of their modules.    *)
(* All start in their initial states; the first state chooses the instance *)
(* that moves (part), and only its fairness is assumed.                    *)
(***************************************************************************)
EXTENDS Integers, FiniteSets, Sequences, TLC

CONSTANT None

VARIABLES
  part,
  request, rowLock, worker, active, account, clock, failures,
  there, transaction, locks, calls,
  db, unread, session, socket, notifies, thread, connected, stopped, queue,
  ui, workspace, shown, cuts, refusals,
  row, underway, timer, busy, view, loaded, header, banner, attach, tab,
  dialog, told, torn, changes, acts, reconnects, fails,
  matter, coming, due, reading, seen, form, text, confirming, call,
  reassigns, resyncs, faults,
  table, filter, search, debounce, rows, asked, highlight, selected, button,
  boxes, target, foreign, gestures

work == <<request, rowLock, worker, active, account, clock, failures>>
rowLocks == <<there, transaction, locks, calls>>
wire == <<db, unread, session, socket, notifies, thread, connected, stopped,
          queue, ui, workspace, shown, cuts, refusals>>
details == <<row, underway, timer, busy, view, loaded, header, banner, attach,
             tab, dialog, told, torn, changes, acts, reconnects, fails>>
windows == <<matter, coming, due, reading, seen, form, text, confirming, call,
             reassigns, resyncs, faults>>
screen == <<table, filter, search, debounce, rows, asked, highlight, selected,
            button, boxes, target, foreign, gestures>>
vars == <<part, work, rowLocks, wire, details, windows, screen>>

-----------------------------------------------------------------------------
(* The instances.                                                          *)

\* Two workers, rows that others hold, accounts that come and go.
Work == INSTANCE AutoAssignment WITH
  Requests <- 1..2, Officers <- 1..2, Workers <- {"w1", "w2"}, Null <- None,
  Threshold <- 1, MaxAssignments <- 1, ManualWork <- FALSE,
  RowLocking <- TRUE, StaffChanges <- TRUE, MaxTime <- 1, MaxFailures <- 1

\* Every operation on one request and two quotations.
Locks == INSTANCE RowLocks WITH
  Clients <- {"c1", "c2"}, Quotations <- 1..2, NoCall <- None,
  Kinds <- {"create", "upload", "change_quotation", "delete_quotation",
            "delete_request", "request", "clarify", "attach", "claim"},
  MaxCalls <- 3, call <- transaction

\* A break of the connection and an attempt to connect that fails.
Wire == INSTANCE RealtimeDelivery WITH
  Requests <- {"r1", "r2"}, MaxCommits <- 1, MaxCuts <- 1, MaxFailures <- 1,
  HeartbeatRace <- FALSE, EarlyCommits <- FALSE,
  view <- workspace, failures <- refusals

\* The same with events that are lost on a connection that stands.
Lossy == INSTANCE RealtimeDelivery WITH
  Requests <- {"r1", "r2"}, MaxCommits <- 1, MaxCuts <- 1, MaxFailures <- 1,
  HeartbeatRace <- TRUE, EarlyCommits <- TRUE,
  view <- workspace, failures <- refusals

\* A Purchasing Officer's view of his request.
Details == INSTANCE RequestDetails WITH
  Me <- "me", Others <- {"other"}, Requester <- "me",
  Rights <- {"edit", "quotations", "upload"},
  Officer <- TRUE, Manager <- FALSE, Administrator <- FALSE,
  Quotes <- {"q1"}, MaxChanges <- 2, MaxActs <- 1, MaxReconnects <- 1,
  MaxFails <- 0

Pair == [wa |-> "a", we |-> "e"]

\* One window on each side.
Windows == INSTANCE ClarificationView WITH
  Engineer <- "e", Officers <- {"a"}, Windows <- DOMAIN Pair, UserOf <- Pair,
  MaxMessages <- 4, MaxReassigns <- 0, MaxReconnects <- 1, MaxFails <- 0,
  row <- matter, underway <- coming, timer <- due, busy <- reading,
  shown <- seen, asked <- confirming, reconnects <- resyncs,
  fails <- faults

\* A screen whose search may fall due under a dialog.
Screen == INSTANCE MasterScreen WITH
  Records <- {"r1", "r2"}, Names <- {"n1", "n2"}, AnyName <- "any",
  NoRecord <- "none", Kind <- "site", MayFail <- FALSE, MaxForeign <- 1,
  MaxGestures <- 2, timer <- debounce

-----------------------------------------------------------------------------
\* Of several initial states an instance that is at rest takes one.
Init ==
  /\ part \in {"work", "locks", "wire", "lossy", "details", "windows", "screen"}
  /\ Work!Init /\ Wire!Init /\ Windows!Init
  /\ Locks!Init /\ (part # "locks" => there = {0})
  /\ Details!Init /\ (part # "details" => row.status = "Pending"
                                          /\ row.assignee = None)
  /\ Screen!Init /\ (part # "screen" => \A r \in DOMAIN table :
                                          table[r] = Screen!Absent)

WorkSteps ==
  part = "work" /\ Work!Next
  /\ UNCHANGED <<part, rowLocks, wire, details, windows, screen>>

LockSteps ==
  part = "locks" /\ Locks!Next
  /\ UNCHANGED <<part, work, wire, details, windows, screen>>

WireSteps ==
  ((part = "wire" /\ Wire!Next) \/ (part = "lossy" /\ Lossy!Next))
  /\ UNCHANGED <<part, work, rowLocks, details, windows, screen>>

DetailsSteps ==
  part = "details" /\ Details!Next
  /\ UNCHANGED <<part, work, rowLocks, wire, windows, screen>>

WindowSteps ==
  part = "windows" /\ Windows!Next
  /\ UNCHANGED <<part, work, rowLocks, wire, details, screen>>

ScreenSteps ==
  part = "screen" /\ Screen!Next
  /\ UNCHANGED <<part, work, rowLocks, wire, details, windows>>

Next == WorkSteps \/ LockSteps \/ WireSteps \/ DetailsSteps \/ WindowSteps
        \/ ScreenSteps

\* The loop of main in auto_assignment_worker.py runs as long as the process
\* does, and time passes.
WorkFairness ==
  /\ \A w \in {"w1", "w2"} : WF_work(part = "work" /\ Work!WorkerStep(w))
  /\ WF_work(part = "work" /\ Work!Tick)

\* The server executes statements, grants locks and looks for circles.
LockFairness ==
  /\ \A c \in {"c1", "c2"} :
       WF_rowLocks(part = "locks" /\ (Locks!Advance(c) \/ Locks!Commit(c)
                                     \/ Locks!Fail(c) \/ Locks!SkipLocked(c)))
  /\ WF_rowLocks(part = "locks" /\ \E c \in {"c1", "c2"} : Locks!AbortVictim(c))

\* The listener's thread runs, the Tk thread comes back to its main loop, and
\* an attempt to connect that keeps being made does not fail for ever
\* (MaxFailures).  Nobody has to commit, cut, navigate or stop.
WireFairness ==
  /\ WF_wire(part = "wire" /\ Wire!Connect)
  /\ WF_wire(part = "wire" /\ Wire!WaitOver)
  /\ WF_wire(part = "wire" /\ Wire!Poll)
  /\ WF_wire(part = "wire" /\ Wire!Disconnect)
  /\ WF_wire(part = "wire" /\ Wire!ProcessQueue)
  /\ WF_wire(part = "wire" /\ Wire!Refresh)
  /\ WF_wire(part = "lossy" /\ Lossy!Connect)
  /\ WF_wire(part = "lossy" /\ Lossy!WaitOver)
  /\ WF_wire(part = "lossy" /\ Lossy!Poll)
  /\ WF_wire(part = "lossy" /\ Lossy!Disconnect)
  /\ WF_wire(part = "lossy" /\ Lossy!ThreadEnds)
  /\ WF_wire(part = "lossy" /\ Lossy!BellTick)

\* Events arrive and the timer fires.
DetailsFairness ==
  /\ \A kind \in {"change", "reconcile"} :
       WF_details(part = "details" /\ Details!Deliver(kind))
  /\ WF_details(part = "details" /\ Details!Refresh)

\* Events arrive, timers fire, queries end.
WindowFairness ==
  \A w \in DOMAIN Pair :
    /\ WF_windows(part = "windows" /\ Windows!Deliver(w))
    /\ WF_windows(part = "windows" /\ Windows!StartReload(w))
    /\ WF_windows(part = "windows" /\ Windows!FinishReload(w))
    /\ WF_windows(part = "windows" /\ Windows!Commit(w))

\* The search timer expires, and a user answers the box in front of him.
ScreenFairness ==
  /\ WF_screen(part = "screen" /\ Screen!RunDebouncedSearch)
  /\ WF_screen(part = "screen" /\ Screen!Dismiss)

FairSpec ==
  /\ Init /\ [][Next]_vars
  /\ WorkFairness /\ LockFairness /\ WireFairness
  /\ DetailsFairness /\ WindowFairness /\ ScreenFairness

-----------------------------------------------------------------------------
(* The properties of the instances.                                        *)

\* AutoAssignment: every due request is assigned in the end.
DueRequestsAreAssigned == part = "work" => Work!DueRequestsAreAssigned

\* RowLocks: every transaction ends, whatever it waits for.
EveryCallEnds == part = "locks" => Locks!EveryCallEnds

\* RealtimeDelivery: the view on the screen catches up with the commits of
\* others, the bell makes up for events that were lost, and a closed window
\* leaves no thread and no connection.
EventsArrive ==
  /\ part = "wire" => Wire!ViewsCatchUp
  /\ part = "lossy" => Lossy!BellCatchesUp /\ Lossy!StopEnds

\* RequestDetails, ClarificationView: a view comes to show the last commit.
\* MasterScreen: a search that falls due under a dialog is answered.
ScreensSettle ==
  /\ part = "details" => Details!Settles
  /\ part = "windows" => Windows!Settles
  /\ part = "screen" => Screen!SearchIsAnswered
=============================================================================
