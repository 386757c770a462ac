------------------------------- MODULE MCLists -------------------------------
(***************************************************************************)
(* How a client hears of changes, and the two views that list requests, on *)
(* small instances.  An initial state chooses the instance that moves      *)
(* (part); variables that it does not have stay Off.                       *)
(***************************************************************************)
EXTENDS Integers, FiniteSets, Sequences, TLC

CONSTANTS None, Empty, r1, r2

VARIABLES
  part,
  db, failures,
  unread, session, socket, notifies, thread, connected, stopped, queue, ui,
  view, shown, cuts,
  events, screen, timer, reading, changes,
  all, requests, filter, search, counts, inputs,
  day, perspective, data, summary, attention, clicks

wire == <<unread, session, socket, notifies, thread, connected, stopped,
          queue, ui, view, shown, cuts>>
refresh == <<events, screen, timer, reading, changes>>
list == <<all, requests, filter, search, counts, inputs>>
board == <<day, perspective, data, summary, attention, clicks>>
vars == <<part, db, failures, wire, refresh, list, board>>

Off == "off"

WireOff ==
  /\ unread = Off /\ session = Off /\ socket = Off /\ notifies = Off
  /\ thread = Off /\ connected = Off /\ stopped = Off /\ queue = Off
  /\ ui = Off /\ view = Off /\ shown = Off /\ cuts = Off
RefreshOff ==
  /\ events = Off /\ screen = Off /\ timer = Off /\ reading = Off
  /\ changes = Off
ListOff ==
  /\ all = Off /\ requests = Off /\ filter = Off /\ search = Off
  /\ counts = Off /\ inputs = Off
BoardOff ==
  /\ day = Off /\ perspective = Off /\ data = Off /\ summary = Off
  /\ attention = Off /\ clicks = Off

-----------------------------------------------------------------------------
(* The instances.                                                          *)

\* Two breaks of the connection, two requests of which one may be shown.
Wire == INSTANCE RealtimeDelivery WITH
  Requests <- {r1, r2}, MaxCommits <- 2, MaxCuts <- 2, MaxFailures <- 0,
  HeartbeatRace <- FALSE, EarlyCommits <- FALSE

\* Three cards, and a read that fails.
Cards == INSTANCE RequestList WITH
  Requests <- 1..3, Statuses <- {"New", "Archived"}, Archived <- "Archived",
  Texts <- {"t1", "t2"}, Filters <- {"All", "Active", "Archived"},
  MaxChanges <- 2, MaxFailures <- 1, MaxInputs <- 1

\* One more change, also between the two reads of a refresh; no failure.
Reads == INSTANCE RequestList WITH
  Requests <- 1..2, Statuses <- {"New", "Archived"}, Archived <- "Archived",
  Texts <- {"t1", "t2"}, Filters <- {"All", "Active", "Archived"},
  MaxChanges <- 3, MaxFailures <- 0, MaxInputs <- 2

\* Each perspective, when no read fails.
Board == INSTANCE Dashboard WITH
  Requests <- 1..2, Today <- 1, MaxChanges <- 2, MaxFailures <- 0,
  MaxClicks <- 0,
  Perspectives <- {"engineering", "purchasing", "manager"},
  Statuses <- {"New", "In Progress", "Completed", "Archived"}

\* One of them with a read that fails and a click on Refresh.
Failing == INSTANCE Dashboard WITH
  Requests <- 1..2, Today <- 1, MaxChanges <- 2, MaxFailures <- 1,
  MaxClicks <- 1, Perspectives <- {"purchasing"},
  Statuses <- {"New", "In Progress", "Completed", "Archived"}

ASSUME Wire!BoundsAssumption
ASSUME Cards!RequestListAssumption /\ Reads!RequestListAssumption
ASSUME Board!DashboardAssumption /\ Failing!DashboardAssumption

-----------------------------------------------------------------------------
Init ==
  \/ part = "wire" /\ Wire!Init /\ RefreshOff /\ ListOff /\ BoardOff
  \/ /\ \/ part = "cards" /\ Cards!Init
        \/ part = "reads" /\ Reads!Init
     /\ WireOff /\ BoardOff
  \/ /\ \/ part = "board" /\ Board!Init
        \/ part = "failing" /\ Failing!Init
     /\ WireOff /\ ListOff

WireSteps ==
  part = "wire" /\ Wire!Next /\ UNCHANGED <<part, refresh, list, board>>

ListSteps ==
  /\ \/ part = "cards" /\ Cards!Next
     \/ part = "reads" /\ Reads!Next
  /\ UNCHANGED <<part, wire, board>>

BoardSteps ==
  /\ \/ part = "board" /\ Board!Next
     \/ part = "failing" /\ Failing!Next
  /\ UNCHANGED <<part, wire, list>>

Next == WireSteps \/ ListSteps \/ BoardSteps

Spec == Init /\ [][Next]_vars

Interchangeable == Permutations({r1, r2})

-----------------------------------------------------------------------------
(* The properties of the instances.                                        *)

\* The type invariants of the three modules.
TypeOK ==
  /\ part = "wire" => Wire!TypeOK
  /\ part = "cards" => Cards!TypeOK
  /\ part = "board" => Board!TypeOK

\* RequestList, Dashboard: cards, labels and counts that are changed one by one
\* are those of a view built anew from what was loaded last.
CardsAreRendered ==
  /\ part = "cards" => Cards!ScreenIsRender /\ Cards!CountsAreOfAll
  /\ part = "board" => Board!BoardShowsData
  /\ part = "failing" => Failing!BoardShowsData

\* RealtimeDelivery, RequestList, Dashboard: with no event and no refresh under
\* way a client shows what the database holds, through breaks of its connection,
\* refreshes that read twice, and events that arrive during a refresh.
ListsAreCurrent ==
  /\ part = "wire" => Wire!QuietMeansFresh
  /\ part = "reads" => Reads!QuietMeansCurrent
  /\ part = "board" => Board!QuietMeansCurrent
=============================================================================
