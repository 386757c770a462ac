--------------------------- MODULE RealtimeDelivery ---------------------------
(***************************************************************************)
(* How one running client hears of what the others commit.                 *)
(*                                                                         *)
(* Every operation on a Material Request publishes an event with pg_notify *)
(* in its own transaction.  A daemon thread of the client (RealtimeListener)*)
(* LISTENs on a connection of its own, reconnects when it breaks, and puts *)
(* events and changes of its connection status into a queue; the Tk thread *)
(* empties the queue every 200 ms (main_window.py), refreshes the bell and *)
(* hands each event to the view on the screen, which reloads its data      *)
(* 150 ms later.  PostgreSQL delivers a notification only to the sessions  *)
(* that listen when it is committed: what is committed while the client is *)
(* cut off is made up for by one reload after the reconnection.            *)
(*                                                                         *)
(* The data is a version per request and kind: "request" is what the       *)
(* request's own views show of it, "clarification" its clarifications.     *)
(***************************************************************************)
EXTENDS Integers, Sequences, SequencesExt

CONSTANTS
  Requests,        \* material requests
  MaxCommits,      \* bound: what the other clients commit
  MaxCuts,         \* bound: how often the listening connection breaks
  MaxFailures,     \* bound: how often an attempt to connect fails
  HeartbeatRace,   \* may a notification arrive during the heartbeat's query?
  EarlyCommits     \* may others commit before the listener's first LISTEN?

BoundsAssumption ==
  /\ MaxCommits \in Nat /\ MaxCuts \in Nat /\ MaxFailures \in Nat
  /\ HeartbeatRace \in BOOLEAN /\ EarlyCommits \in BOOLEAN

VARIABLES
  db,         \* version of each key, in the database
  unread,     \* this user's unread notifications, in the database
  session,    \* the listener's connection: "closed", "open", "cut"
  socket,     \* notifications sent to it that the client has not read
  notifies,   \* conn.notifies: read from the socket, not handed on
  thread,     \* the listener's thread
  connected,  \* its _connected
  stopped,    \* its _stop_event; the window is closed with it
  queue,      \* _realtime_queue
  ui,         \* what the Tk thread remembers, see UI
  view,       \* the view in the workspace
  shown,      \* the versions it shows
  cuts, failures

listener == <<session, socket, notifies, thread, connected>>
screen   == <<view, shown>>
vars == <<db, unread, listener, stopped, queue, ui, screen, cuts, failures>>

Kinds == {"request", "clarification"}
Keys  == Requests \X Kinds
Event == [kind : Kinds, id : Requests]
Status(up) == [kind |-> IF up THEN "up" ELSE "down"]
Items == Event \cup {Status(TRUE), Status(FALSE)}

\* The dashboard and the list show every request; the other two show one.
Views ==  [kind : {"dashboard", "list"}]
     \cup [kind : {"details", "clarification"}, id : Requests]

ShownBy(v) ==
  CASE v.kind \in {"dashboard", "list"} -> Keys
    [] v.kind = "details"               -> {v.id} \X Kinds
    [] v.kind = "clarification"         -> {<<v.id, "clarification">>}

\* The test of each view's handle_realtime_event.  Events of clarifications
\* are of entity_type material_request too and name the request.

\* Mutant: the details view overlooks the events of clarifications.
OnRequestOnly(v, event) == event.id = v.id /\ event.kind = "request"

OnDetails(v, event) == event.id = v.id

OnClarification(v, event) == event = [kind |-> "clarification", id |-> v.id]

Concerns(v, event) ==
  \/ v.kind \in {"dashboard", "list"}
  \/ v.kind = "details" /\ OnDetails(v, event)
  \/ v.kind = "clarification" /\ OnClarification(v, event)

UI == [connectedOnce : BOOLEAN, wasDisconnected : BOOLEAN,
       pending : {"none", "incremental", "full"}, bell : Nat]

Commits == LET Plus(sum, k) == sum + db[k] - 1
           IN  FoldLeft(Plus, 0, SetToSeq(Keys))

Load(v) == [k \in ShownBy(v) |-> db[k]]

TypeOK ==
  /\ db \in [Keys -> Nat] /\ unread \in Nat
  /\ session \in {"closed", "open", "cut"}
  /\ socket \in Seq(Event) /\ notifies \in Seq(Event)
  /\ thread \in {"connecting", "listening", "waiting", "ended"}
  /\ connected \in BOOLEAN /\ stopped \in BOOLEAN
  /\ queue \in Seq(Items)
  /\ ui \in UI
  /\ view \in Views /\ shown \in [ShownBy(view) -> Nat]
  /\ cuts \in 0..MaxCuts /\ failures \in 0..MaxFailures

\* MainWindow.__init__ builds the dashboard, then starts the listener.
Init ==
  /\ db = [k \in Keys |-> 1] /\ unread = 0
  /\ session = "closed" /\ socket = <<>> /\ notifies = <<>>
  /\ thread = "connecting" /\ connected = FALSE /\ stopped = FALSE
  /\ queue = <<>>
  /\ ui = [connectedOnce |-> FALSE, wasDisconnected |-> FALSE,
           pending |-> "none", bell |-> 0]
  /\ view = [kind |-> "dashboard"] /\ shown = Load(view)
  /\ cuts = 0 /\ failures = 0

-----------------------------------------------------------------------------
(* The other clients, and the network.                                     *)

\* A transaction of another client changes one key, may write a notification
\* for this user, and its pg_notify reaches the session that listens.
Commit(r, kind, told) ==
  /\ Commits < MaxCommits
  /\ EarlyCommits \/ ui.connectedOnce \/ queue # <<>>
  /\ db' = [db EXCEPT ![<<r, kind>>] = @ + 1]
  /\ unread' = unread + (IF told THEN 1 ELSE 0)
  /\ socket' = IF session = "open"
               THEN Append(socket, [kind |-> kind, id |-> r]) ELSE socket
  /\ UNCHANGED <<session, notifies, thread, connected, stopped, queue, ui,
                 screen, cuts, failures>>

\* The connection breaks: what had reached the client's machine can still be
\* read, the rest is lost.
Cut ==
  /\ session = "open" /\ cuts < MaxCuts
  /\ session' = "cut" /\ cuts' = cuts + 1
  /\ \E n \in 0..Len(socket) : socket' = SubSeq(socket, 1, n)
  /\ UNCHANGED <<db, unread, notifies, thread, connected, stopped, queue, ui,
                 screen, failures>>

-----------------------------------------------------------------------------
(* RealtimeListener: the thread.                                           *)

\* _set_connected: only a change is reported.
SetConnected(up) ==
  /\ connected' = up
  /\ queue' = IF connected = up THEN queue ELSE Append(queue, Status(up))

CloseConnection ==
  /\ session' = "closed" /\ socket' = <<>> /\ notifies' = <<>>

\* _connect_and_listen; a stop() during the attempt does not interrupt it.
Connect ==
  /\ thread = "connecting"
  /\ thread' = "listening" /\ session' = "open" /\ SetConnected(TRUE)
  /\ UNCHANGED <<db, unread, socket, notifies, stopped, ui, screen, cuts,
                 failures>>

ConnectFails ==
  /\ thread = "connecting" /\ failures < MaxFailures
  /\ thread' = "waiting" /\ failures' = failures + 1
  /\ UNCHANGED <<db, unread, session, socket, notifies, connected, stopped,
                 queue, ui, screen, cuts>>

WaitOver ==
  /\ thread = "waiting" /\ ~stopped
  /\ thread' = "connecting"
  /\ UNCHANGED <<db, unread, session, socket, notifies, connected, stopped,
                 queue, ui, screen, cuts, failures>>

\* A turn of _listen_loop that select() wakes: poll, then empty conn.notifies.
Poll ==
  /\ thread = "listening" /\ session # "closed" /\ socket # <<>>
  /\ queue' = queue \o notifies \o socket
  /\ socket' = <<>> /\ notifies' = <<>>
  /\ UNCHANGED <<db, unread, session, thread, connected, stopped, ui, screen,
                 cuts, failures>>

\* _run_heartbeat on a sound connection.  The driver reads what is on the
\* socket along with the query's answer and leaves it in conn.notifies, which
\* the loop looks at only when select() next finds the socket readable.
Heartbeat ==
  /\ HeartbeatRace
  /\ thread = "listening" /\ session = "open" /\ socket # <<>>
  /\ notifies' = notifies \o socket /\ socket' = <<>>
  /\ UNCHANGED <<db, unread, session, thread, connected, stopped, queue, ui,
                 screen, cuts, failures>>

\* The heartbeat or the poll raises on a broken connection.
Disconnect ==
  /\ thread = "listening" /\ session = "cut"
  /\ thread' = "waiting" /\ SetConnected(FALSE) /\ CloseConnection
  /\ UNCHANGED <<db, unread, stopped, ui, screen, cuts, failures>>

\* Mutant: the wait between two attempts does not look at the stop event.
ListeningEnds ==
  /\ stopped /\ thread = "listening"
  /\ thread' = "ended" /\ SetConnected(FALSE) /\ CloseConnection
  /\ UNCHANGED <<db, unread, stopped, ui, screen, cuts, failures>>

\* The thread sees the stop event wherever it is, and leaves _run.
ThreadEnds ==
  /\ stopped /\ thread # "ended"
  /\ thread' = "ended" /\ SetConnected(FALSE) /\ CloseConnection
  /\ UNCHANGED <<db, unread, stopped, ui, screen, cuts, failures>>

-----------------------------------------------------------------------------
(* MainWindow and the views: the Tk thread.                                *)

\* The bell reads the database itself; a failing read leaves the old count.
Ring(u, reached) == [u EXCEPT !.bell = IF reached THEN unread ELSE @]

\* Each schedule replaces the one before it, and its _pending_full_rebuild.
Schedule(u, how) == [u EXCEPT !.pending = how]

\* Mutant: the flags are reset before they are looked at.
ResetThenApply(u, up, reached) ==
  IF up
  THEN LET now == [u EXCEPT !.connectedOnce = TRUE, !.wasDisconnected = FALSE]
       IN  IF now.wasDisconnected
           THEN Schedule(Ring(now, reached), "full") ELSE now
  ELSE [u EXCEPT !.wasDisconnected = u.connectedOnce \/ @]

ApplyStatus(u, up, reached) ==
  IF up
  THEN LET now == [u EXCEPT !.connectedOnce = TRUE, !.wasDisconnected = FALSE]
       IN  IF u.connectedOnce /\ u.wasDisconnected
           THEN Schedule(Ring(now, reached), "full") ELSE now
  ELSE [u EXCEPT !.wasDisconnected = u.connectedOnce \/ @]

ApplyEvent(u, event, reached) ==
  IF Concerns(view, event) THEN Schedule(Ring(u, reached), "incremental")
                           ELSE Ring(u, reached)

\* Can the Tk thread's own queries fail?  Only while the database is out of
\* the listener's reach too.
Reaches == {TRUE} \cup {session = "open"}

\* _process_realtime_queue, one item of it: the loop goes on until the queue is
\* empty, but the listener puts the items in one by one, so that the timers may
\* well have their turn between any two.
Processed(item, reached) ==
  IF item.kind \in Kinds THEN ApplyEvent(ui, item, reached)
                         ELSE ApplyStatus(ui, item.kind = "up", reached)

ProcessQueue ==
  /\ ~stopped /\ queue # <<>>
  /\ \E reached \in Reaches : ui' = Processed(Head(queue), reached)
  /\ queue' = Tail(queue)
  /\ UNCHANGED <<db, unread, listener, stopped, screen, cuts, failures>>

\* A view that cannot load keeps what it shows, and nobody tries again ...
KeepOrLoad(reached) == IF reached THEN Load(view) ELSE shown

\* ... but the list, whose full reload replaces everything by nothing.
ListRefreshed(reached) ==
  IF ~reached /\ ui.pending = "full" THEN [k \in ShownBy(view) |-> 0]
                                     ELSE KeepOrLoad(reached)

\* _run_realtime_refresh: the view's data is read again.
Refresh ==
  /\ ~stopped /\ ui.pending # "none"
  /\ \E reached \in Reaches :
       shown' = IF view.kind = "list" THEN ListRefreshed(reached)
                                      ELSE KeepOrLoad(reached)
  /\ ui' = Schedule(ui, "none")
  /\ UNCHANGED <<db, unread, listener, stopped, queue, view, cuts, failures>>

\* Mutant: a bell without a badge does not start its timer again.
BadgeTick ==
  /\ ~stopped /\ ui.bell # unread /\ ui.bell > 0
  /\ ui' = Ring(ui, TRUE)
  /\ UNCHANGED <<db, unread, listener, stopped, queue, screen, cuts, failures>>

\* The bell's own timer (60 s) starts itself again.
BellTick ==
  /\ ~stopped /\ ui.bell # unread
  /\ ui' = Ring(ui, TRUE)
  /\ UNCHANGED <<db, unread, listener, stopped, queue, screen, cuts, failures>>

\* The user opens another view: the old one and its timer are destroyed.
Open(v) == /\ view' = v /\ shown' = Load(v)

Navigate(v) ==
  /\ ~stopped /\ v # view
  /\ Open(v) /\ ui' = Schedule(ui, "none")
  /\ UNCHANGED <<db, unread, listener, stopped, queue, cuts, failures>>

\* handle_notification_selected: mark it read, refresh the bell, follow it.
FollowNotification(v) ==
  /\ ~stopped /\ unread > 0 /\ v.kind \in {"details", "clarification"}
  /\ unread' = unread - 1
  /\ Open(v) /\ ui' = [ui EXCEPT !.pending = "none", !.bell = unread']
  /\ UNCHANGED <<db, listener, stopped, queue, cuts, failures>>

\* logout, close_application: stop() closes a connection that stands; the
\* window and everything on it is gone.
Stop ==
  /\ ~stopped /\ stopped' = TRUE
  /\ IF thread = "listening" THEN CloseConnection
                             ELSE UNCHANGED <<session, socket, notifies>>
  /\ SetConnected(FALSE)
  /\ UNCHANGED <<db, unread, thread, ui, screen, cuts, failures>>

Next ==
  \/ \E r \in Requests, kind \in Kinds, told \in BOOLEAN : Commit(r, kind, told)
  \/ Cut
  \/ Connect \/ ConnectFails \/ WaitOver
  \/ Poll \/ Heartbeat \/ Disconnect \/ ThreadEnds
  \/ ProcessQueue \/ Refresh \/ BellTick
  \/ \E v \in Views : Navigate(v) \/ FollowNotification(v)
  \/ Stop

Spec == Init /\ [][Next]_vars

-----------------------------------------------------------------------------
(* Properties.                                                             *)

Fresh == shown = Load(view)

\* Nothing is on its way: the client will do nothing before the next commit.
Quiet ==
  /\ ~stopped /\ thread = "listening" /\ session = "open"
  /\ socket = <<>> /\ queue = <<>> /\ ui.pending = "none"

\* A client that listens and has nothing left to do shows what the database
\* holds, whatever was committed while it was cut off, while it loaded a view
\* or while another refresh was pending (no view redraws itself periodically).
QuietMeansFresh == Quiet => Fresh

\* The view on the screen catches up again and again, for as long as the
\* window is open: no event, no reconnection and no failed refresh strands it.
ViewsCatchUp == []<>(Fresh \/ stopped)

\* The bell's badge comes to agree with the unread notifications, even those
\* whose event was lost: its own timer stands in for the events.
BellCatchesUp == []<>(ui.bell = unread \/ stopped)

\* Once the window is closed the listener's thread ends and leaves no open
\* connection behind, in whatever state of connecting the stop finds it.
StopEnds == stopped ~> [](thread = "ended" /\ session = "closed" /\ ~connected)
=============================================================================
