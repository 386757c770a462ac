----------------------------- MODULE Lists_proofs -----------------------------
(***************************************************************************)
(* How a client comes to show what is in the database, for any requests,   *)
(* commits, breaks of the connection, events, filters and perspectives.    *)
(*                                                                         *)
(* The listener and the queue of the Tk thread (RealtimeDelivery): what is *)
(* stale on the screen was announced to the client or will be reloaded.    *)
(* The quotation list (List) and the dashboard (Board): each refresh reads *)
(* in two transactions, others commit in between, and yet what the views   *)
(* rest on is the database as it is.                                       *)
(***************************************************************************)
EXTENDS RealtimeDelivery, TLAPS

-----------------------------------------------------------------------------
(* The delivery of events.                                                 *)


\* The listener has once been connected, or the first report of it is queued.
Ever == ui.connectedOnce \/ queue # << >>

Up == Status(TRUE)
Down == Status(FALSE)

\* The last status that was reported and not yet followed by its opposite is
\* that the connection is down.
KnownDown ==
  \/ \E j \in DOMAIN queue :
       queue[j] = Down /\ \A i \in DOMAIN queue : i > j => queue[i] # Up
  \/ ui.wasDisconnected /\ \A i \in DOMAIN queue : queue[i] # Up

\* A reconnection is queued: once applied, it asks for a full reload.
Reconciles ==
  \E i \in DOMAIN queue :
    queue[i] = Up /\ (ui.wasDisconnected \/ \E j \in DOMAIN queue : j < i /\ queue[j] = Down)

\* An event that concerns the view has reached the client.
Announced ==
  \/ \E i \in DOMAIN queue : queue[i] \in Event /\ Concerns(view, queue[i])
  \/ \E i \in DOMAIN socket : Concerns(view, socket[i])

\* The thread and its connection, and what it has reported.
ThreadSound ==
  /\ notifies = << >> /\ thread # "ended" /\ (connected <=> thread = "listening")
  /\ thread = "listening" => session \in {"open", "cut"}
  /\ thread # "listening" => session = "closed"
ReportsSound ==
  /\ ui.wasDisconnected \/ ui.pending # "none" => ui.connectedOnce
  /\ queue # << >> => ui.connectedOnce \/ queue[1] = Up
  /\ connected => Ever
  /\ Ever => connected \/ KnownDown

\* What is stale was never shown, or will be reloaded.
WillCatchUp ==
  \/ shown = Load(view)
  \/ Ever /\ (ui.pending # "none" \/ session # "open" \/ Reconciles \/ Announced)

Live == ThreadSound /\ ReportsSound /\ WillCatchUp
WireInv == TypeOK /\ (stopped \/ Live)

\* The hypotheses: events are handed on, and nothing is committed before the
\* first LISTEN.
Wired == ~HeartbeatRace /\ ~EarlyCommits

-----------------------------------------------------------------------------
(* Sequences and types.                                                    *)

LEMMA AppendFacts ==
  ASSUME NEW S, NEW s \in Seq(S), NEW x \in S
  PROVE  /\ Append(s, x) \in Seq(S) /\ DOMAIN s = 1 .. Len(s) /\ Len(s) \in Nat
         /\ DOMAIN Append(s, x) = 1 .. Len(s) + 1 /\ Append(s, x)[Len(s) + 1] = x
         /\ \A i \in DOMAIN s : Append(s, x)[i] = s[i]
         /\ Append(s, x) # << >>
  OBVIOUS

LEMMA TailFacts ==
  ASSUME NEW S, NEW s \in Seq(S), s # << >>
  PROVE  /\ Tail(s) \in Seq(S) /\ Head(s) = s[1] /\ s[1] \in S /\ 1 \in DOMAIN s
         /\ DOMAIN s = 1 .. Len(s) /\ Len(s) \in Nat
         /\ DOMAIN Tail(s) = 1 .. Len(s) - 1
         /\ \A i \in DOMAIN Tail(s) : Tail(s)[i] = s[i + 1]
  OBVIOUS

LEMMA ConcatFacts ==
  ASSUME NEW S, NEW s \in Seq(S), NEW t \in Seq(S)
  PROVE  /\ s \o t \in Seq(S) /\ DOMAIN s = 1 .. Len(s) /\ DOMAIN t = 1 .. Len(t)
         /\ Len(s) \in Nat /\ Len(t) \in Nat
         /\ DOMAIN (s \o t) = 1 .. Len(s) + Len(t)
         /\ \A i \in DOMAIN s : (s \o t)[i] = s[i]
         /\ \A i \in DOMAIN t : (s \o t)[Len(s) + i] = t[i]
         /\ \A i \in DOMAIN (s \o t) : i \notin DOMAIN s => (s \o t)[i] = t[i - Len(s)]
                                                           /\ i - Len(s) \in DOMAIN t
  OBVIOUS

LEMMA ItemFacts ==
  /\ Up \in Items /\ Down \in Items /\ Up # Down /\ Event \subseteq Items
  /\ Status(TRUE) = Up /\ Status(FALSE) = Down
  /\ Up.kind = "up" /\ Down.kind = "down"
  /\ \A e \in Event : e.kind \in Kinds /\ e.id \in Requests /\ e # Up /\ e # Down
  /\ \A x \in Items : x \in Event \/ x = Up \/ x = Down
  /\ "up" \notin Kinds /\ "down" \notin Kinds
  BY DEF Up, Down, Status, Items, Event, Kinds

LEMMA LoadTyped ==
  ASSUME db \in [Keys -> Nat], NEW v \in Views
  PROVE  Load(v) \in [ShownBy(v) -> Nat] /\ ShownBy(v) \subseteq Keys
  <1>1. CASE v.kind \in {"dashboard", "list"}
    BY <1>1 DEF ShownBy, Load
  <1>2. CASE v \in [kind : {"details", "clarification"}, id : Requests]
    BY <1>2 DEF ShownBy, Load, Keys, Kinds
  <1> QED
    BY <1>1, <1>2 DEF Views

LEMMA UIFields ==
  ASSUME NEW u \in UI
  PROVE  /\ u.connectedOnce \in BOOLEAN /\ u.wasDisconnected \in BOOLEAN
         /\ u.pending \in {"none", "incremental", "full"} /\ u.bell \in Nat
  BY DEF UI

LEMMA Rung ==
  ASSUME NEW u \in UI, unread \in Nat, NEW reached
  PROVE  /\ Ring(u, reached) \in UI
         /\ Ring(u, reached).connectedOnce = u.connectedOnce
         /\ Ring(u, reached).wasDisconnected = u.wasDisconnected
         /\ Ring(u, reached).pending = u.pending
  BY DEF UI, Ring

LEMMA Scheduled ==
  ASSUME NEW u \in UI, NEW how \in {"none", "incremental", "full"}
  PROVE  /\ Schedule(u, how) \in UI
         /\ Schedule(u, how).connectedOnce = u.connectedOnce
         /\ Schedule(u, how).wasDisconnected = u.wasDisconnected
         /\ Schedule(u, how).pending = how
  BY DEF UI, Schedule

\* What the Tk thread makes of one item.
AfterEvent(u, event) ==
  /\ u.connectedOnce = ui.connectedOnce /\ u.wasDisconnected = ui.wasDisconnected
  /\ u.pending = IF Concerns(view, event) THEN "incremental" ELSE ui.pending
AfterUp(u) ==
  /\ u.connectedOnce /\ ~u.wasDisconnected
  /\ u.pending = IF ui.connectedOnce /\ ui.wasDisconnected THEN "full" ELSE ui.pending
AfterDown(u) ==
  /\ u.connectedOnce = ui.connectedOnce
  /\ u.wasDisconnected = (ui.connectedOnce \/ ui.wasDisconnected)
  /\ u.pending = ui.pending
After(u, item) ==
  /\ item \in Event => AfterEvent(u, item)
  /\ item = Up => AfterUp(u)
  /\ item = Down => AfterDown(u)

LEMMA ItemApplied ==
  ASSUME ui \in UI, unread \in Nat, NEW item \in Items, NEW reached
  PROVE  Processed(item, reached) \in UI /\ After(Processed(item, reached), item)
  <1>1. CASE item \in Event
    <2>1. Processed(item, reached) = ApplyEvent(ui, item, reached)
      BY <1>1, ItemFacts DEF Processed
    <2>2. ApplyEvent(ui, item, reached) \in UI /\ AfterEvent(ApplyEvent(ui, item, reached), item)
      BY Rung, Scheduled DEF ApplyEvent, AfterEvent
    <2> QED
      BY <1>1, <2>1, <2>2, ItemFacts DEF After
  <1>2. CASE item = Up
    <2> DEFINE now == [ui EXCEPT !.connectedOnce = TRUE, !.wasDisconnected = FALSE]
    <2>1. Processed(item, reached) = IF ui.connectedOnce /\ ui.wasDisconnected
                                     THEN Schedule(Ring(now, reached), "full") ELSE now
      BY <1>2, ItemFacts DEF Processed, ApplyStatus
    <2>2. now \in UI /\ now.connectedOnce /\ ~now.wasDisconnected /\ now.pending = ui.pending
      BY DEF UI
    <2> HIDE DEF now
    <2>3. Processed(item, reached) \in UI /\ AfterUp(Processed(item, reached))
      BY <2>1, <2>2, Rung, Scheduled DEF AfterUp
    <2> QED
      BY <1>2, <2>3, ItemFacts DEF After
  <1>3. CASE item = Down
    <2> DEFINE now == [ui EXCEPT !.wasDisconnected = ui.connectedOnce \/ ui.wasDisconnected]
    <2>1. Processed(item, reached) = now
      BY <1>3, ItemFacts DEF Processed, ApplyStatus
    <2>2. ui.connectedOnce \in BOOLEAN /\ ui.wasDisconnected \in BOOLEAN
      BY UIFields
    <2>3. now \in UI /\ now.connectedOnce = ui.connectedOnce /\ now.pending = ui.pending
          /\ now.wasDisconnected = (ui.connectedOnce \/ ui.wasDisconnected)
      BY <2>2 DEF UI
    <2> QED
      BY <1>3, <2>1, <2>3, ItemFacts DEF After, AfterDown
  <1> QED
    BY <1>1, <1>2, <1>3, ItemFacts

LEMMA SetConnectedTyped ==
  ASSUME TypeOK, NEW up \in BOOLEAN, SetConnected(up)
  PROVE  connected' \in BOOLEAN /\ queue' \in Seq(Items)
  <1>1. Status(up) \in Items
    BY ItemFacts
  <1> QED
    BY <1>1, AppendFacts DEF TypeOK, SetConnected

LEMMA OpenTyped ==
  ASSUME TypeOK, NEW v \in Views, Open(v)
  PROVE  view' \in Views /\ shown' \in [ShownBy(view') -> Nat]
  BY LoadTyped DEF TypeOK, Open

LEMMA CloseTyped ==
  ASSUME CloseConnection
  PROVE  /\ session' \in {"closed", "open", "cut"}
         /\ socket' \in Seq(Event) /\ notifies' \in Seq(Event)
  <1>1. << >> \in Seq(Event)
    OBVIOUS
  <1> QED
    BY <1>1 DEF CloseConnection

LEMMA WireTyped ==
  ASSUME BoundsAssumption, TypeOK, [Next]_vars
  PROVE  TypeOK'
  <1>1. MaxCuts \in Nat /\ MaxFailures \in Nat /\ MaxCommits \in Nat
    BY DEF BoundsAssumption
  <1>2. ASSUME NEW r \in Requests, NEW kind \in Kinds, NEW told \in BOOLEAN,
               Commit(r, kind, told)
        PROVE  TypeOK'
    <2>1. <<r, kind>> \in Keys /\ [kind |-> kind, id |-> r] \in Event
      BY DEF Keys, Event
    <2>2. db' \in [Keys -> Nat] /\ unread' \in Nat
      BY <1>2, <2>1 DEF Commit, TypeOK
    <2>3. socket' \in Seq(Event)
      BY <1>2, <2>1, AppendFacts DEF Commit, TypeOK
    <2> QED
      BY <1>2, <2>2, <2>3 DEF Commit, TypeOK, screen
  <1>3. CASE Cut
    <2>1. \A n \in 0 .. Len(socket) : SubSeq(socket, 1, n) \in Seq(Event)
      BY DEF TypeOK
    <2>2. cuts' \in 0 .. MaxCuts
      BY <1>1, <1>3 DEF Cut, TypeOK
    <2> QED
      BY <1>3, <2>1, <2>2 DEF Cut, TypeOK, screen
  <1>4. CASE Connect
    BY <1>4, SetConnectedTyped DEF Connect, TypeOK, screen
  <1>5. CASE ConnectFails
    <2>1. failures' \in 0 .. MaxFailures
      BY <1>1, <1>5 DEF ConnectFails, TypeOK
    <2> QED
      BY <1>5, <2>1 DEF ConnectFails, TypeOK, screen
  <1>6. CASE WaitOver
    BY <1>6 DEF WaitOver, TypeOK, screen
  <1>7. CASE Poll
    <2>1. Event \subseteq Items
      BY ItemFacts
    <2>2. notifies \in Seq(Items) /\ socket \in Seq(Items)
      BY <2>1 DEF TypeOK
    <2>3. queue' \in Seq(Items)
      BY <1>7, <2>2, ConcatFacts DEF Poll, TypeOK
    <2> QED
      BY <1>7, <2>3 DEF Poll, TypeOK, screen
  <1>8. CASE Heartbeat
    <2>1. notifies' \in Seq(Event)
      BY <1>8, ConcatFacts DEF Heartbeat, TypeOK
    <2> QED
      BY <1>8, <2>1 DEF Heartbeat, TypeOK, screen
  <1>9. CASE Disconnect
    BY <1>9, SetConnectedTyped, CloseTyped DEF Disconnect, TypeOK, screen
  <1>10. CASE ThreadEnds
    BY <1>10, SetConnectedTyped, CloseTyped DEF ThreadEnds, TypeOK, screen
  <1>11. CASE ProcessQueue
    <2>1. Head(queue) \in Items /\ Tail(queue) \in Seq(Items)
      BY <1>11, TailFacts DEF ProcessQueue, TypeOK
    <2>2. ui' \in UI
      BY <1>11, <2>1, ItemApplied DEF ProcessQueue, TypeOK
    <2> QED
      BY <1>11, <2>1, <2>2 DEF ProcessQueue, TypeOK, screen, listener
  <1>12. CASE Refresh
    <2>1. ui' \in UI
      BY <1>12, Scheduled DEF Refresh, TypeOK
    <2>2. shown' \in [ShownBy(view) -> Nat]
      BY <1>12, LoadTyped DEF Refresh, TypeOK, ListRefreshed, KeepOrLoad
    <2> QED
      BY <1>12, <2>1, <2>2 DEF Refresh, TypeOK, listener
  <1>13. CASE BellTick
    BY <1>13, Rung DEF BellTick, TypeOK, screen, listener
  <1>14. ASSUME NEW v \in Views, Navigate(v)
         PROVE  TypeOK'
    <2>1. ui' \in UI
      BY <1>14, Scheduled DEF Navigate, TypeOK
    <2>2. view' \in Views /\ shown' \in [ShownBy(view') -> Nat]
      BY <1>14, OpenTyped DEF Navigate
    <2> QED
      BY <1>14, <2>1, <2>2 DEF Navigate, TypeOK, listener
  <1>15. ASSUME NEW v \in Views, FollowNotification(v)
         PROVE  TypeOK'
    <2>1. unread' \in Nat
      BY <1>15 DEF FollowNotification, TypeOK
    <2>2. ui' \in UI
      BY <1>15, <2>1 DEF FollowNotification, TypeOK, UI
    <2>3. view' \in Views /\ shown' \in [ShownBy(view') -> Nat]
      BY <1>15, OpenTyped DEF FollowNotification
    <2> QED
      BY <1>15, <2>1, <2>2, <2>3 DEF FollowNotification, TypeOK, listener
  <1>16. CASE Stop
    <2>1. /\ session' \in {"closed", "open", "cut"}
          /\ socket' \in Seq(Event) /\ notifies' \in Seq(Event)
      BY <1>16, CloseTyped DEF Stop, TypeOK
    <2>2. connected' \in BOOLEAN /\ queue' \in Seq(Items)
      BY <1>16, SetConnectedTyped DEF Stop
    <2> QED
      BY <1>16, <2>1, <2>2 DEF Stop, TypeOK, screen
  <1>17. CASE UNCHANGED vars
    BY <1>17 DEF vars, TypeOK, screen, listener
  <1> QED
    BY <1>2, <1>3, <1>4, <1>5, <1>6, <1>7, <1>8, <1>9, <1>10, <1>11, <1>12, <1>13, <1>14,
       <1>15, <1>16, <1>17 DEF Next

-----------------------------------------------------------------------------
(* The steps while the window is open.                                     *)

LEMMA ShownIsTold ==
  ASSUME NEW v \in Views, NEW r \in Requests, NEW kind \in Kinds,
         <<r, kind>> \in ShownBy(v)
  PROVE  Concerns(v, [kind |-> kind, id |-> r])
  <1>1. CASE v.kind \in {"dashboard", "list"}
    BY <1>1 DEF Concerns
  <1>2. CASE v.kind = "details"
    BY <1>2 DEF Concerns, ShownBy, OnDetails
  <1>3. CASE v.kind = "clarification"
    BY <1>3 DEF Concerns, ShownBy, OnClarification
  <1> QED
    BY <1>1, <1>2, <1>3 DEF Views

\* What depends on the reports and the state of the Tk thread alone.
LEMMA ReportsStay ==
  ASSUME ReportsSound, UNCHANGED <<queue, ui, connected>>
  PROVE  ReportsSound' /\ (Ever' <=> Ever) /\ (Reconciles' <=> Reconciles)
  BY DEF ReportsSound, Ever, KnownDown, Reconciles, Up, Down, Status

LEMMA CommitLive ==
  ASSUME TypeOK, Live, Wired, ~stopped,
         NEW r \in Requests, NEW kind \in Kinds, NEW told \in BOOLEAN,
         Commit(r, kind, told)
  PROVE  Live'
  <1> DEFINE e == [kind |-> kind, id |-> r]
  <1>1. UNCHANGED <<session, notifies, thread, connected, queue, ui, view, shown>>
    BY DEF Commit, screen
  <1>2. ThreadSound' /\ ReportsSound'
    BY <1>1, ReportsStay DEF Live, ThreadSound
  <1>3. Ever /\ Ever'
    BY <1>1 DEF Commit, Wired, Ever
  <1>4. (Reconciles' <=> Reconciles)
    BY <1>1, ReportsStay DEF Live
  <1>5. CASE session # "open"
    BY <1>1, <1>2, <1>3, <1>5 DEF Live, WillCatchUp
  <1>6. CASE session = "open"
    <2>1. e \in Event /\ socket' = Append(socket, e) /\ <<r, kind>> \in Keys
      BY <1>6 DEF Commit, Event, Keys
    <2>2. /\ DOMAIN socket' = 1 .. Len(socket) + 1 /\ socket'[Len(socket) + 1] = e
          /\ DOMAIN socket \subseteq DOMAIN socket'
          /\ \A i \in DOMAIN socket : socket'[i] = socket[i]
          /\ Len(socket) + 1 \in DOMAIN socket'
      BY <2>1, AppendFacts DEF TypeOK
    <2>3. \A x : Concerns(view, x)' <=> Concerns(view, x)
      BY <1>1 DEF Concerns, OnDetails, OnClarification
    <2>4. Announced => Announced'
      BY <1>1, <2>2, <2>3 DEF Announced
    <2>5. ASSUME shown = Load(view), <<r, kind>> \in ShownBy(view)
          PROVE  Announced'
      <3>1. Concerns(view, e)
        BY <2>5, ShownIsTold DEF TypeOK
      <3>2. Concerns(view, e)'
        BY <2>3, <3>1
      <3>3. \E i \in DOMAIN socket' : socket'[i] = e
        BY <2>2
      <3> HIDE DEF e
      <3> QED
        BY <3>2, <3>3 DEF Announced
    <2>6. ASSUME shown = Load(view), <<r, kind>> \notin ShownBy(view)
          PROVE  (shown = Load(view))'
      <3>1. ShownBy(view) \subseteq Keys
        BY LoadTyped DEF TypeOK
      <3>2. \A k \in ShownBy(view) : db'[k] = db[k]
        BY <2>1, <2>6, <3>1 DEF Commit, TypeOK
      <3> QED
        BY <1>1, <2>6, <3>2 DEF Load, ShownBy
    <2>7. WillCatchUp'
      BY <1>1, <1>3, <1>4, <2>4, <2>5, <2>6 DEF Live, WillCatchUp
    <2> QED
      BY <1>2, <2>7 DEF Live
  <1> QED
    BY <1>5, <1>6

\* A step after which the connection is down, and known to be so or not.
LEMMA DownLive ==
  ASSUME ThreadSound', ReportsSound', Ever', session' # "open"
  PROVE  Live'
  BY DEF Live, WillCatchUp

LEMMA CutLive ==
  ASSUME TypeOK, Live, ~stopped, Cut
  PROVE  Live'
  <1>1. /\ session = "open" /\ session' = "cut"
        /\ UNCHANGED <<notifies, thread, connected, queue, ui>>
    BY DEF Cut
  <1>2. ThreadSound' /\ ReportsSound' /\ Ever'
    BY <1>1, ReportsStay DEF Live, ThreadSound, ReportsSound
  <1> QED
    BY <1>1, <1>2, DownLive

\* The connection is reported to be up.
LEMMA ConnectLive ==
  ASSUME TypeOK, Live, ~stopped, Connect
  PROVE  Live'
  <1>1. /\ thread = "connecting" /\ thread' = "listening" /\ session' = "open"
        /\ ~connected /\ connected' /\ queue' = Append(queue, Up)
        /\ UNCHANGED <<notifies, ui, db, view, shown>>
    BY DEF Connect, SetConnected, Live, ThreadSound, Up, screen
  <1>2. /\ queue' # << >> /\ DOMAIN queue = 1 .. Len(queue) /\ Len(queue) \in Nat
        /\ DOMAIN queue' = 1 .. Len(queue) + 1 /\ queue'[Len(queue) + 1] = Up
        /\ \A i \in DOMAIN queue : queue'[i] = queue[i]
    BY <1>1, ItemFacts, AppendFacts DEF TypeOK
  <1>3. ThreadSound'
    BY <1>1 DEF Live, ThreadSound
  <1>4. Ever'
    BY <1>2 DEF Ever
  <1>5. queue = << >> => queue'[1] = Up
    BY <1>1
  <1>6. queue # << >> => queue'[1] = queue[1]
    BY <1>2 DEF TypeOK
  <1>7. ReportsSound'
    BY <1>1, <1>4, <1>5, <1>6 DEF Live, ReportsSound, Up, Status
  <1>8. CASE ~Ever
    BY <1>1, <1>3, <1>7, <1>8 DEF Live, WillCatchUp, Load, ShownBy
  <1>9. CASE Ever
    <2>1. KnownDown
      BY <1>1, <1>9 DEF Live, ReportsSound
    <2>2. ui.wasDisconnected \/ \E j \in DOMAIN queue : queue[j] = Down
      BY <2>1 DEF KnownDown
    <2>3. Reconciles'
      <3>1. Len(queue) + 1 \in DOMAIN queue' /\ \A j \in DOMAIN queue : j < Len(queue) + 1
                                                                       /\ j \in DOMAIN queue'
        BY <1>2
      <3> QED
        BY <1>1, <1>2, <2>2, <3>1 DEF Reconciles, Up, Down, Status
    <2> QED
      BY <1>3, <1>4, <1>7, <2>3 DEF Live, WillCatchUp
  <1> QED
    BY <1>8, <1>9

\* The connection is reported to be down.
LEMMA DisconnectLive ==
  ASSUME TypeOK, Live, ~stopped, Disconnect
  PROVE  Live'
  <1>1. /\ thread = "listening" /\ thread' = "waiting" /\ session' = "closed"
        /\ connected /\ ~connected' /\ queue' = Append(queue, Down)
        /\ notifies' = << >> /\ UNCHANGED ui
    BY DEF Disconnect, SetConnected, CloseConnection, Live, ThreadSound, Down
  <1>2. /\ queue' # << >> /\ DOMAIN queue = 1 .. Len(queue) /\ Len(queue) \in Nat
        /\ DOMAIN queue' = 1 .. Len(queue) + 1 /\ queue'[Len(queue) + 1] = Down
        /\ \A i \in DOMAIN queue : queue'[i] = queue[i]
    BY <1>1, ItemFacts, AppendFacts DEF TypeOK
  <1>3. ThreadSound'
    BY <1>1 DEF ThreadSound
  <1>4. Ever /\ Ever'
    BY <1>1, <1>2 DEF Live, ReportsSound, Ever
  <1>5. KnownDown'
    <2>1. Len(queue) + 1 \in DOMAIN queue' /\ \A i \in DOMAIN queue' : ~(i > Len(queue) + 1)
      BY <1>2
    <2> QED
      BY <1>2, <2>1 DEF KnownDown, Up, Down, Status
  <1>6. queue # << >> => queue'[1] = queue[1]
    BY <1>2 DEF TypeOK
  <1>7. ReportsSound'
    BY <1>1, <1>4, <1>5, <1>6 DEF Live, ReportsSound, Ever, Up, Status
  <1> QED
    BY <1>1, <1>3, <1>4, <1>7, DownLive

\* What the view shows is as stale as before, and as much is to come.
LEMMA CatchUpStays ==
  ASSUME WillCatchUp, UNCHANGED <<db, view, shown, session, ui, queue, socket>>
  PROVE  WillCatchUp'
  <1>1. (shown = Load(view))' <=> shown = Load(view)
    BY DEF Load, ShownBy
  <1>2. (Ever' <=> Ever) /\ (Reconciles' <=> Reconciles)
    BY DEF Ever, Reconciles, Up, Down, Status
  <1>3. \A x : Concerns(view, x)' <=> Concerns(view, x)
    BY DEF Concerns, OnDetails, OnClarification
  <1>4. Announced' <=> Announced
    BY <1>3 DEF Announced
  <1> QED
    BY <1>1, <1>2, <1>4 DEF WillCatchUp

LEMMA AttemptLive ==
  ASSUME Live, ConnectFails \/ WaitOver
  PROVE  Live'
  <1>1. /\ thread # "listening" /\ thread' \in {"waiting", "connecting"}
        /\ UNCHANGED <<db, view, shown, session, ui, queue, socket, notifies, connected>>
    BY DEF ConnectFails, WaitOver, screen
  <1>2. ThreadSound'
    BY <1>1 DEF Live, ThreadSound
  <1> QED
    BY <1>1, <1>2, CatchUpStays, ReportsStay DEF Live

LEMMA PollLive ==
  ASSUME TypeOK, Live, ~stopped, Poll
  PROVE  Live'
  <1>1. /\ thread = "listening" /\ queue' = queue \o socket
        /\ UNCHANGED <<db, view, shown, session, ui, thread, connected>>
        /\ notifies' = << >>
    <2>1. queue \o notifies = queue
      BY DEF Live, ThreadSound, TypeOK
    <2> QED
      BY <2>1 DEF Poll, screen
  <1>2. socket \in Seq(Items) /\ \A i \in DOMAIN socket : socket[i] \in Event
    BY ItemFacts DEF TypeOK
  <1>3. /\ DOMAIN queue = 1 .. Len(queue) /\ DOMAIN socket = 1 .. Len(socket)
        /\ Len(queue) \in Nat /\ Len(socket) \in Nat
        /\ DOMAIN queue' = 1 .. Len(queue) + Len(socket)
        /\ \A i \in DOMAIN queue : queue'[i] = queue[i]
        /\ \A i \in DOMAIN socket : queue'[Len(queue) + i] = socket[i]
        /\ \A i \in DOMAIN queue' : i \notin DOMAIN queue =>
             queue'[i] = socket[i - Len(queue)] /\ i - Len(queue) \in DOMAIN socket
    BY <1>1, <1>2, ConcatFacts DEF TypeOK
  <1>4. /\ DOMAIN queue \subseteq DOMAIN queue'
        /\ \A i \in DOMAIN queue' : i \in DOMAIN queue \/ (queue'[i] # Up /\ queue'[i] # Down)
        /\ \A i \in DOMAIN socket : Len(queue) + i \in DOMAIN queue'
    BY <1>2, <1>3, ItemFacts
  <1>5. connected /\ Ever
    BY <1>1 DEF Live, ThreadSound, ReportsSound
  <1>6. ThreadSound'
    BY <1>1 DEF Live, ThreadSound
  <1>7. queue # << >> => queue' # << >> /\ queue'[1] = queue[1]
    BY <1>3 DEF TypeOK
  <1>8. Ever'
    BY <1>1, <1>5, <1>7 DEF Ever
  <1>9. ReportsSound'
    BY <1>1, <1>5, <1>7, <1>8 DEF Live, ReportsSound, Ever, Up, Status
  <1>10. Reconciles => Reconciles'
    BY <1>1, <1>3, <1>4 DEF Reconciles, Up, Down, Status
  <1>11. \A x : Concerns(view, x)' <=> Concerns(view, x)
    BY <1>1 DEF Concerns, OnDetails, OnClarification
  <1>12. Announced => Announced'
    <2>1. ASSUME NEW i \in DOMAIN queue, queue[i] \in Event, Concerns(view, queue[i])
          PROVE  Announced'
      <3>1. PICK x \in Event : x = queue[i]
        BY <2>1
      <3>2. Concerns(view, x)' /\ i \in DOMAIN queue' /\ queue'[i] = x
        BY <1>3, <1>4, <1>11, <2>1, <3>1
      <3> QED
        BY <3>2 DEF Announced, Event
    <2>2. ASSUME NEW i \in DOMAIN socket, Concerns(view, socket[i])
          PROVE  Announced'
      <3>1. PICK x \in Event : x = socket[i]
        BY <1>2
      <3>2. Concerns(view, x)' /\ Len(queue) + i \in DOMAIN queue'
            /\ queue'[Len(queue) + i] = x
        BY <1>3, <1>4, <1>11, <2>2, <3>1
      <3> QED
        BY <3>2 DEF Announced, Event
    <2> QED
      BY <2>1, <2>2 DEF Announced
  <1>13. (shown = Load(view))' <=> shown = Load(view)
    BY <1>1 DEF Load, ShownBy
  <1>14. WillCatchUp'
    BY <1>1, <1>8, <1>10, <1>12, <1>13 DEF Live, WillCatchUp
  <1> QED
    BY <1>6, <1>9, <1>14 DEF Live

\* The head of the queue is applied.
LEMMA ProcessLive ==
  ASSUME TypeOK, Live, ~stopped, ProcessQueue
  PROVE  Live'
  <1>1. PICK x \in Items : x = queue[1]
    BY TailFacts DEF ProcessQueue, TypeOK
  <1>2. /\ queue # << >> /\ queue' = Tail(queue)
        /\ UNCHANGED <<db, view, shown, session, socket, notifies, thread, connected>>
    BY DEF ProcessQueue, screen, listener
  <1>3. /\ DOMAIN queue = 1 .. Len(queue) /\ Len(queue) \in Nat /\ 1 \in DOMAIN queue
        /\ DOMAIN queue' = 1 .. Len(queue) - 1
        /\ \A i \in DOMAIN queue' : queue'[i] = queue[i + 1]
    BY <1>2, TailFacts DEF TypeOK
  <1>4. \A i \in DOMAIN queue : i = 1 \/ (i - 1 \in DOMAIN queue' /\ queue'[i - 1] = queue[i])
    BY <1>3
  <1>5. After(ui', x)
    <2>1. Head(queue) = x
      BY <1>1, <1>2 DEF TypeOK
    <2> QED
      BY <2>1, ItemApplied DEF ProcessQueue, TypeOK
  <1>6. ThreadSound'
    BY <1>2 DEF Live, ThreadSound
  <1>7. ui'.connectedOnce /\ (ui.connectedOnce => ui'.connectedOnce)
    BY <1>1, <1>2, <1>5, ItemFacts
       DEF Live, ReportsSound, After, AfterEvent, AfterUp, AfterDown
  <1>8. Ever /\ Ever'
    BY <1>2, <1>7 DEF Ever
  <1>9. KnownDown => KnownDown'
    <2>1. ASSUME NEW j \in DOMAIN queue, queue[j] = Down,
                 \A i \in DOMAIN queue : i > j => queue[i] # Up
          PROVE  KnownDown'
      <3>1. CASE j = 1
        <4>1. x = Down /\ ui.connectedOnce
          BY <1>1, <1>2, <2>1, <3>1, ItemFacts DEF Live, ReportsSound
        <4>2. ui'.wasDisconnected
          BY <1>5, <4>1 DEF After, AfterDown
        <4>3. \A i \in DOMAIN queue' : queue'[i] # Up
          BY <1>3, <2>1, <3>1
        <4> QED
          BY <4>2, <4>3 DEF KnownDown, Up, Status
      <3>2. CASE j # 1
        <4>1. j - 1 \in DOMAIN queue' /\ queue'[j - 1] = Down
          BY <1>4, <2>1, <3>2
        <4>2. \A i \in DOMAIN queue' : i > j - 1 => queue'[i] # Up
          BY <1>3, <2>1
        <4> QED
          BY <4>1, <4>2 DEF KnownDown, Up, Down, Status
      <3> QED
        BY <3>1, <3>2
    <2>2. ASSUME ui.wasDisconnected, \A i \in DOMAIN queue : queue[i] # Up
          PROVE  KnownDown'
      <3>1. x # Up
        BY <1>1, <1>3, <2>2
      <3>2. ui'.wasDisconnected
        BY <1>5, <2>2, <3>1, ItemFacts DEF After, AfterEvent, AfterDown
      <3>3. \A i \in DOMAIN queue' : queue'[i] # Up
        BY <1>3, <2>2
      <3> QED
        BY <3>2, <3>3 DEF KnownDown, Up, Status
    <2> QED
      BY <2>1, <2>2 DEF KnownDown
  <1>10. ReportsSound'
    BY <1>2, <1>7, <1>8, <1>9 DEF Live, ReportsSound
  <1>11. ui.pending # "none" => ui'.pending # "none"
    BY <1>5, ItemFacts DEF After, AfterEvent, AfterUp, AfterDown
  <1>12. Reconciles => Reconciles' \/ ui'.pending # "none"
    <2> SUFFICES ASSUME NEW i \in DOMAIN queue, queue[i] = Up,
                        ui.wasDisconnected \/ \E j \in DOMAIN queue : j < i /\ queue[j] = Down
                 PROVE  Reconciles' \/ ui'.pending # "none"
      BY DEF Reconciles
    <2>1. CASE i = 1
      <3>1. x = Up /\ ui.wasDisconnected /\ ui.connectedOnce
        BY <1>1, <1>3, <2>1 DEF Live, ReportsSound
      <3> QED
        BY <1>5, <3>1 DEF After, AfterUp
    <2>2. CASE i # 1
      <3>1. i - 1 \in DOMAIN queue' /\ queue'[i - 1] = Up
        BY <1>4, <2>2
      <3>2. CASE x = Up
        <4>1. CASE ui.wasDisconnected
          BY <1>5, <3>2, <4>1 DEF After, AfterUp, Live, ReportsSound
        <4>2. ASSUME NEW j \in DOMAIN queue, j < i, queue[j] = Down
              PROVE  Reconciles'
          <5>1. j # 1
            BY <1>1, <3>2, <4>2, ItemFacts
          <5>2. j - 1 \in DOMAIN queue' /\ j - 1 < i - 1 /\ queue'[j - 1] = Down
            BY <1>3, <1>4, <4>2, <5>1
          <5> QED
            BY <3>1, <5>2 DEF Reconciles, Up, Down, Status
        <4> QED
          BY <2>2, <4>1, <4>2
      <3>3. CASE x # Up
        <4>1. ui'.wasDisconnected => Reconciles'
          BY <3>1 DEF Reconciles, Up, Status
        <4>2. ui.wasDisconnected => ui'.wasDisconnected
          BY <1>5, <3>3, ItemFacts DEF After, AfterEvent, AfterDown
        <4>3. ASSUME NEW j \in DOMAIN queue, j < i, queue[j] = Down
              PROVE  Reconciles'
          <5>1. CASE j = 1
            <6>1. x = Down /\ ui.connectedOnce
              BY <1>1, <1>2, <4>3, <5>1, ItemFacts DEF Live, ReportsSound
            <6> QED
              BY <1>5, <4>1, <6>1 DEF After, AfterDown
          <5>2. CASE j # 1
            <6>1. j - 1 \in DOMAIN queue' /\ j - 1 < i - 1 /\ queue'[j - 1] = Down
              BY <1>3, <1>4, <4>3, <5>2
            <6> QED
              BY <3>1, <6>1 DEF Reconciles, Up, Down, Status
          <5> QED
            BY <5>1, <5>2
        <4> QED
          BY <2>2, <4>1, <4>2, <4>3
      <3> QED
        BY <3>2, <3>3
    <2> QED
      BY <2>1, <2>2
  <1>13. \A e : Concerns(view, e)' <=> Concerns(view, e)
    BY <1>2 DEF Concerns, OnDetails, OnClarification
  <1>14. Announced => Announced' \/ ui'.pending # "none"
    <2>1. ASSUME NEW i \in DOMAIN queue, queue[i] \in Event, Concerns(view, queue[i])
          PROVE  Announced' \/ ui'.pending # "none"
      <3>1. CASE i = 1
        BY <1>1, <1>5, <2>1, <3>1 DEF After, AfterEvent
      <3>2. CASE i # 1
        <4>1. PICK e \in Event : e = queue[i]
          BY <2>1
        <4>2. Concerns(view, e)' /\ i - 1 \in DOMAIN queue' /\ queue'[i - 1] = e
          BY <1>4, <1>13, <2>1, <3>2, <4>1
        <4> QED
          BY <4>2 DEF Announced, Event
      <3> QED
        BY <3>1, <3>2
    <2>2. ASSUME NEW i \in DOMAIN socket, Concerns(view, socket[i])
          PROVE  Announced'
      BY <1>2, <1>13, <2>2 DEF Announced
    <2> QED
      BY <2>1, <2>2 DEF Announced
  <1>15. (shown = Load(view))' <=> shown = Load(view)
    BY <1>2 DEF Load, ShownBy
  <1>16. WillCatchUp'
    BY <1>2, <1>8, <1>11, <1>12, <1>14, <1>15 DEF Live, WillCatchUp
  <1> QED
    BY <1>6, <1>10, <1>16 DEF Live

\* The Tk thread has no refresh before it, and hears the same reports.
LEMMA RestReports ==
  ASSUME ReportsSound, UNCHANGED <<queue, connected>>,
         ui'.connectedOnce = ui.connectedOnce, ui'.wasDisconnected = ui.wasDisconnected,
         ui'.pending \in {"none", ui.pending}
  PROVE  ReportsSound' /\ (Ever' <=> Ever) /\ (Reconciles' <=> Reconciles)
  BY DEF ReportsSound, Ever, KnownDown, Reconciles, Up, Down, Status

LEMMA RefreshLive ==
  ASSUME TypeOK, Live, ~stopped, Refresh
  PROVE  Live'
  <1>1. /\ ui.pending # "none"
        /\ UNCHANGED <<db, view, session, socket, notifies, thread, connected, queue>>
    BY DEF Refresh, listener
  <1>2. /\ ui'.connectedOnce = ui.connectedOnce /\ ui'.wasDisconnected = ui.wasDisconnected
        /\ ui'.pending = "none"
    BY Scheduled DEF Refresh, TypeOK
  <1>3. ThreadSound' /\ ReportsSound'
    BY <1>1, <1>2, RestReports DEF Live, ThreadSound
  <1>4. Ever'
    BY <1>1, <1>2 DEF Live, ReportsSound, Ever
  <1>5. session # "open" \/ shown' = Load(view)
    BY DEF Refresh, Reaches, ListRefreshed, KeepOrLoad
  <1>6. CASE session # "open"
    BY <1>1, <1>3, <1>4, <1>6, DownLive
  <1>7. CASE shown' = Load(view)
    BY <1>1, <1>3, <1>7 DEF Live, WillCatchUp, Load, ShownBy
  <1> QED
    BY <1>5, <1>6, <1>7

LEMMA OpenLive ==
  ASSUME TypeOK, Live, ~stopped, NEW v \in Views, Navigate(v) \/ FollowNotification(v)
  PROVE  Live'
  <1>1. /\ view' = v /\ shown' = Load(v)
        /\ UNCHANGED <<db, session, socket, notifies, thread, connected, queue>>
    BY DEF Navigate, FollowNotification, Open, listener
  <1>2. /\ ui'.connectedOnce = ui.connectedOnce /\ ui'.wasDisconnected = ui.wasDisconnected
        /\ ui'.pending = "none"
    BY Scheduled DEF Navigate, FollowNotification, TypeOK, UI
  <1>3. ThreadSound' /\ ReportsSound'
    BY <1>1, <1>2, RestReports DEF Live, ThreadSound
  <1> QED
    BY <1>1, <1>3 DEF Live, WillCatchUp, Load, ShownBy

LEMMA BellLive ==
  ASSUME TypeOK, Live, BellTick
  PROVE  Live'
  <1>1. /\ UNCHANGED <<db, session, socket, notifies, thread, connected, queue, view, shown>>
    BY DEF BellTick, listener, screen
  <1>2. /\ ui'.connectedOnce = ui.connectedOnce /\ ui'.wasDisconnected = ui.wasDisconnected
        /\ ui'.pending = ui.pending
    BY Rung DEF BellTick, TypeOK
  <1>3. ThreadSound' /\ ReportsSound' /\ (Ever' <=> Ever) /\ (Reconciles' <=> Reconciles)
    BY <1>1, <1>2, RestReports DEF Live, ThreadSound
  <1>4. (shown = Load(view))' <=> shown = Load(view)
    BY <1>1 DEF Load, ShownBy
  <1>5. \A x : Concerns(view, x)' <=> Concerns(view, x)
    BY <1>1 DEF Concerns, OnDetails, OnClarification
  <1>6. Announced' <=> Announced
    BY <1>1, <1>5 DEF Announced
  <1> QED
    BY <1>1, <1>2, <1>3, <1>4, <1>6 DEF Live, WillCatchUp

LEMMA WireKept ==
  ASSUME BoundsAssumption, Wired, WireInv, [Next]_vars
  PROVE  WireInv'
  <1>1. TypeOK /\ TypeOK'
    BY WireTyped DEF WireInv
  <1>2. stopped => stopped'
    BY DEF Next, Commit, Cut, Connect, ConnectFails, WaitOver, Poll, Heartbeat, Disconnect,
           ThreadEnds, ProcessQueue, Refresh, BellTick, Navigate, FollowNotification, Stop, vars
  <1>3. ASSUME ~stopped, Live, Next
        PROVE  stopped' \/ Live'
    <2>1. ~Heartbeat /\ ~ThreadEnds
      BY <1>3 DEF Heartbeat, ThreadEnds, Wired
    <2>2. Stop => stopped'
      BY DEF Stop
    <2> QED
      BY <1>1, <1>3, <2>1, <2>2, CommitLive, CutLive, ConnectLive, AttemptLive, PollLive,
         DisconnectLive, ProcessLive, RefreshLive, OpenLive, BellLive DEF Next
  <1>4. ASSUME Live, UNCHANGED vars
        PROVE  Live'
    <2>1. UNCHANGED <<db, view, shown, session, socket, notifies, thread, connected, queue, ui>>
      BY <1>4 DEF vars, listener, screen
    <2>2. ThreadSound'
      BY <1>4, <2>1 DEF Live, ThreadSound
    <2> QED
      BY <1>4, <2>1, <2>2, CatchUpStays, ReportsStay DEF Live
  <1> QED
    BY <1>1, <1>2, <1>3, <1>4 DEF WireInv

LEMMA WireStarts ==
  ASSUME BoundsAssumption, Init
  PROVE  WireInv
  <1>1. view \in Views /\ db \in [Keys -> Nat]
    BY DEF Init, Views
  <1>2. shown \in [ShownBy(view) -> Nat]
    BY <1>1, LoadTyped DEF Init
  <1>3. << >> \in Seq(Event) /\ << >> \in Seq(Items)
    OBVIOUS
  <1>4. ui \in UI
    BY DEF Init, UI
  <1>5. cuts \in 0 .. MaxCuts /\ failures \in 0 .. MaxFailures
    BY DEF Init, BoundsAssumption
  <1>6. TypeOK
    BY <1>1, <1>2, <1>3, <1>4, <1>5 DEF Init, TypeOK
  <1>7. Live
    BY DEF Init, Live, ThreadSound, ReportsSound, Ever, WillCatchUp
  <1> QED
    BY <1>6, <1>7 DEF WireInv

\* The variables of the listener, its queue and the Tk thread keep their types,
\* for any requests, breaks and failed attempts to connect.
THEOREM WireTypeCorrect ==
  ASSUME BoundsAssumption
  PROVE  Spec => []TypeOK
  <1>1. Init => TypeOK
    BY WireStarts DEF WireInv
  <1>2. TypeOK /\ [Next]_vars => TypeOK'
    BY WireTyped
  <1> QED
    BY <1>1, <1>2, PTL DEF Spec

\* A client that listens and has nothing left to do shows what the database
\* holds, however often its connection broke and however often it could not
\* connect again, whatever was committed meanwhile (RealtimeListener,
\* _apply_realtime_status, _run_reconciliation_refresh).
THEOREM QuietClientsAreFresh ==
  ASSUME BoundsAssumption, Wired
  PROVE  Spec => []QuietMeansFresh
  <1>1. Init => WireInv
    BY WireStarts
  <1>2. WireInv /\ [Next]_vars => WireInv'
    BY WireKept
  <1>3. WireInv => QuietMeansFresh
    BY DEF WireInv, Live, WillCatchUp, QuietMeansFresh, Quiet, Fresh, Reconciles, Announced
  <1> QED
    BY <1>1, <1>2, <1>3, PTL DEF Spec

-----------------------------------------------------------------------------
(* The quotation list.                                                     *)

CONSTANTS Statuses, Archived, Texts, Filters, None, Empty, MaxChanges, MaxInputs
VARIABLES events, all, requests, filter, search, counts, cards, timer, reading,
          changes, inputs

List == INSTANCE RequestList WITH screen <- cards

\* With no event and no refresh to come, what is shown is current, or a refresh
\* under way has read all requests as they are.
ListUpToDate ==
  events = 0 /\ timer = None =>
    IF List!Idle THEN all = List!Fetch("All") /\ requests = List!Fetch(filter)
                 ELSE reading.all = List!Fetch("All")
Counted == counts = List!Count(all, requests)

ListInv ==
  /\ events \in Nat /\ failures = 0 /\ timer \in {None, "sync", "full"}
  /\ reading.how \in {None, "sync", "full"}
  /\ Counted /\ ListUpToDate
UntilListFails == failures \in Nat /\ (failures = 0 => ListInv)

LEMMA FetchStays ==
  ASSUME UNCHANGED db, NEW f
  PROVE  List!Fetch(f)' = List!Fetch(f)
  BY DEF List!Fetch

LEMMA CountStays ==
  ASSUME Counted, UNCHANGED List!loaded
  PROVE  Counted'
  BY DEF Counted, List!loaded

LEMMA CountedAnew ==
  ASSUME NEW newAll, NEW new, List!ShowLoaded(newAll, new)
  PROVE  Counted' /\ all' = newAll /\ requests' = new
  BY DEF List!ShowLoaded, Counted

\* A step that leaves the rows, what is shown and a refresh under way alone,
\* and schedules none away, and takes no event without scheduling one.
LEMMA ListUpToDateStays ==
  ASSUME ListUpToDate, UNCHANGED <<db, all, requests, filter, reading>>,
         events' = 0 /\ timer' = None => events = 0 /\ timer = None
  PROVE  ListUpToDate'
  <1>1. List!Fetch("All")' = List!Fetch("All") /\ List!Fetch(filter)' = List!Fetch(filter)
    BY FetchStays DEF List!Fetch
  <1> QED
    BY <1>1 DEF ListUpToDate, List!Idle

LEMMA ListReads ==
  ASSUME NEW how \in {"sync", "full"}, None \notin {"sync", "full"},
         List!ReadAll(how), UNCHANGED db
  PROVE  ListUpToDate'
  <1>1. reading'.how = how /\ reading'.all = List!Fetch("All")
    BY DEF List!ReadAll
  <1>2. List!Fetch("All")' = List!Fetch("All")
    BY FetchStays
  <1> QED
    BY <1>1, <1>2 DEF ListUpToDate, List!Idle

\* A refresh ends: it has read all requests as they are, and now the filtered.
LEMMA ListHasRead ==
  ASSUME ListUpToDate, ~List!Idle, UNCHANGED <<db, filter, events, timer>>,
         reading' = List!NotReading, all' = reading.all, requests' = List!Fetch(filter)
  PROVE  ListUpToDate'
  <1>1. List!Fetch("All")' = List!Fetch("All") /\ List!Fetch(filter)' = List!Fetch(filter)
    BY FetchStays DEF List!Fetch
  <1>2. List!Idle'
    BY DEF List!Idle, List!NotReading
  <1> QED
    BY <1>1, <1>2 DEF ListUpToDate

LEMMA ListKept ==
  ASSUME List!RequestListAssumption, ListInv, [List!Next]_List!vars, failures' = 0
  PROVE  ListInv'
  <1>1. None \notin {"sync", "full"}
    BY DEF List!RequestListAssumption
  <1>2. ASSUME NEW i \in Requests, List!Change(i)
        PROVE  ListInv'
    <2>1. /\ events' = events + 1
          /\ UNCHANGED <<List!loaded, filter, search, timer, reading, failures>>
      BY <1>2 DEF List!Change
    <2>2. events' # 0 /\ events' \in Nat
      BY <2>1 DEF ListInv
    <2> QED
      BY <2>1, <2>2, CountStays DEF ListInv, ListUpToDate
  <1>3. CASE List!Event \/ List!Reconcile
    <2>1. /\ events' \in Nat /\ timer' \in {"sync", "full"}
          /\ UNCHANGED <<List!loaded, failures, reading>>
      BY <1>3 DEF List!Event, List!Reconcile, List!Schedule, ListInv, List!bounds
    <2> QED
      BY <1>1, <2>1, CountStays DEF ListInv, ListUpToDate
  <1>4. CASE List!Refresh
    <2>1. timer \in {"sync", "full"} /\ List!ReadAll(timer) /\ timer' = None
          /\ UNCHANGED <<db, events, List!loaded, failures>>
      BY <1>4 DEF List!Refresh, ListInv, List!bounds
    <2>2. ListUpToDate'
      BY <1>1, <2>1, ListReads
    <2>3. reading'.how = timer
      BY <2>1 DEF List!ReadAll
    <2> QED
      BY <2>1, <2>2, <2>3, CountStays DEF ListInv
  <1>5. CASE List!ShowFull
    <2>1. /\ ~List!Idle /\ List!ShowLoaded(reading.all, List!Fetch(filter))
          /\ reading' = List!NotReading
          /\ UNCHANGED <<db, events, filter, timer, failures>>
      BY <1>1, <1>5 DEF List!ShowFull, List!Idle, List!bounds
    <2>2. Counted' /\ all' = reading.all /\ requests' = List!Fetch(filter)
      BY <2>1, CountedAnew
    <2>3. ListUpToDate'
      BY <2>1, <2>2, ListHasRead DEF ListInv
    <2> QED
      BY <2>1, <2>2, <2>3 DEF ListInv, List!NotReading
  <1>6. CASE List!ShowSync
    <2>1. /\ ~List!Idle /\ reading' = List!NotReading
          /\ UNCHANGED <<db, events, filter, timer, failures>>
      BY <1>1, <1>6 DEF List!ShowSync, List!Idle, List!bounds
    <2>2. Counted' /\ all' = reading.all /\ requests' = List!Fetch(filter)
      <3>1. CASE List!Same(reading.all, List!Fetch(filter))
        BY <1>6, <3>1, CountStays DEF List!ShowSync, List!Same, List!loaded, ListInv
      <3>2. CASE ~List!Same(reading.all, List!Fetch(filter))
        BY <1>6, <3>2, CountedAnew DEF List!ShowSync
      <3> QED
        BY <3>1, <3>2
    <2>3. ListUpToDate'
      BY <2>1, <2>2, ListHasRead DEF ListInv
    <2> QED
      BY <2>1, <2>2, <2>3 DEF ListInv, List!NotReading
  <1>7. ~List!ReadFails
    BY DEF List!ReadFails, ListInv
  <1>8. ASSUME NEW f \in Filters, List!SetFilter(f)
        PROVE  ListInv'
    <2>1. List!ReadAll("full") /\ UNCHANGED <<db, events, List!loaded, timer, failures>>
      BY <1>8 DEF List!SetFilter
    <2>2. ListUpToDate'
      BY <1>1, <2>1, ListReads
    <2>3. reading'.how = "full"
      BY <2>1 DEF List!ReadAll
    <2> QED
      BY <2>1, <2>2, <2>3, CountStays DEF ListInv
  <1>9. ASSUME NEW text \in Texts \cup {None}, List!TypeSearch(text) \/ List!PasteSearch(text)
        PROVE  ListInv'
    <2>1. UNCHANGED <<db, events, all, requests, counts, filter, timer, reading, failures>>
      BY <1>9 DEF List!TypeSearch, List!PasteSearch, List!loaded
    <2>2. Counted'
      BY <2>1 DEF ListInv, Counted
    <2> QED
      BY <2>1, <2>2, ListUpToDateStays DEF ListInv
  <1>10. CASE UNCHANGED List!vars
    <2>1. UNCHANGED <<db, events, List!loaded, filter, timer, reading, failures>>
      BY <1>10 DEF List!vars, List!bounds
    <2> QED
      BY <2>1, ListUpToDateStays, CountStays DEF ListInv, List!loaded
  <1> QED
    BY <1>2, <1>3, <1>4, <1>5, <1>6, <1>7, <1>8, <1>9, <1>10 DEF List!Next

LEMMA ListStarts ==
  ASSUME List!RequestListAssumption, List!Init
  PROVE  ListInv
  <1>1. /\ events = 0 /\ failures = 0 /\ timer = None /\ reading = List!NotReading
        /\ all = List!Fetch("All") /\ requests = List!Fetch("Active") /\ filter = "Active"
        /\ counts = List!Count(all, requests)
    BY DEF List!Init
  <1> QED
    BY <1>1 DEF ListInv, ListUpToDate, Counted, List!NotReading, List!Idle

\* With no event on its way and no refresh due, the quotation list and the
\* numbers on its buttons are those of the database, however many filters are
\* chosen, keys typed and changes made between the two reads of a refresh, as
\* long as no read fails: a synchronisation whose read failed keeps what is shown until
\* the next event (_refresh_requests_incrementally).
THEOREM ListsComeToRest ==
  ASSUME List!RequestListAssumption
  PROVE  List!Spec => [](failures = 0 => List!QuietMeansCurrent)
  <1>1. UntilListFails => (failures = 0 => List!QuietMeansCurrent)
    BY DEF UntilListFails, ListInv, ListUpToDate, Counted, List!QuietMeansCurrent
  <1>2. List!Init => UntilListFails
    BY ListStarts DEF UntilListFails, ListInv
  <1>3. UntilListFails /\ [List!Next]_List!vars => UntilListFails'
    <2>1. failures \in Nat /\ [List!Next]_List!vars
            => failures' \in Nat /\ (failures' = 0 => failures = 0)
      BY DEF List!Next, List!vars, List!bounds, List!Change, List!Event, List!Reconcile,
           List!Refresh, List!ShowFull, List!ShowSync, List!ReadFails, List!SetFilter,
           List!TypeSearch, List!PasteSearch
    <2> QED
      BY <2>1, ListKept DEF UntilListFails
  <1> QED
    BY <1>1, <1>2, <1>3, PTL DEF List!Spec

-----------------------------------------------------------------------------
(* The dashboard.                                                          *)

CONSTANTS Perspectives, Today, MaxClicks
VARIABLES day, perspective, data, summary, attention, clicks

Board == INSTANCE Dashboard WITH screen <- cards

\* The labels and the banner say what the loaded data says.
LabelsShown == summary = data.numbers /\ attention = data.attention

NumbersCounted == data.numbers = Board!Numbers(data.records, data.attention)

\* Records as the service would give them now, but for what is overdue.
Current(records) ==
  /\ DOMAIN records = DOMAIN Board!FetchRecords
  /\ \A n \in DOMAIN records : Board!SameButOverdue(records[n], Board!FetchRecords[n])

\* With no event and no refresh to come, what is shown is current, or a refresh
\* under way has read the records as they are.
BoardUpToDate ==
  events = 0 /\ timer = None =>
    IF Board!Idle THEN Current(data.records) /\ data.attention = Board!FetchAttention
                  ELSE Current(reading.records)

BoardInv ==
  /\ perspective \in {"engineering", "purchasing", "manager"}
  /\ events \in Nat /\ failures = 0 /\ timer \in {None, "sync", "full"}
  /\ reading.how \in {None, "sync", "full"}
  /\ NumbersCounted /\ BoardUpToDate
UntilBoardFails == failures \in Nat /\ (failures = 0 => BoardInv)

-----------------------------------------------------------------------------
Fields == {"id", "status", "assignee", "priority", "due", "overdue"}

LEMMA RecordFields ==
  ASSUME NEW n \in DOMAIN Board!FetchRecords
  PROVE  DOMAIN Board!FetchRecords[n] = Fields
  BY DEF Board!FetchRecords, Board!Record, Fields

\* The labels do not depend on what is overdue.
LEMMA SameNumbers ==
  ASSUME perspective \in {"engineering", "purchasing", "manager"},
         NEW r, NEW s, NEW waiting, DOMAIN r = DOMAIN s,
         \A n \in DOMAIN r : r[n].status = s[n].status /\ r[n].assignee = s[n].assignee
  PROVE  Board!Numbers(r, waiting) = Board!Numbers(s, waiting)
  <1>1. ASSUME NEW statuses
        PROVE  Board!Having(r, statuses) = Board!Having(s, statuses)
    <2>1. {n \in DOMAIN r : r[n].status \in statuses}
            = {n \in DOMAIN s : s[n].status \in statuses}
      OBVIOUS
    <2> QED
      BY <2>1 DEF Board!Having
  <1>2. {n \in DOMAIN r : r[n].assignee = None} = {n \in DOMAIN s : s[n].assignee = None}
    OBVIOUS
  <1>3. Board!Second(r) = Board!Second(s)
    BY <1>1, <1>2 DEF Board!Second
  <1> QED
    BY <1>1, <1>3 DEF Board!Numbers

LEMMA CurrentFields ==
  ASSUME NEW records, Current(records), NEW n \in DOMAIN records
  PROVE  /\ records[n].status = Board!FetchRecords[n].status
         /\ records[n].assignee = Board!FetchRecords[n].assignee
  <1>1. /\ n \in DOMAIN Board!FetchRecords
        /\ [records[n] EXCEPT !.overdue = Board!FetchRecords[n].overdue] = Board!FetchRecords[n]
    BY DEF Current, Board!SameButOverdue
  <1>2. DOMAIN records[n] = Fields
    BY <1>1, RecordFields
  <1> QED
    BY <1>1, <1>2 DEF Fields

LEMMA CurrentNumbers ==
  ASSUME perspective \in {"engineering", "purchasing", "manager"},
         NEW records, Current(records), NEW waiting
  PROVE  Board!Numbers(records, waiting) = Board!Numbers(Board!FetchRecords, waiting)
  BY CurrentFields, SameNumbers DEF Current

\* What the service reads is current.
LEMMA ReadIsCurrent ==
  Current(Board!FetchRecords)
  BY DEF Current, Board!SameButOverdue, Board!FetchRecords, Board!Record

-----------------------------------------------------------------------------
(* Steps that leave the rows alone.                                        *)

LEMMA AttentionStays ==
  ASSUME UNCHANGED <<db, perspective>>
  PROVE  Board!FetchAttention' = Board!FetchAttention
  <1>1. {i \in Board!Existing : Board!Mine(db[i], perspective) /\ Board!Waits(db[i])}'
          = {i \in Board!Existing : Board!Mine(db[i], perspective) /\ Board!Waits(db[i])}
    BY DEF Board!Existing, Board!Waits
  <1> QED
    BY <1>1 DEF Board!FetchAttention

\* A day may pass.
LEMMA RecordsStay ==
  ASSUME UNCHANGED <<db, perspective>>
  PROVE  /\ DOMAIN Board!FetchRecords' = DOMAIN Board!FetchRecords
         /\ \A n \in DOMAIN Board!FetchRecords :
              Board!SameButOverdue(Board!FetchRecords[n], Board!FetchRecords[n]')
  <1> DEFINE numbers == Board!Sorted(db, perspective)
  <1>1. /\ Board!FetchRecords = [n \in DOMAIN numbers |-> Board!Record(numbers[n])]
        /\ Board!FetchRecords' = [n \in DOMAIN numbers |-> Board!Record(numbers[n])']
    BY DEF Board!FetchRecords, Board!Record
  <1> QED
    BY <1>1 DEF Board!Record, Board!SameButOverdue

\* ... and what was current stays it.
LEMMA CurrentStays ==
  ASSUME UNCHANGED <<db, perspective>>, NEW records, Current(records)
  PROVE  Current(records)'
  <1>1. DOMAIN records = DOMAIN Board!FetchRecords'
    BY RecordsStay DEF Current
  <1>2. ASSUME NEW n \in DOMAIN records
        PROVE  Board!SameButOverdue(records[n], Board!FetchRecords[n]')
    <2>1. /\ Board!SameButOverdue(records[n], Board!FetchRecords[n])
          /\ Board!SameButOverdue(Board!FetchRecords[n], Board!FetchRecords[n]')
          /\ DOMAIN Board!FetchRecords[n] = Fields
      BY RecordFields, RecordsStay DEF Current
    <2> QED
      BY <2>1 DEF Board!SameButOverdue, Fields
  <1> QED
    BY <1>1, <1>2 DEF Current

LEMMA NumbersStay ==
  ASSUME NumbersCounted, UNCHANGED <<data, perspective>>
  PROVE  NumbersCounted'
  BY DEF NumbersCounted, Board!Numbers, Board!Second

LEMMA BoardUpToDateStays ==
  ASSUME BoardUpToDate, UNCHANGED <<db, perspective, data, reading>>,
         events' = 0 /\ timer' = None => events = 0 /\ timer = None
  PROVE  BoardUpToDate'
  <1>1. CASE Current(data.records) /\ data.attention = Board!FetchAttention /\ Board!Idle
    <2>1. Current(data.records)' /\ data'.attention = Board!FetchAttention' /\ Board!Idle'
      BY <1>1, CurrentStays, AttentionStays DEF Board!Idle
    <2> QED
      BY <2>1 DEF BoardUpToDate
  <1>2. CASE Current(reading.records) /\ ~Board!Idle
    <2>1. Current(reading.records)' /\ ~Board!Idle'
      BY <1>2, CurrentStays DEF Board!Idle
    <2> QED
      BY <2>1 DEF BoardUpToDate
  <1>3. CASE ~(events = 0 /\ timer = None)
    BY <1>3 DEF BoardUpToDate
  <1> QED
    BY <1>1, <1>2, <1>3 DEF BoardUpToDate

LEMMA BoardReads ==
  ASSUME NEW how \in {"sync", "full"}, None \notin {"sync", "full"},
         Board!Read(how), UNCHANGED <<db, perspective>>
  PROVE  BoardUpToDate' /\ reading'.how = how
  <1>1. reading'.how = how /\ reading'.records = Board!FetchRecords
    BY DEF Board!Read
  <1>2. Current(reading.records)'
    BY <1>1, ReadIsCurrent, CurrentStays DEF Current
  <1> QED
    BY <1>1, <1>2 DEF BoardUpToDate, Board!Idle

LEMMA Shown ==
  ASSUME Board!Show
  PROVE  /\ data' = Board!Data(reading.records, Board!FetchAttention)
         /\ summary' = data'.numbers \/ summary' = Board!NewSummary(data.numbers, data'.numbers)
         /\ attention' = data'.attention
         /\ ~Board!Idle /\ reading' = Board!NotReading
         /\ UNCHANGED <<db, perspective, events, timer, failures>>
  BY DEF Board!Show, Board!Build, Board!Apply, Board!bounds

\* A refresh ends: it has read the records as they are, and now how much waits.
LEMMA BoardHasRead ==
  ASSUME BoardUpToDate, Board!Show
  PROVE  NumbersCounted' /\ BoardUpToDate'
  <1>1. /\ data'.records = reading.records /\ data'.attention = Board!FetchAttention
        /\ data'.numbers = Board!Numbers(reading.records, Board!FetchAttention)
    BY Shown DEF Board!Data
  <1>2. NumbersCounted'
    <2>1. ASSUME NEW r, NEW w
          PROVE  Board!Numbers(r, w)' = Board!Numbers(r, w)
      BY Shown DEF Board!Numbers, Board!Second
    <2> QED
      BY <1>1, <2>1 DEF NumbersCounted
  <1>3. Board!Idle'
    BY Shown DEF Board!Idle, Board!NotReading
  <1>4. events = 0 /\ timer = None =>
          Current(data.records)' /\ data'.attention = Board!FetchAttention'
    <2>1. SUFFICES ASSUME events = 0, timer = None
                   PROVE  Current(data.records)' /\ data'.attention = Board!FetchAttention'
      OBVIOUS
    <2>2. Current(reading.records)
      BY <2>1, Shown DEF BoardUpToDate
    <2>3. PICK r : r = reading.records
      OBVIOUS
    <2>4. Current(r)'
      BY <2>2, <2>3, Shown, CurrentStays
    <2> QED
      BY <2>3, <2>4, <1>1, Shown, AttentionStays DEF Current
  <1> QED
    BY <1>2, <1>3, <1>4, Shown DEF BoardUpToDate

LEMMA BoardKept ==
  ASSUME Board!DashboardAssumption, BoardInv, [Board!Next]_Board!vars, failures' = 0
  PROVE  BoardInv'
  <1>1. None \notin {"sync", "full"}
    BY DEF Board!DashboardAssumption
  <1>2. ASSUME NEW i \in Requests, Board!Change(i)
        PROVE  BoardInv'
    <2>1. /\ events' = events + 1
          /\ UNCHANGED <<perspective, data, timer, reading, failures>>
      BY <1>2 DEF Board!Change, Board!Heard, Board!shown
    <2>2. events' # 0 /\ events' \in Nat
      BY <2>1 DEF BoardInv
    <2> QED
      BY <2>1, <2>2, NumbersStay DEF BoardInv, BoardUpToDate
  <1>3. CASE Board!Event \/ Board!Reconcile
    <2>1. /\ events' \in Nat /\ timer' \in {"sync", "full"}
          /\ UNCHANGED <<perspective, data, reading, failures>>
      BY <1>3 DEF Board!Event, Board!Reconcile, BoardInv, Board!bounds, Board!shown
    <2> QED
      BY <1>1, <2>1, NumbersStay DEF BoardInv, BoardUpToDate
  <1>4. ASSUME NEW how \in {"sync", "full"}, Board!Read(how), timer' \in {timer, None},
               UNCHANGED <<db, events, perspective, data, failures>>
        PROVE  BoardInv'
    <2>1. BoardUpToDate' /\ reading'.how = how
      BY <1>1, <1>4, BoardReads
    <2> QED
      BY <1>4, <2>1, NumbersStay DEF BoardInv
  <1>5. CASE Board!Refresh \/ Board!ManualRefresh
    <2>1. PICK how \in {"sync", "full"} : Board!Read(how)
      BY <1>5 DEF Board!Refresh, Board!ManualRefresh, BoardInv
    <2>2. /\ timer' \in {timer, None}
          /\ UNCHANGED <<db, events, perspective, data, failures>>
      BY <1>5 DEF Board!Refresh, Board!ManualRefresh, Board!bounds, Board!shown
    <2> QED
      BY <1>4, <2>1, <2>2
  <1>6. CASE Board!Show
    <2>1. NumbersCounted' /\ BoardUpToDate'
      BY <1>6, BoardHasRead DEF BoardInv
    <2> QED
      BY <1>6, <2>1, Shown DEF BoardInv, Board!NotReading
  <1>7. ~Board!ReadFails
    BY DEF Board!ReadFails, BoardInv
  <1>8. CASE Board!NextDay \/ UNCHANGED Board!vars
    <2>1. UNCHANGED <<db, events, perspective, data, timer, reading, failures>>
      BY <1>8 DEF Board!NextDay, Board!vars, Board!bounds, Board!shown
    <2> QED
      BY <2>1, BoardUpToDateStays, NumbersStay DEF BoardInv
  <1> QED
    BY <1>2, <1>3, <1>5, <1>6, <1>7, <1>8 DEF Board!Next

LEMMA BoardStarts ==
  ASSUME Board!DashboardAssumption, Board!Init
  PROVE  BoardInv
  <1>1. /\ events = 0 /\ failures = 0 /\ timer = None /\ reading = Board!NotReading
        /\ data = Board!Data(Board!FetchRecords, Board!FetchAttention)
        /\ perspective \in Perspectives
    BY DEF Board!Init
  <1>2. /\ data.records = Board!FetchRecords /\ data.attention = Board!FetchAttention
        /\ NumbersCounted
    BY <1>1 DEF Board!Data, NumbersCounted
  <1>3. Current(data.records) /\ perspective \in {"engineering", "purchasing", "manager"}
    BY <1>1, <1>2, ReadIsCurrent DEF Board!DashboardAssumption
  <1> QED
    BY <1>1, <1>2, <1>3 DEF BoardInv, BoardUpToDate, Board!NotReading, Board!Idle

\* With no event on its way and no refresh due, the dashboard has the records
\* of its perspective in the order of the service, the six numbers and how much
\* waits, as long as no read fails; a day may have passed since, which changes
\* what is overdue and nothing else (_apply_incremental_data).
THEOREM BoardsComeToRest ==
  ASSUME Board!DashboardAssumption
  PROVE  Board!Spec => [](failures = 0 => Board!QuietMeansCurrent)
  <1>1. UntilBoardFails => (failures = 0 => Board!QuietMeansCurrent)
    <2>1. SUFFICES ASSUME BoardInv, events = 0, timer = None, Board!Idle
                   PROVE  /\ Current(data.records)
                          /\ data.numbers =
                               Board!Numbers(Board!FetchRecords, Board!FetchAttention)
      BY DEF UntilBoardFails, Board!QuietMeansCurrent, Current
    <2>2. Current(data.records) /\ data.attention = Board!FetchAttention
      BY <2>1 DEF BoardInv, BoardUpToDate
    <2> QED
      BY <2>1, <2>2, CurrentNumbers DEF BoardInv, NumbersCounted
  <1>2. Board!Init => UntilBoardFails
    BY BoardStarts DEF UntilBoardFails, BoardInv
  <1>3. UntilBoardFails /\ [Board!Next]_Board!vars => UntilBoardFails'
    <2>1. failures \in Nat /\ [Board!Next]_Board!vars
            => failures' \in Nat /\ (failures' = 0 => failures = 0)
      BY DEF Board!Next, Board!vars, Board!bounds, Board!Change, Board!NextDay,
           Board!Event, Board!Reconcile, Board!Refresh, Board!ManualRefresh, Board!Show,
           Board!ReadFails
    <2> QED
      BY <2>1, BoardKept DEF UntilBoardFails
  <1> QED
    BY <1>1, <1>2, <1>3, PTL DEF Board!Spec

\* Whatever fails and whatever day it is, the labels that are changed one by
\* one and the banner say what the loaded data says: a label is compared with
\* the data before, which it shows (_apply_incremental_data).
THEOREM LabelsSayTheData ==
  Board!Spec => []LabelsShown
  <1>1. Board!Init => LabelsShown
    BY DEF Board!Init, LabelsShown
  <1>2. LabelsShown /\ [Board!Next]_Board!vars => LabelsShown'
    <2>1. SUFFICES ASSUME LabelsShown, [Board!Next]_Board!vars PROVE LabelsShown'
      OBVIOUS
    <2>2. CASE Board!Show
      <3>1. /\ data' = Board!Data(reading.records, Board!FetchAttention)
            /\ attention' = data'.attention
        BY <2>2, Shown
      <3>2. data'.numbers = [label \in Board!Labels |-> data'.numbers[label]]
        BY <3>1 DEF Board!Data, Board!Numbers
      <3>3. summary' = data'.numbers
        BY <2>1, <2>2, <3>2, Shown DEF Board!NewSummary, LabelsShown
      <3> QED
        BY <3>1, <3>3 DEF LabelsShown
    <2>3. CASE UNCHANGED Board!shown
      BY <2>1, <2>3 DEF LabelsShown, Board!shown
    <2> QED
      BY <2>1, <2>2, <2>3
      DEF Board!Next, Board!vars, Board!Change, Board!NextDay, Board!Event,
          Board!Reconcile, Board!Refresh, Board!ManualRefresh, Board!ReadFails
  <1> QED
    BY <1>1, <1>2, PTL DEF Board!Spec
===============================================================================
