---------------------------- MODULE ClarificationView ----------------------------
(***************************************************************************)
(* The windows in which a supplier clarification is answered               *)
(* (clarification_details_view.py) over the services of                    *)
(* clarification_service.py.                                               *)
(*                                                                         *)
(* A window offers the one action that the status it loaded and its user   *)
(* allow.  The text is taken before the confirmation is asked for; the     *)
(* service checks the status, then waits for the lock of the request and   *)
(* checks who the user is.  Windows are refreshed by events of this        *)
(* clarification only: a reassignment of the request does not reach them.  *)
(***************************************************************************)
EXTENDS Integers, Sequences

CONSTANTS
  Engineer,   \* the requester, who answers
  Officers,   \* who may be assigned, and then asks and forwards
  Windows,
  UserOf,     \* the signed-in user of each window
  None,
  MaxMessages,   \* bound: messages of the conversation
  MaxReassigns,  \* bound: reassignments of the request
  MaxReconnects, \* bound: reconciliation refreshes
  MaxFails       \* bound: failing queries of windows

Statuses == {"awaiting", "ready", "forwarded", "resolved"}
Ops == {"respond", "forward", "follow up", "resolve"}

\* What a window loads, and what is confirmed in it.
Loaded == [status : Statuses, officer : Officers, count : Nat]
NeedsText(op) == op \in {"respond", "follow up"}
Answers == {answer \in [op : Ops, text : Nat \cup {None}] :
              NeedsText(answer.op) => answer.text # None}

ClarificationViewAssumption ==
  /\ UserOf \in [Windows -> Officers \cup {Engineer}]
  /\ Engineer \notin Officers
  /\ {MaxMessages, MaxReassigns, MaxReconnects, MaxFails} \subseteq Nat
  /\ None \notin Nat \cup Loaded \cup Answers

VARIABLES
  row,      \* the clarification, what was said or done in it (one entry for
            \* each operation, also a forward without a note), and the officer
  underway, \* windows an event is on its way to
  timer,    \* windows whose refresh is scheduled
  busy,     \* windows that have read the status but not yet the messages
  shown,    \* what each window loaded: status, officer, number of messages
  form,     \* the action each window has built its widgets for
  text,     \* the text in the box: the number of messages it was typed after
  asked,    \* the confirmation that is open: its operation and the text
  call,     \* the operation that has passed the check of the status
  reassigns, reconnects, fails

ui == <<shown, form, text>>
vars == <<row, underway, timer, busy, ui, asked, call, reassigns,
          reconnects, fails>>

Wanted == [op \in Ops |-> CASE op = "respond" -> "awaiting"
                             [] op = "forward" -> "ready"
                             [] OTHER -> "forwarded"]
Becomes == [op \in Ops |-> CASE op = "respond" -> "ready"
                              [] op = "forward" -> "forwarded"
                              [] op = "follow up" -> "awaiting"
                              [] op = "resolve" -> "resolved"]

-----------------------------------------------------------------------------
\* can_submit_engineering_response and the others; every account has its
\* role's permissions here.
Responsible(user, op, officer) ==
  user = IF op = "respond" THEN Engineer ELSE officer

\* build_workflow_actions
Form(user, status, officer) ==
  CASE status = "awaiting" /\ user = Engineer -> "response"
    [] status = "ready" /\ user = officer -> "forward"
    [] status = "forwarded" /\ user = officer -> "forwarded"
    [] OTHER -> "read-only"

Offers(form_, op) ==
  \/ form_ = "response" /\ op = "respond"
  \/ form_ = "forward" /\ op = "forward"
  \/ form_ = "forwarded" /\ op \in {"follow up", "resolve"}

HasBox(form_) == form_ # "read-only"

\* _run_realtime_refresh and handle_workflow_change build everything anew: the
\* text box too.
Seen == [status |-> row.status, officer |-> row.officer,
         count |-> Len(row.said)]

Init ==
  /\ row \in [status : {"awaiting"}, officer : Officers,
              said : {<<[op |-> "ask", by |-> None, seen |-> 0,
                         officer |-> None]>>}]
  /\ underway = {} /\ timer = {}
  /\ busy = [w \in Windows |-> None]
  /\ shown = [w \in Windows |-> Seen]
  /\ form = [w \in Windows |-> Form(UserOf[w], row.status, row.officer)]
  /\ text = [w \in Windows |-> None]
  /\ asked = [w \in Windows |-> None] /\ call = [w \in Windows |-> None]
  /\ reassigns = 0 /\ reconnects = 0 /\ fails = 0

-----------------------------------------------------------------------------
(* Events and refreshes.                                                    *)

\* A window's handlers run when it is not in a query.
Idle(w) == busy[w] = None /\ call[w] = None

\* RequestDesk has the rest of it; the event names no clarification.
Reassign(officer) ==
  /\ reassigns < MaxReassigns /\ officer # row.officer
  /\ reassigns' = reassigns + 1
  /\ row' = [row EXCEPT !.officer = officer]
  /\ UNCHANGED <<underway, timer, busy, ui, asked, call, reconnects, fails>>

Reconnect(w) ==
  /\ reconnects < MaxReconnects
  /\ reconnects' = reconnects + 1
  /\ underway' = underway \cup {w}
  /\ UNCHANGED <<row, timer, busy, ui, asked, call, reassigns, fails>>

\* Mutant: no refresh while there is text in the box.
DeliverUnlessTyping(w) ==
  /\ w \in underway /\ Idle(w)
  /\ underway' = underway \ {w}
  /\ timer' = IF text[w] = None THEN timer \cup {w} ELSE timer
  /\ UNCHANGED <<row, busy, ui, asked, call, reassigns, reconnects, fails>>

\* handle_realtime_event, _schedule_realtime_refresh
Deliver(w) ==
  /\ w \in underway /\ Idle(w)
  /\ underway' = underway \ {w}
  /\ timer' = timer \cup {w}
  /\ UNCHANGED <<row, busy, ui, asked, call, reassigns, reconnects, fails>>

\* load_data: get_clarification first ...
StartReload(w) ==
  /\ w \in timer /\ Idle(w)
  /\ timer' = timer \ {w}
  /\ busy' = [busy EXCEPT ![w] = Seen]
  /\ UNCHANGED <<row, underway, ui, asked, call, reassigns, reconnects,
                 fails>>

\* Mutant: the text stays in the box.
FinishReloadWithText(w) ==
  /\ busy[w] # None
  /\ shown' = [shown EXCEPT ![w] = [busy[w] EXCEPT !.count = Len(row.said)]]
  /\ form' = [form EXCEPT ![w] =
                Form(UserOf[w], busy[w].status, busy[w].officer)]
  /\ busy' = [busy EXCEPT ![w] = None]
  /\ UNCHANGED <<row, underway, timer, text, asked, call, reassigns,
                 reconnects, fails>>

\* ... then get_messages, and the widgets.
FinishReload(w) ==
  /\ busy[w] # None
  /\ shown' = [shown EXCEPT ![w] = [busy[w] EXCEPT !.count = Len(row.said)]]
  /\ form' = [form EXCEPT ![w] =
                Form(UserOf[w], busy[w].status, busy[w].officer)]
  /\ text' = [text EXCEPT ![w] = None]
  /\ busy' = [busy EXCEPT ![w] = None]
  /\ UNCHANGED <<row, underway, timer, asked, call, reassigns,
                 reconnects, fails>>

\* A query fails: the record may be new, the widgets are the old ones.
ReloadFails(w) ==
  /\ busy[w] # None /\ fails < MaxFails
  /\ fails' = fails + 1
  /\ \E read \in BOOLEAN :
       shown' = IF read THEN [shown EXCEPT ![w] =
                               [busy[w] EXCEPT !.count = shown[w].count]]
                ELSE shown
  /\ busy' = [busy EXCEPT ![w] = None]
  /\ UNCHANGED <<row, underway, timer, form, text, asked, call, reassigns,
                 reconnects>>

-----------------------------------------------------------------------------
(* The user.                                                                *)

Type(w) ==
  /\ Idle(w) /\ asked[w] = None /\ HasBox(form[w])
  /\ text[w] # shown[w].count
  /\ text' = [text EXCEPT ![w] = shown[w].count]
  /\ UNCHANGED <<row, underway, timer, busy, shown, form, asked, call,
                 reassigns, reconnects, fails>>

\* A button of the form; without the text that is required nothing is asked.
Ask(w, op) ==
  /\ Idle(w) /\ asked[w] = None
  /\ Offers(form[w], op)
  /\ NeedsText(op) => text[w] # None
  /\ asked' = [asked EXCEPT ![w] = [op |-> op, text |-> text[w]]]
  /\ UNCHANGED <<row, underway, timer, busy, ui, call, reassigns,
                 reconnects, fails>>

Decline(w) ==
  /\ Idle(w) /\ asked[w] # None
  /\ asked' = [asked EXCEPT ![w] = None]
  /\ UNCHANGED <<row, underway, timer, busy, ui, call, reassigns,
                 reconnects, fails>>

\* Mutant: nobody looks at the status.
BeginAnyhow(w) ==
  /\ Idle(w) /\ asked[w] # None /\ Len(row.said) < MaxMessages
  /\ asked' = [asked EXCEPT ![w] = None]
  /\ call' = [call EXCEPT ![w] = asked[w]]
  /\ UNCHANGED <<row, underway, timer, busy, ui, reassigns, reconnects,
                 fails>>

\* The confirmation is given: get_clarification_by_id reads the status without
\* a lock.
Begin(w) ==
  /\ Idle(w) /\ asked[w] # None /\ Len(row.said) < MaxMessages
  /\ asked' = [asked EXCEPT ![w] = None]
  /\ IF row.status = Wanted[asked[w].op]
       THEN call' = [call EXCEPT ![w] = asked[w]]
       ELSE UNCHANGED call
  /\ UNCHANGED <<row, underway, timer, busy, ui, reassigns, reconnects, fails>>

\* What an operation adds to the conversation.
Said(w) ==
  [op |-> call[w].op, by |-> UserOf[w], officer |-> row.officer,
   seen |-> IF NeedsText(call[w].op) THEN call[w].text ELSE Len(row.said)]

Answered(w) ==
  row' = [row EXCEPT !.status = Becomes[call[w].op], !.said = Append(@, Said(w))]

\* Mutant: the user is taken to be who the window said.
CommitUnchecked(w) ==
  /\ call[w] # None
  /\ call' = [call EXCEPT ![w] = None]
  /\ Answered(w)
  /\ underway' = Windows
  /\ busy' = [busy EXCEPT ![w] = Seen']
  /\ UNCHANGED <<timer, ui, asked, reassigns, reconnects, fails>>

\* Mutant: no event.
CommitSilently(w) ==
  /\ call[w] # None
  /\ call' = [call EXCEPT ![w] = None]
  /\ IF Responsible(UserOf[w], call[w].op, row.officer)
       THEN /\ Answered(w)
            /\ busy' = [busy EXCEPT ![w] = Seen']
       ELSE UNCHANGED <<row, busy>>
  /\ UNCHANGED <<underway, timer, ui, asked, reassigns, reconnects, fails>>

\* The request is locked, its officer or requester checked, the message and the
\* status written; then handle_workflow_change loads the window again.
Commit(w) ==
  /\ call[w] # None
  /\ call' = [call EXCEPT ![w] = None]
  /\ IF Responsible(UserOf[w], call[w].op, row.officer)
       THEN /\ Answered(w)
            /\ underway' = Windows
            /\ busy' = [busy EXCEPT ![w] = Seen']
       ELSE UNCHANGED <<row, underway, busy>>
  /\ UNCHANGED <<timer, ui, asked, reassigns, reconnects, fails>>

\* The transaction is rolled back.
CallFails(w) ==
  /\ call[w] # None /\ fails < MaxFails
  /\ fails' = fails + 1
  /\ call' = [call EXCEPT ![w] = None]
  /\ UNCHANGED <<row, underway, timer, busy, ui, asked, reassigns, reconnects>>

Next ==
  \/ \E officer \in Officers : Reassign(officer)
  \/ \E w \in Windows :
       \/ Reconnect(w) \/ Deliver(w) \/ StartReload(w) \/ FinishReload(w)
       \/ ReloadFails(w) \/ Type(w) \/ Decline(w) \/ Begin(w) \/ Commit(w)
       \/ CallFails(w)
       \/ \E op \in Ops : Ask(w, op)

Spec == Init /\ [][Next]_vars

-----------------------------------------------------------------------------
(* Properties.                                                              *)

Messages == [op : Ops \cup {"ask"}, by : Officers \cup {Engineer, None},
             officer : Officers \cup {None}, seen : Nat]

Actions == {"response", "forward", "forwarded", "read-only"}

TypeOK ==
  /\ row \in [status : Statuses, officer : Officers, said : Seq(Messages)]
  /\ underway \subseteq Windows /\ timer \subseteq Windows
  /\ busy \in [Windows -> Loaded \cup {None}]
  /\ shown \in [Windows -> Loaded] /\ form \in [Windows -> Actions]
  /\ text \in [Windows -> Nat \cup {None}]
  /\ asked \in [Windows -> Answers \cup {None}]
  /\ call \in [Windows -> Answers \cup {None}]
  /\ {reassigns, reconnects, fails} \subseteq Nat
  /\ \A w \in Windows : /\ shown[w].count <= Len(row.said)
                        /\ text[w] # None => text[w] <= Len(row.said)

\* The conversation takes turns, however far the windows of the two sides are
\* behind, as the services' checks of the status say ("This clarification is
\* not awaiting an Engineering response."): a response follows a question, what
\* is forwarded is a response, and only what was forwarded is followed up or
\* resolved.
TurnsAreTaken ==
  \A k \in 2..Len(row.said) :
    LET before == row.said[k - 1].op IN
      CASE row.said[k].op = "respond" -> before \in {"ask", "follow up"}
        [] row.said[k].op = "forward" -> before = "respond"
        [] OTHER -> before = "forward"

\* An answer was written with everything said before it on the screen -- as
\* long as each side has one window, the officer stays and no query fails.
AnswersWhatWasSeen ==
  \A k \in 2..Len(row.said) : row.said[k].seen = k - 1

\* A message is its side's: the officer's are of whoever the request was
\* assigned to when they were written, also when it changed hands after the
\* form was built, the confirmation given or the status checked.
AuthorsAreResponsible ==
  \A k \in 2..Len(row.said) :
    Responsible(row.said[k].by, row.said[k].op, row.said[k].officer)

\* A window with nothing under way, and no failure, shows the status and all
\* that was said.
QuietMeansCurrent ==
  \A w \in Windows :
    w \notin underway \cup timer /\ Idle(w) /\ fails = 0 =>
      shown[w].status = row.status /\ shown[w].count = Len(row.said)

\* After the last message every window comes to show it.
Settles ==
  \A w \in Windows : <>[](shown[w].count = Len(row.said))
=============================================================================
