------------------------------- MODULE MCViews -------------------------------
(***************************************************************************)
(* The details view and the clarification windows on small instances.  An  *)
(* initial state chooses the instance that moves (part); variables that it *)
(* does not have stay Off.                                                 *)
(***************************************************************************)
EXTENDS RequestDetails, FiniteSets, Sequences, TLC

VARIABLES
  part,
  record, sent, due, reading, shown, form, text, asked, call, reassigns,
  returns, losses

windows == <<record, sent, due, reading, shown, form, text, asked, call,
             reassigns, returns, losses>>
all == <<part, vars, windows>>

Off == "off"

\* A view of a request that nobody is assigned to.
DetailsRest == Init /\ row.assignment = 0
WindowsOff ==
  /\ record = Off /\ sent = Off /\ due = Off /\ reading = Off /\ shown = Off
  /\ form = Off /\ text = Off /\ asked = Off /\ call = Off /\ reassigns = Off
  /\ returns = Off /\ losses = Off

-----------------------------------------------------------------------------
(* The instances.  RequestDetails itself: an administrator, who may do      *)
(* everything, in a view of a request that another manager changes, and a   *)
(* query that fails.                                                        *)

\* The same with a reconnection, and no query that fails.
Details == INSTANCE RequestDetails WITH MaxReconnects <- 1, MaxFails <- 0

Pair == [wa |-> "a", we |-> "e"]
Trio == [wa |-> "a", wb |-> "b", we |-> "e"]

\* One window on each side, events as late as they like.
Turns == INSTANCE ClarificationView WITH
  Engineer <- "e", Officers <- {"a"}, Windows <- DOMAIN Pair, UserOf <- Pair,
  MaxMessages <- 6, MaxReassigns <- 0, MaxReconnects <- 1, MaxFails <- 0,
  row <- record, underway <- sent, timer <- due, busy <- reading,
  reconnects <- returns, fails <- losses

\* Answers that are tried again after queries that failed.
Retries == INSTANCE ClarificationView WITH
  Engineer <- "e", Officers <- {"a"}, Windows <- DOMAIN Pair, UserOf <- Pair,
  MaxMessages <- 5, MaxReassigns <- 0, MaxReconnects <- 1, MaxFails <- 2,
  row <- record, underway <- sent, timer <- due, busy <- reading,
  reconnects <- returns, fails <- losses

\* A reassignment from one officer to another.
Hands == INSTANCE ClarificationView WITH
  Engineer <- "e", Officers <- {"a", "b"}, Windows <- DOMAIN Trio,
  UserOf <- Trio, MaxMessages <- 3, MaxReassigns <- 1, MaxReconnects <- 0,
  MaxFails <- 1,
  row <- record, underway <- sent, timer <- due, busy <- reading,
  reconnects <- returns, fails <- losses

ASSUME MaxReconnects = 0 /\ MaxFails = 1 /\ Details!DetailsAssumption
ASSUME /\ Turns!ClarificationViewAssumption /\ Retries!ClarificationViewAssumption
       /\ Hands!ClarificationViewAssumption

-----------------------------------------------------------------------------
ViewsInit ==
  \/ part \in {"details", "torn"} /\ Init /\ WindowsOff
  \/ /\ \/ part = "turns" /\ Turns!Init
        \/ part = "again" /\ Retries!Init
        \/ part = "hands" /\ Hands!Init
     /\ DetailsRest

DetailsSteps ==
  /\ \/ part = "details" /\ Details!Next
     \/ part = "torn" /\ Next
  /\ UNCHANGED <<part, windows>>

WindowSteps ==
  /\ \/ part = "turns" /\ Turns!Next
     \/ part = "again" /\ Retries!Next
     \/ part = "hands" /\ Hands!Next
  /\ UNCHANGED <<part, vars>>

ViewsNext == DetailsSteps \/ WindowSteps

ViewsSpec == ViewsInit /\ [][ViewsNext]_all

-----------------------------------------------------------------------------
(* The properties of the instances.                                        *)

\* The type invariants of the two modules.
TypesOK ==
  /\ IF part = "details" THEN Details!TypeOK ELSE TypeOK
  /\ part = "turns" => Turns!TypeOK
  /\ part = "hands" => Hands!TypeOK

\* ClarificationView: an answer was written with all that was said before it on
\* the screen; the conversation takes turns, also when failed answers are tried
\* again; only whoever the request belongs to at the time writes; and with no
\* event and no refresh under way a window shows the database.
ConversationSound ==
  /\ part = "turns" => Turns!AnswersWhatWasSeen
  /\ part = "again" => Retries!TurnsAreTaken
  /\ part = "hands" => Hands!AuthorsAreResponsible /\ Hands!QuietMeansCurrent
=============================================================================
