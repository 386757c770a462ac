-------------------------- MODULE MCAutoAssignment --------------------------
(***************************************************************************)
(* The unattended worker in two processes, on small instances.  An initial *)
(* state chooses whether the processes assign alone or managers assign,    *)
(* and delete, next to them (part).                                        *)
(***************************************************************************)
EXTENDS AutoAssignment, TLC

VARIABLE part

all == <<part, vars>>

\* Managers, rows that others hold, accounts that come and go.
Managed == INSTANCE AutoAssignment WITH
  ManualWork <- TRUE, RowLocking <- TRUE, StaffChanges <- TRUE,
  MaxAssignments <- 1, MaxTime <- 2

ASSUME ~ManualWork /\ ~StaffChanges

\* Two requests are enough there, and the third is never created: so no officer
\* gets further ahead than WorkSpreadEvenly allows when a manager assigns.
FewRequests == \A m \in Requests : m > 2 => request'[m].state = "absent"

WorkersInit == part \in {"alone", "managed"} /\ Init

WorkersNext ==
  /\ \/ part = "alone" /\ Next
     \/ part = "managed" /\ Managed!Next /\ FewRequests
  /\ UNCHANGED part

WorkersSpec == WorkersInit /\ [][WorkersNext]_all

Interchangeable == Permutations(Workers)
=============================================================================
