----------------------------- MODULE MCServices -----------------------------
(***************************************************************************)
(* What the services do around the desk, on small instances: the advice of *)
(* the worker, the files, the row locks and the notices.                   *)
(*                                                                         *)
(* The four share no state, and each is asked questions that need bounds   *)
(* of their own.  An initial state chooses the instance that moves (part); *)
(* the row locks are RowLocks itself, the others are instances.  What does *)
(* not move stays Off, or without a transaction.  So the states of this    *)
(* module are the sum, not the product, of those of the instances.         *)
(***************************************************************************)
EXTENDS RowLocks, TLC

CONSTANTS None,
          a1, a2, \* workers, clients (of Clients, too) or calls
          b1, b2  \* officers or windows

VARIABLES
  part,
  request, rowLock, worker, active, account, clock, failures,
  presence, quotation, rows, share, project, storing,
  since, asking, question, notices, telling, panel, screen, chosen, now,
  flips, clicks

work == <<request, rowLock, worker, active, account, clock, failures>>
files == <<presence, quotation, rows, share, project, storing>>
rowLocks == <<there, call, locks, calls>>
news == <<since, asking, question, notices, telling, panel, screen, chosen,
          now, flips, clicks>>
all == <<part, work, files, rowLocks, news>>

Off == "off"

WorkOff ==
  /\ request = Off /\ rowLock = Off /\ worker = Off /\ active = Off
  /\ account = Off /\ clock = Off /\ failures = Off
FilesOff ==
  /\ presence = Off /\ quotation = Off /\ rows = Off /\ share = Off
  /\ project = Off /\ storing = Off
LocksOff == Init /\ there = {Request}
NewsOff ==
  /\ since = Off /\ asking = Off /\ question = Off /\ notices = Off
  /\ telling = Off /\ panel = Off /\ screen = Off /\ chosen = Off
  /\ now = Off /\ flips = Off /\ clicks = Off

-----------------------------------------------------------------------------
(* The instances.                                                          *)

\* One worker and its advice.
Advice == INSTANCE AutoAssignment WITH
  Requests <- 1..3, Officers <- 1..2, Workers <- {a1}, Null <- None,
  Threshold <- 1, MaxAssignments <- 2, ManualWork <- FALSE,
  RowLocking <- FALSE, StaffChanges <- FALSE, MaxTime <- 3, MaxFailures <- 1

Three == {"c1", "c2", "c3"}
Four == Three \cup {"c4"}

\* Calls that overlap and die, each with a file name of its own.
Deaths == INSTANCE StoredFiles WITH
  Quotations <- {"q1"}, Calls <- Three, Names <- Three,
  Candidates <- [c \in Three |-> <<c>>], MaxCopies <- 1, MaxRenames <- 1,
  Overlap <- TRUE, Failures <- TRUE, Crashes <- TRUE, LostAnswers <- FALSE,
  Null <- None, call <- storing

\* One more call, and failures only.
Overlaps == INSTANCE StoredFiles WITH
  Quotations <- {"q1"}, Calls <- Four, Names <- Four,
  Candidates <- [c \in Four |-> <<c>>], MaxCopies <- 1, MaxRenames <- 0,
  Overlap <- TRUE, Failures <- TRUE, Crashes <- FALSE, LostAnswers <- FALSE,
  Null <- None, call <- storing

\* One call after the other, all with files of one name ("x.pdf", "x (1).pdf",
\* ...), two in an upload.
Alike == INSTANCE StoredFiles WITH
  Quotations <- {"q1"}, Calls <- Three, Names <- {"x", "y", "z"},
  Candidates <- [c \in Three |-> <<"x", "y", "z">>], MaxCopies <- 2,
  MaxRenames <- 0, Overlap <- FALSE, Failures <- TRUE, Crashes <- FALSE,
  LostAnswers <- FALSE, Null <- None, call <- storing

\* The same, also with commits whose answer is lost.
Unsure == INSTANCE StoredFiles WITH
  Quotations <- {"q1"}, Calls <- Three, Names <- {"x", "y", "z"},
  Candidates <- [c \in Three |-> <<"x", "y", "z">>], MaxCopies <- 2,
  MaxRenames <- 0, Overlap <- FALSE, Failures <- TRUE, Crashes <- FALSE,
  LostAnswers <- TRUE, Null <- None, call <- storing

\* Everyone who can be told, and transactions that overlap.
Told == INSTANCE Notifications WITH
  Managers <- {"m1", "m2"}, Officers <- {b1, b2}, Engineers <- {"e1"},
  Requests <- {"r1"}, Calls <- {a1, a2}, Windows <- {"w1"},
  UserOf <- [w \in {"w1"} |-> "e1"], MayDelete <- TRUE, Limit <- 2,
  MaxCalls <- 5, MaxFlips <- 1, MaxClicks <- 0,
  request <- asking, call <- telling, clock <- now

\* Two windows of one user.
Panels == INSTANCE Notifications WITH
  Managers <- {"m1"}, Officers <- {"o1", "o2"}, Engineers <- {"e1"},
  Requests <- {"r1"}, Calls <- {a1, a2}, Windows <- {b1, b2},
  UserOf <- [w \in {b1, b2} |-> "o1"], MayDelete <- TRUE, Limit <- 2,
  MaxCalls <- 4, MaxFlips <- 0, MaxClicks <- 3,
  request <- asking, call <- telling, clock <- now

ASSUME Advice!WorkAssumption
ASSUME /\ Deaths!FilesAssumption /\ Overlaps!FilesAssumption
       /\ Alike!FilesAssumption /\ Unsure!FilesAssumption
ASSUME Told!NotificationsAssumption /\ Panels!NotificationsAssumption

-----------------------------------------------------------------------------
ServicesInit ==
  \/ part = "advice" /\ Advice!Init /\ FilesOff /\ LocksOff /\ NewsOff
  \/ /\ \/ part = "deaths" /\ Deaths!Init
        \/ part = "overlaps" /\ Overlaps!Init
        \/ part = "alike" /\ Alike!Init
        \/ part = "unsure" /\ Unsure!Init
     /\ WorkOff /\ LocksOff /\ NewsOff
  \/ part = "locks" /\ Init /\ WorkOff /\ FilesOff /\ NewsOff
  \/ /\ \/ part = "told" /\ Told!Init
        \/ part = "panels" /\ Panels!Init
     /\ WorkOff /\ FilesOff /\ LocksOff

WorkSteps ==
  /\ part = "advice" /\ Advice!Next
  /\ UNCHANGED <<part, files, rowLocks, news>>

FileSteps ==
  /\ \/ part = "deaths" /\ Deaths!Next
     \/ part = "overlaps" /\ Overlaps!Next
     \/ part = "alike" /\ Alike!Next
     \/ part = "unsure" /\ Unsure!Next
  /\ UNCHANGED <<part, work, rowLocks, news>>

LockSteps ==
  /\ part = "locks" /\ Next
  /\ UNCHANGED <<part, work, files, news>>

NewsSteps ==
  /\ \/ part = "told" /\ Told!Next
     \/ part = "panels" /\ Panels!Next
  /\ UNCHANGED <<part, work, files, rowLocks>>

ServicesNext == WorkSteps \/ FileSteps \/ LockSteps \/ NewsSteps

ServicesSpec == ServicesInit /\ [][ServicesNext]_all

Interchangeable == Permutations({a1, a2}) \cup Permutations({b1, b2})

-----------------------------------------------------------------------------
(* The properties of the instances.                                        *)

\* The type invariants of the four modules.
TypesOK ==
  /\ part = "advice" => Advice!TypeOK
  /\ part = "deaths" => Deaths!TypeOK
  /\ part = "locks" => TypeOK
  /\ part = "told" => Told!TypeOK

\* AutoAssignment: the recommendation that is shown is what a single worker
\* carries out.
RecommendationStands ==
  [][part = "advice" => Advice!RecommendationStands]_all

\* StoredFiles: every registered file is found under its path unless its
\* deletion is under way, with overlapping calls and with equal names; and
\* through crashes between file operations and commits its content is on the
\* share or in quarantine.
RowsHaveTheirFiles ==
  /\ part = "overlaps" => Overlaps!RowsHaveTheirFiles
  /\ part = "alike" => Alike!RowsHaveTheirFiles
  /\ part = "deaths" => Deaths!ContentKept

\* StoredFiles: files without rows come only from the paths that have no
\* compensation.
OnlyKnownLeftovers == part = "unsure" => Unsure!OnlyKnownLeftovers

\* Notifications: whoever a request or a clarification waits for has been told,
\* a new request is told to every manager who was there, its first assignment
\* is told once, and nothing is told of a request that was deleted.
EveryoneIsTold ==
  part = "told" => /\ Told!WaitedForIsTold
                   /\ Told!ManagersAreTold
                   /\ Told!FirstAssignmentToldOnce
                   /\ Told!DeletedIsForgotten

\* Notifications: selecting a notice leads to what it tells of, and selecting
\* it again, from a panel loaded earlier, leaves when it was read first.
NoticesLead ==
  [][part = "panels" => /\ Panels!ClarificationsAreReached
                        /\ Panels!FirstReadKept]_all
=============================================================================
