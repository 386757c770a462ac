------------------------------ MODULE RequestDesk ------------------------------
(***************************************************************************)
(* The table of Material Requests with everyone who writes it: requesters  *)
(* who create and edit, managers who assign, Purchasing Officers whose     *)
(* work moves the status, administrators who break locks, archive, restore *)
(* and delete, and the unattended auto-assignment worker.                  *)
(*                                                                         *)
(* Granularity.  Every operation opens one transaction that decides on and *)
(* writes the row under FOR UPDATE, so an operation is one step here.  (A  *)
(* clarification also decides on a status read before the lock: module     *)
(* Procurement takes that apart.)  The edit view is not one operation: it  *)
(* asks for the lock status, takes the lock, loads the row, lets the user  *)
(* type, saves and releases in separate transactions, each of them a step. *)
(***************************************************************************)
EXTENDS MaterialRequestRow

CONSTANTS
    Requests,            \* material_requests ids; a deleted id is not reused
    Sessions,            \* clients with a request open
    UserOf,              \* the signed-in user of each client
    Managers,            \* users holding the assign and reassign permissions
    Officers,            \* users a request can be assigned to
    Administrators,      \* force-unlock, archive, restore and delete
    WorkerRuns,          \* whether the worker process is installed
    ForceUnlockAccepted, \* whether the database accepts the force-unlock query
    Threshold,           \* --threshold-minutes of the worker, in ticks
    Drift,               \* client clock minus server clock, per user
    MaxDrift,            \* an upper bound of Drift
    MaxTime              \* bound of the checked instance on the clock

ASSUME UsersAssumption ==
    /\ UserOf \in [Sessions -> Users]
    /\ Managers \subseteq Users
    /\ Officers \subseteq Users
    /\ Administrators \subseteq Users

ASSUME SwitchesAssumption ==
    /\ WorkerRuns \in BOOLEAN
    /\ ForceUnlockAccepted \in BOOLEAN
    /\ Null \notin Requests

ASSUME TimeAssumption ==
    /\ Threshold \in Nat
    /\ MaxTime \in Nat
    /\ MaxDrift \in Int
    /\ Drift \in [Users -> Int]
    /\ \A u \in Users : Drift[u] <= MaxDrift

VARIABLES
    presence,     \* presence[m]: the row is not created yet, live or deleted
    row,          \* row[m]: the columns of the row, meaningful while it is live
    assignment,   \* the assignment-history rows
    view,         \* the edit views
    clock         \* CURRENT_TIMESTAMP of the server

vars == <<presence, row, assignment, view, clock>>

AssignmentRows == [mr      : Requests \union {Null},
                   officer : Users \union {Null},
                   state   : {"unused", "active", "ended", "deleted"}]

\* "details" is a details view with its Edit button enabled, the other steps
\* are those of the edit view it opens.  until: when the lock the view took
\* expires.  seen: the assigned_to it loaded.
Views == [step  : {"closed", "details", "checked", "locked", "editing", "saved"},
          mr    : Requests \union {Null},
          until : Nat,
          seen  : Users \union {Null}]

ClosedView == [step |-> "closed", mr |-> Null, until |-> 0, seen |-> Null]

TypeOK ==
    /\ presence \in [Requests -> {"absent", "live", "deleted"}]
    /\ row \in [Requests -> Rows]
    /\ assignment \in [AsgIds -> AssignmentRows]
    /\ \A a \in AsgIds :
          assignment[a].state # "unused" => assignment[a].mr \in Requests
    /\ view \in [Sessions -> Views]
    /\ \A s \in Sessions : view[s].step # "closed" => view[s].mr \in Requests
    /\ clock \in Nat

Init ==
    /\ presence = [m \in Requests |-> "absent"]
    /\ row = [m \in Requests |-> NewRow(0)]
    /\ assignment = [a \in AsgIds |->
                        [mr |-> Null, officer |-> Null, state |-> "unused"]]
    /\ view = [s \in Sessions |-> ClosedView]
    /\ clock = 0

Live(m) == presence[m] = "live"

\* datetime.now() on the machine of user u.
Now(u) == clock + Drift[u]

\* assignment.ended_at IS NULL, for a row of request m.
ActiveFor(a, m) == assignment[a].state = "active" /\ assignment[a].mr = m

HasActiveAssignment(m) == \E a \in AsgIds : ActiveFor(a, m)

Write(m, r) == row' = [row EXCEPT ![m] = r]

-----------------------------------------------------------------------------
(* Editing: edit_request of the details view, then try_open_for_edit,      *)
(* save_changes and release_lock of the edit view.                         *)

\* get_material_request_lock_status also clears a lock it finds expired.
StatusRead(r, now) == IF LockExpired(r, now) THEN Unlocked(r) ELSE r

\* Mutant: whoever may see a request may edit it.
OpenDetailsOfAnybody(s, m) ==
    /\ view[s].step = "closed"
    /\ Live(m)
    /\ row[m].status # "Archived"
    /\ view' = [view EXCEPT ![s] = [ClosedView EXCEPT !.step = "details",
                                                     !.mr = m]]
    /\ UNCHANGED <<presence, row, assignment, clock>>

\* MaterialRequestDetailsView loads the request and offers Edit to its
\* assigned_to, unless archived.  edit_request decides on what was loaded, so
\* the row may have changed since; a refresh is closing and opening again.
OpenDetails(s, m) ==
    /\ view[s].step = "closed"
    /\ Live(m)
    /\ row[m].status # "Archived"
    /\ row[m].assigned_to = UserOf[s]
    /\ view' = [view EXCEPT ![s] = [ClosedView EXCEPT !.step = "details",
                                                     !.mr = m]]
    /\ UNCHANGED <<presence, row, assignment, clock>>

\* First call of try_open_for_edit.  Held by somebody else: the view shows a
\* message only, which leads nowhere.
AskLockStatus(s) ==
    LET m == view[s].mr
        u == UserOf[s]
    IN
    /\ view[s].step = "details"
    /\ Write(m, IF Live(m) THEN StatusRead(row[m], Now(u)) ELSE row[m])
    /\ view' = IF Live(m) /\ ~HeldByOther(row[m], u, Now(u))
                 THEN [view EXCEPT ![s].step = "checked"]
                 ELSE [view EXCEPT ![s] = ClosedView]
    /\ UNCHANGED <<presence, assignment, clock>>

\* Mutant: the lock is taken on the strength of the status read before.
LockWithoutRecheck(s) ==
    LET m == view[s].mr IN
    /\ view[s].step = "checked"
    /\ Live(m)
    /\ Write(m, LockedFor(row[m], UserOf[s], clock))
    /\ view' = [view EXCEPT ![s].step = "locked",
                            ![s].until = clock + LockTimeout]
    /\ UNCHANGED <<presence, assignment, clock>>

\* Second call: lock_material_request decides again under the row lock.  The
\* user who already holds the lock gets it anew.
LockForEdit(s) ==
    LET m == view[s].mr
        u == UserOf[s]
    IN
    /\ view[s].step = "checked"
    /\ IF Live(m) /\ ~HeldByOther(row[m], u, Now(u))
         THEN /\ Write(m, LockedFor(row[m], u, clock))
              /\ view' = [view EXCEPT ![s].step = "locked",
                                      ![s].until = clock + LockTimeout]
         ELSE /\ view' = [view EXCEPT ![s] = ClosedView]
              /\ UNCHANGED row
    /\ UNCHANGED <<presence, assignment, clock>>

\* Third call: get_material_request.  What it returns is what save_changes
\* sends back as "assigned_to", however much later.
LoadForEdit(s) ==
    LET m == view[s].mr IN
    /\ view[s].step = "locked"
    /\ view' = IF Live(m)
                 THEN [view EXCEPT ![s].step = "editing",
                                   ![s].seen = row[m].assigned_to]
                 ELSE [view EXCEPT ![s] = ClosedView]
    /\ UNCHANGED <<presence, row, assignment, clock>>

\* update_material_request: neither the lock nor the status is looked at.
Save(s) ==
    LET m == view[s].mr IN
    /\ view[s].step = "editing"
    /\ Live(m)
    /\ Write(m, [row[m] EXCEPT !.assigned_to = view[s].seen])
    /\ view' = [view EXCEPT ![s].step = "saved"]
    /\ UNCHANGED <<presence, assignment, clock>>

\* Mutant: the WHERE clause only names the request.
UnlockedByAnyone(m, u) == IF Live(m) THEN Unlocked(row[m]) ELSE row[m]

\* unlock_material_request, WHERE locked_by = the user of this view.
UnlockedBy(m, u) ==
    IF Live(m) /\ row[m].locked_by = u THEN Unlocked(row[m]) ELSE row[m]

\* After a save, on Cancel, from destroy(), or because opening raised.
ReleaseLock(s) ==
    LET m == view[s].mr IN
    /\ view[s].step \in {"locked", "editing", "saved"}
    /\ Write(m, UnlockedBy(m, UserOf[s]))
    /\ view' = [view EXCEPT ![s] = ClosedView]
    /\ UNCHANGED <<presence, assignment, clock>>

\* The client dies, or unlocking raised and release_lock swallowed it: the
\* view is gone and the lock stays until it expires.
Abandon(s) ==
    /\ view[s].step # "closed"
    /\ view' = [view EXCEPT ![s] = ClosedView]
    /\ UNCHANGED <<presence, row, assignment, clock>>

\* The collaboration banner of any user reads the status as well.
RefreshBanner(u, m) ==
    /\ Live(m)
    /\ LockExpired(row[m], Now(u))
    /\ Write(m, StatusRead(row[m], Now(u)))
    /\ UNCHANGED <<presence, assignment, view, clock>>

\* force_unlock_material_request.  Its SELECT puts FOR UPDATE over the nullable
\* side of an outer join, which PostgreSQL rejects: with ForceUnlockAccepted
\* FALSE the call only rolls back.
ForceUnlock(u, m) ==
    /\ u \in Administrators
    /\ ForceUnlockAccepted
    /\ Live(m)
    /\ row[m].locked_by # Null
    /\ Write(m, Unlocked(row[m]))
    /\ UNCHANGED <<presence, assignment, view, clock>>

-----------------------------------------------------------------------------
(* Creating a request, and the assignment operations.                      *)

CreateRequest(m) ==
    /\ presence[m] = "absent"
    /\ presence' = [presence EXCEPT ![m] = "live"]
    /\ Write(m, NewRow(clock))
    /\ UNCHANGED <<assignment, view, clock>>

\* Mutant: no look at the edit lock.
NeverBlocked(m, u) == FALSE

\* _ensure_assignment_not_blocked_by_lock.
BlockedByEditLock(m, u) == HeldByOther(row[m], u, Now(u))

NewAssignment(m, officer) ==
    [mr |-> m, officer |-> officer, state |-> "active"]

\* MaterialRequestAssignmentProcess.assign
Assign(u, m, officer) ==
    /\ u \in Managers
    /\ Live(m)
    /\ ~BlockedByEditLock(m, u)
    /\ ~HasActiveAssignment(m)
    /\ \E a \in AsgIds :
          /\ assignment[a].state = "unused"
          /\ assignment' = [assignment EXCEPT ![a] = NewAssignment(m, officer)]
          /\ Write(m, InAssignment(row[m], a, officer))
    /\ UNCHANGED <<presence, view, clock>>

\* Mutant: the closing is committed on its own, before the replacement exists.
ReassignClosesFirst(u, old, officer) ==
    LET m == assignment[old].mr IN
    /\ u \in Managers
    /\ assignment[old].state = "active"
    /\ Live(m)
    /\ ~BlockedByEditLock(m, u)
    /\ assignment' = [assignment EXCEPT ![old].state = "ended"]
    /\ Write(m, [row[m] EXCEPT !.current_assignment_id = Null])
    /\ UNCHANGED <<presence, view, clock>>

\* MaterialRequestAssignmentProcess.reassign: the caller names the assignment
\* it saw; it must still be open.  The request may be in any status.
Reassign(u, old, officer) ==
    LET m == assignment[old].mr IN
    /\ u \in Managers
    /\ assignment[old].state = "active"
    /\ Live(m)
    /\ ~BlockedByEditLock(m, u)
    /\ \A a \in AsgIds \ {old} : ~ActiveFor(a, m)
    /\ \E a \in AsgIds :
          /\ assignment[a].state = "unused"
          /\ assignment' = [assignment EXCEPT ![old].state = "ended",
                                             ![a] = NewAssignment(m, officer)]
          /\ Write(m, InAssignment(row[m], a, officer))
    /\ UNCHANGED <<presence, view, clock>>

\* AutoAssignmentService.auto_assign_next: claims a due row; no look at the
\* edit lock.  Which officer and which due row come first is left open.
AutoAssign(m, officer) ==
    /\ WorkerRuns
    /\ Live(m)
    /\ DueForAutoAssignment(row[m], clock, Threshold)
    /\ ~HasActiveAssignment(m)
    /\ \E a \in AsgIds :
          /\ assignment[a].state = "unused"
          /\ assignment' = [assignment EXCEPT ![a] = NewAssignment(m, officer)]
          /\ Write(m, InAssignment(row[m], a, officer))
    /\ UNCHANGED <<presence, view, clock>>

-----------------------------------------------------------------------------
(* The officer's work.  Quotations, files and clarifications live in other *)
(* tables; what the workflow service reads there is any value here.        *)

\* A workflow call raises for anybody but the row's assigned_to, and changes
\* nothing while nobody is assigned.
ByAssignee(u, m) == Live(m) /\ row[m].assigned_to = u

\* record_supplier_clarification refuses an archived request and starts work.
RecordClarification(u, m) ==
    /\ ByAssignee(u, m)
    /\ row[m].status # "Archived"
    /\ Write(m, StartPurchasingWork(row[m]))
    /\ UNCHANGED <<presence, assignment, view, clock>>

\* resolve_clarification re-evaluates the waiting state.
ResolveClarification(u, m) ==
    /\ ByAssignee(u, m)
    /\ \E hasQuotation, blocked, allFiles \in BOOLEAN :
          Write(m, EvaluateWaitingSupplierQuote(row[m], hasQuotation,
                                                blocked, allFiles))
    /\ UNCHANGED <<presence, assignment, view, clock>>

\* SupplierQuotationProcess.create: start, evaluate waiting (the new quotation
\* has no file yet), and evaluate completion when files came with it.
ReceiveQuotation(u, m) ==
    /\ ByAssignee(u, m)
    /\ \E blocked, allFiles \in BOOLEAN :
          Write(m, EvaluateCompleted(
                       EvaluateWaitingSupplierQuote(
                           StartPurchasingWork(row[m]), TRUE, blocked, FALSE),
                       allFiles))
    /\ UNCHANGED <<presence, assignment, view, clock>>

\* SupplierQuotationProcess.upload_files evaluates completion.
ReceiveFiles(u, m) ==
    /\ ByAssignee(u, m)
    /\ \E allFiles \in BOOLEAN : Write(m, EvaluateCompleted(row[m], allFiles))
    /\ UNCHANGED <<presence, assignment, view, clock>>

-----------------------------------------------------------------------------
(* Administration.                                                         *)

\* archive_material_request goes by the display status and drops any lock.
Archive(u, m) ==
    /\ u \in Administrators
    /\ Live(m)
    /\ row[m].status = "Completed"
    /\ Write(m, Archived(row[m]))
    /\ UNCHANGED <<presence, assignment, view, clock>>

Restore(u, m) ==
    /\ u \in Administrators
    /\ Live(m)
    /\ row[m].status = "Archived"
    /\ Write(m, Restored(row[m]))
    /\ UNCHANGED <<presence, assignment, view, clock>>

\* delete_material_request respects another user's lock; the assignment rows
\* go with the request.
Delete(u, m) ==
    /\ u \in Administrators
    /\ Live(m)
    /\ ~HeldByOther(row[m], u, Now(u))
    /\ presence' = [presence EXCEPT ![m] = "deleted"]
    /\ assignment' = [a \in AsgIds |->
                         IF assignment[a].mr = m
                           THEN [assignment[a] EXCEPT !.state = "deleted"]
                           ELSE assignment[a]]
    /\ UNCHANGED <<row, view, clock>>

Tick ==
    /\ clock < MaxTime
    /\ clock' = clock + 1
    /\ UNCHANGED <<presence, row, assignment, view>>

ViewStep ==
    \E s \in Sessions :
        \/ \E m \in Requests : OpenDetails(s, m)
        \/ AskLockStatus(s)
        \/ LockForEdit(s)
        \/ LoadForEdit(s)
        \/ Save(s)
        \/ ReleaseLock(s)
        \/ Abandon(s)

AssignmentStep ==
    \/ \E u \in Users, m \in Requests, o \in Officers : Assign(u, m, o)
    \/ \E u \in Users, a \in AsgIds, o \in Officers : Reassign(u, a, o)
    \/ \E m \in Requests, o \in Officers : AutoAssign(m, o)

PurchasingStep ==
    \E u \in Users, m \in Requests :
        \/ RecordClarification(u, m)
        \/ ResolveClarification(u, m)
        \/ ReceiveQuotation(u, m)
        \/ ReceiveFiles(u, m)

AdministrationStep ==
    \E u \in Users, m \in Requests :
        \/ ForceUnlock(u, m)
        \/ Archive(u, m)
        \/ Restore(u, m)
        \/ Delete(u, m)

Next ==
    \/ \E m \in Requests : CreateRequest(m)
    \/ ViewStep
    \/ \E u \in Users, m \in Requests : RefreshBanner(u, m)
    \/ AssignmentStep
    \/ PurchasingStep
    \/ AdministrationStep
    \/ Tick

Spec == Init /\ [][Next]_vars

-----------------------------------------------------------------------------
(* What the table keeps.                                                   *)

\* The assignment context of a live request and the assignment history tell
\* the same story: current_assignment_id is the one open assignment row of the
\* request, NULL exactly when none is open, and open rows belong to live
\* requests.  assign, reassign, the worker and delete each write both tables;
\* a claim of the worker can then never meet an open assignment and raise.
AssignmentContextSound ==
    \A a \in AsgIds : \A m \in Requests :
        ActiveFor(a, m) <=> Live(m) /\ row[m].current_assignment_id = a

\* The combinations of the two status columns the services can leave behind.
ColumnsAgree(r) ==
    \/ r.status = r.workflow_status
    \/ r.status = "New" /\ r.workflow_status = "Submitted"
    \/ r.status \in {"Archived", "Restored"} /\ r.workflow_status = "Completed"

\* The two status columns, written by different services, only ever disagree
\* in the three ways the code relies on: before the first assignment, and
\* after archive or restore touched the display status alone.
StatusColumnsAgree == \A m \in Requests : ColumnsAgree(row[m])

\* Purchasing work and an open assignment come and go together: a request that
\* ever left Submitted has an open assignment, also while archived, restored
\* or when an edit saved a stale assigned_to over it.
WorkHasAnAssignment ==
    \A m \in Requests : Live(m) =>
        (row[m].workflow_status # "Submitted" <=> HasActiveAssignment(m))

\* From its first assignment on, a request names somebody in assigned_to: no
\* save ever puts back the NULL of an unassigned request, because an edit view
\* only opens on requests seen assigned.  Without a name every workflow call
\* would silently do nothing, and only a reassignment could mend it.
WorkHasAnOfficer ==
    \A m \in Requests : Live(m) =>
        (row[m].workflow_status # "Submitted" <=> row[m].assigned_to # Null)

\* The worker assigns without a look at the edit lock.  It needs none: a
\* request that waits for its first assignment is never locked.
WorkerMeetsNoLock ==
    \A m \in Requests :
        Live(m) /\ row[m].assigned_to = Null => row[m].locked_by = Null

\* The user a lock protects: the client whose clock runs furthest ahead still
\* sees it unexpired.
LeaseHolder(m) ==
    IF Live(m) /\ row[m].lock_expires_at > clock + MaxDrift
      THEN row[m].locked_by
      ELSE Null

LeaseHolders == [m \in Requests |-> LeaseHolder(m)]

Lease == INSTANCE EditLease WITH holder <- LeaseHolders

\* The columns, the expiry checks of lock, status read and delete, and the
\* guarded unlock implement a lease: no user takes a lock over from another
\* one before it expires, give or take the clock drift between the clients.
LeaseImplemented == Lease!Spec

\* Every client still sees the lock that the view took unexpired.
Unexpired(s) == clock + MaxDrift < view[s].until

\* While the lock that a view took is not expired, the row still carries it.
\* Administrators void this (force-unlock, archive and restore drop the lock
\* of anybody), and so do two views of one user (either releases for both).
LeaseHeld ==
    \A s \in Sessions :
        (view[s].step \in {"locked", "editing", "saved"} /\ Unexpired(s))
        => LET r == row[view[s].mr] IN
           r.locked_by = UserOf[s] /\ r.lock_expires_at = view[s].until

\* The assigned_to column names the officer of the open assignment, which is
\* what lets that officer (and nobody else) work on the request.
AssigneeAgrees ==
    \A m \in Requests : \A a \in AsgIds :
        ActiveFor(a, m) => row[m].assigned_to = assignment[a].officer

\* No edit view that may still save overstays its lock.
ViewsInTime ==
    \A s \in Sessions : view[s].step \in {"locked", "editing"} => Unexpired(s)

\* The save of an edit view writes the assigned_to it loaded, and asks for no
\* lock.  Assignments and saves still leave the officer of the open assignment
\* in assigned_to where views close in time, no manager edits a request himself
\* and no administrator drops the lock of an open view.
AssigneeKept == []ViewsInTime => []AssigneeAgrees

-----------------------------------------------------------------------------
(* What the repository says of the program and the code does not keep.     *)

\* "Editing is disabled. Lock expires at ...", shown while a request is locked
\* by somebody else: no view saves a request under another user's lock.
NoSaveUnderForeignLock ==
    [][\A s \in Sessions :
          (/\ view[s].step = "editing"
           /\ view'[s].step = "saved"
           /\ row[view[s].mr].locked_by \notin {UserOf[s], Null})
          => row[view[s].mr].lock_expires_at <= clock]_vars

\* The registered workflow lets a Completed request only be archived.
CompletedOnlyArchives ==
    [][\A m \in Requests :
          (Live(m) /\ row[m].workflow_status = "Completed")
          => row'[m].workflow_status \in {"Completed", "Archived"}]_vars

=============================================================================
