-------------------------- MODULE MaterialRequestRow --------------------------
(***************************************************************************)
(* One row of quotation.material_requests and what each service does to    *)
(* it.  Every operator maps a row to the row the UPDATE of the service     *)
(* leaves behind; the guards (who may call, what the row must look like)   *)
(* are predicates of their own.  There is no state here: the modules that  *)
(* hold the table apply these operators inside their actions.              *)
(*                                                                         *)
(* Columns kept: the two status columns, the assignment context, the edit  *)
(* lock and created_at.  Text columns (description, remarks, priority...)  *)
(* are left out; locked_at always changes together with locked_by.         *)
(***************************************************************************)
EXTENDS Integers

CONSTANTS
    Users,          \* core.users ids
    AsgIds,         \* ids of quotation.material_request_assignments rows
    Null,           \* SQL NULL
    LockTimeout     \* LOCK_TIMEOUT_MINUTES, in ticks of the clock

ASSUME NullIsNoId == Null \notin Users /\ Null \notin AsgIds

ASSUME LockTimeoutIsPositive == LockTimeout \in Nat \ {0}

-----------------------------------------------------------------------------
(* The status values the services write.  "Submitted" is the default of    *)
(* workflow_status: create_material_request does not write that column,    *)
(* and the worker's claim expects it beside status "New".                  *)

PurchasingStates ==
    {"Assigned", "In Progress", "Waiting Supplier Quote", "Completed"}

Statuses == PurchasingStates \union {"New", "Archived", "Restored"}

WorkflowStatuses == PurchasingStates \union {"Submitted"}

Rows == [status                : Statuses,
         workflow_status       : WorkflowStatuses,
         assigned_to           : Users \union {Null},
         current_assignment_id : AsgIds \union {Null},
         locked_by             : Users \union {Null},
         lock_expires_at       : Nat,
         created_at            : Nat]

\* Mutant: the workflow default goes into the display status.
NewRowAsSubmitted(now) ==
    [status                |-> "Submitted",
     workflow_status       |-> "Submitted",
     assigned_to           |-> Null,
     current_assignment_id |-> Null,
     locked_by             |-> Null,
     lock_expires_at       |-> 0,
     created_at            |-> now]

\* INSERT of create_material_request: the create view always passes
\* assigned_to = None.  lock_expires_at is 0 while it is NULL.
NewRow(now) ==
    [status                |-> "New",
     workflow_status       |-> "Submitted",
     assigned_to           |-> Null,
     current_assignment_id |-> Null,
     locked_by             |-> Null,
     lock_expires_at       |-> 0,
     created_at            |-> now]

-----------------------------------------------------------------------------
(* The edit lock.  "now" is datetime.now() of the client that compares,    *)
(* "clock" is CURRENT_TIMESTAMP of the server that writes.                 *)

Unlocked(r) == [r EXCEPT !.locked_by = Null, !.lock_expires_at = 0]

LockedFor(r, u, clock) ==
    [r EXCEPT !.locked_by = u, !.lock_expires_at = clock + LockTimeout]

\* The lock stands in the way of u: somebody else's, and not expired.
HeldByOther(r, u, now) ==
    /\ r.locked_by # Null
    /\ r.locked_by # u
    /\ r.lock_expires_at > now

\* A lock that get_material_request_lock_status clears when it meets it.
LockExpired(r, now) ==
    /\ r.locked_by # Null
    /\ r.lock_expires_at <= now

-----------------------------------------------------------------------------
(* The assignment context.                                                 *)

\* Mutant: the pointer to the assignment row is left as it was.
InAssignmentWithoutPointer(r, a, officer) ==
    [r EXCEPT !.assigned_to     = officer,
              !.status          = "Assigned",
              !.workflow_status = "Assigned"]

\* update_assignment_context writes both status columns, whatever they held.
InAssignment(r, a, officer) ==
    [r EXCEPT !.current_assignment_id = a,
              !.assigned_to           = officer,
              !.status                = "Assigned",
              !.workflow_status       = "Assigned"]

\* The WHERE clause of the worker's claim, and its recheck in Python.
DueForAutoAssignment(r, clock, threshold) ==
    /\ r.status = "New"
    /\ r.workflow_status = "Submitted"
    /\ r.assigned_to = Null
    /\ r.current_assignment_id = Null
    /\ r.created_at <= clock - threshold

-----------------------------------------------------------------------------
(* MaterialRequestWorkflowService.  The three transitions read             *)
(* "workflow_status or status", and workflow_status is never empty.        *)

\* Mutant: the display status is forgotten.
WithWorkflowStatusOnly(r, s) == [r EXCEPT !.workflow_status = s]

\* update_workflow_status writes the same value to both columns.
WithStatus(r, s) == [r EXCEPT !.status = s, !.workflow_status = s]

StartPurchasingWork(r) ==
    IF r.workflow_status = "Assigned" THEN WithStatus(r, "In Progress") ELSE r

\* allFiles: some active quotation, and every active one has a file row.
EvaluateCompleted(r, allFiles) ==
    IF r.workflow_status = "Waiting Supplier Quote" /\ allFiles
      THEN WithStatus(r, "Completed")
      ELSE r

\* hasQuotation: some active quotation; blocked: an open clarification.
EvaluateWaitingSupplierQuote(r, hasQuotation, blocked, allFiles) ==
    IF r.workflow_status = "In Progress" /\ hasQuotation /\ ~blocked
      THEN EvaluateCompleted(WithStatus(r, "Waiting Supplier Quote"), allFiles)
      ELSE r

-----------------------------------------------------------------------------
(* Archive and restore write the display status only and drop the lock.    *)

Archived(r) == Unlocked([r EXCEPT !.status = "Archived"])

Restored(r) == Unlocked([r EXCEPT !.status = "Restored"])

=============================================================================
