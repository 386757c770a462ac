--------------------------- MODULE Procurement_proofs ---------------------------
(***************************************************************************)
(* The desk and purchasing, for any number of requests, users, edit views, *)
(* assignment rows, clarifications, quotations and calls under way, any    *)
(* lock timeout and any clock drift: RequestDesk and its edit views first, *)
(* then Procurement, which implements it.                                  *)
(***************************************************************************)
EXTENDS Procurement, TLAPS

-----------------------------------------------------------------------------
(* The row operators keep the row type.                                    *)

\* Every operator a service applies to a row returns a row of the table.
LEMMA RowOperatorsType ==
    ASSUME NEW r \in Rows
    PROVE  /\ Unlocked(r) \in Rows
           /\ \A u \in Users, c \in Nat : LockedFor(r, u, c) \in Rows
           /\ \A a \in AsgIds, o \in Users : InAssignment(r, a, o) \in Rows
           /\ \A s \in PurchasingStates : WithStatus(r, s) \in Rows
           /\ \A c \in Nat : NewRow(c) \in Rows
           /\ \A o \in Users \union {Null} : [r EXCEPT !.assigned_to = o] \in Rows
           /\ Archived(r) \in Rows
           /\ Restored(r) \in Rows
  <1>0. \A c \in Nat : c + LockTimeout \in Nat
    BY LockTimeoutIsPositive
  <1> USE DEF Rows, Statuses, WorkflowStatuses, PurchasingStates
  <1>1. ASSUME NEW x \in Rows PROVE Unlocked(x) \in Rows
    BY DEF Unlocked
  <1>2. \A u \in Users, c \in Nat : LockedFor(r, u, c) \in Rows
    <2> SUFFICES ASSUME NEW u \in Users, NEW c \in Nat
                 PROVE  LockedFor(r, u, c) \in Rows
      OBVIOUS
    <2>1. c + LockTimeout \in Nat
      BY <1>0
    <2> QED
      BY <2>1 DEF LockedFor
  <1>3. \A a \in AsgIds, o \in Users : InAssignment(r, a, o) \in Rows
    BY DEF InAssignment
  <1>4. \A s \in PurchasingStates : WithStatus(r, s) \in Rows
    BY DEF WithStatus
  <1>5. \A c \in Nat : NewRow(c) \in Rows
    BY DEF NewRow
  <1>6. \A o \in Users \union {Null} : [r EXCEPT !.assigned_to = o] \in Rows
    OBVIOUS
  <1>7. Archived(r) \in Rows
    <2>1. [r EXCEPT !.status = "Archived"] \in Rows
      OBVIOUS
    <2> QED
      BY <1>1, <2>1 DEF Archived
  <1>8. Restored(r) \in Rows
    <2>1. [r EXCEPT !.status = "Restored"] \in Rows
      OBVIOUS
    <2> QED
      BY <1>1, <2>1 DEF Restored
  <1> QED
    BY <1>1, <1>2, <1>3, <1>4, <1>5, <1>6, <1>7, <1>8

\* The workflow transitions keep the row type as well.
LEMMA WorkflowOperatorsType ==
    ASSUME NEW r \in Rows
    PROVE  /\ StartPurchasingWork(r) \in Rows
           /\ \A f \in BOOLEAN : EvaluateCompleted(r, f) \in Rows
           /\ \A q, b, f \in BOOLEAN :
                 EvaluateWaitingSupplierQuote(r, q, b, f) \in Rows
  <1>1. \A s \in PurchasingStates : WithStatus(r, s) \in Rows
    BY RowOperatorsType
  <1>2. StartPurchasingWork(r) \in Rows
    BY <1>1 DEF StartPurchasingWork, PurchasingStates
  <1>3. ASSUME NEW x \in Rows, NEW f \in BOOLEAN
        PROVE  EvaluateCompleted(x, f) \in Rows
    BY RowOperatorsType DEF EvaluateCompleted, PurchasingStates
  <1>4. ASSUME NEW q \in BOOLEAN, NEW b \in BOOLEAN, NEW f \in BOOLEAN
        PROVE  EvaluateWaitingSupplierQuote(r, q, b, f) \in Rows
    BY <1>1, <1>3 DEF EvaluateWaitingSupplierQuote, PurchasingStates
  <1> QED
    BY <1>2, <1>3, <1>4

-----------------------------------------------------------------------------
(* Type correctness.                                                       *)

\* Writing one row of the row type keeps the table typed.
LEMMA WriteType ==
    ASSUME TypeOK, NEW m \in Requests, NEW r \in Rows, Write(m, r)
    PROVE  row' \in [Requests -> Rows]
  BY DEF TypeOK, Write

\* The table, the history, the views and the clock keep their types in every
\* step of every operation.
LEMMA TypeStep == TypeOK /\ [Next]_vars => TypeOK'
  <1> SUFFICES ASSUME TypeOK, [Next]_vars PROVE TypeOK'
    OBVIOUS
  <1>a. /\ row \in [Requests -> Rows]
        /\ clock \in Nat
        /\ \A s \in Sessions : UserOf[s] \in Users
        /\ \A s \in Sessions : view[s] \in Views
        /\ \A s \in Sessions : view[s].step # "closed" => view[s].mr \in Requests
    BY UsersAssumption DEF TypeOK
  <1>b. \A m \in Requests : Unlocked(row[m]) \in Rows
    BY <1>a, RowOperatorsType
  <1>c. clock + LockTimeout \in Nat
    BY <1>a, LockTimeoutIsPositive
  <1>d. ClosedView \in Views
    BY DEF ClosedView, Views
  <1>e. ASSUME NEW s \in Sessions, NEW v \in Views,
               v.step # "closed" => v.mr \in Requests,
               view' = [view EXCEPT ![s] = v]
        PROVE  /\ view' \in [Sessions -> Views]
               /\ \A t \in Sessions : view'[t].step # "closed" => view'[t].mr \in Requests
    BY <1>a, <1>e DEF TypeOK
  <1>f. ClosedView.step = "closed"
    BY DEF ClosedView
  <1>1. ASSUME NEW m \in Requests, CreateRequest(m) PROVE TypeOK'
    <2>1. NewRow(clock) \in Rows
      BY <1>a, RowOperatorsType
    <2>2. row' \in [Requests -> Rows]
      BY <1>1, <2>1, WriteType DEF CreateRequest
    <2> QED
      BY <1>1, <2>2 DEF CreateRequest, TypeOK
  <1>0. ASSUME NEW s \in Sessions, NEW m \in Requests, OpenDetails(s, m)
        PROVE  TypeOK'
    <2> DEFINE v == [ClosedView EXCEPT !.step = "details", !.mr = m]
    <2>1. v \in Views /\ v.mr = m
      BY DEF ClosedView, Views
    <2>2. view' = [view EXCEPT ![s] = v]
      BY <1>0 DEF OpenDetails
    <2> QED
      BY <1>0, <2>1, <2>2, <1>e DEF OpenDetails, TypeOK
  <1>2. ASSUME NEW s \in Sessions, AskLockStatus(s) PROVE TypeOK'
    <2>m. PICK m \in Requests : m = view[s].mr
      BY <1>2, <1>a DEF AskLockStatus
    <2>1. StatusRead(row[m], Now(UserOf[s])) \in Rows
      BY <1>a, <1>b DEF StatusRead
    <2>2. row' \in [Requests -> Rows]
      BY <1>2, <2>m, <2>1, <1>a, WriteType DEF AskLockStatus
    <2> DEFINE v == [view[s] EXCEPT !.step = "checked"]
    <2>3. v \in Views /\ v.mr = m
      BY <2>m, <1>a DEF Views
    <2>4. view' = [view EXCEPT ![s] = v] \/ view' = [view EXCEPT ![s] = ClosedView]
      BY <1>2, <1>a DEF AskLockStatus, TypeOK
    <2> QED
      BY <1>2, <2>2, <2>3, <2>4, <1>d, <1>e, <1>f DEF AskLockStatus, TypeOK
  <1>3. ASSUME NEW s \in Sessions, LockForEdit(s) PROVE TypeOK'
    <2> DEFINE m == view[s].mr
    <2>1. CASE row' = row /\ view' = [view EXCEPT ![s] = ClosedView]
      BY <1>3, <2>1, <1>d, <1>e, <1>f DEF LockForEdit, TypeOK
    <2>2. CASE /\ Write(m, LockedFor(row[m], UserOf[s], clock))
               /\ view' = [view EXCEPT ![s].step = "locked",
                                       ![s].until = clock + LockTimeout]
      <3>1. m \in Requests
        BY <1>3, <1>a DEF LockForEdit
      <3>2. LockedFor(row[m], UserOf[s], clock) \in Rows
        BY <1>a, <3>1, RowOperatorsType
      <3>3. row' \in [Requests -> Rows]
        BY <2>2, <3>1, <3>2, WriteType
      <3> DEFINE v == [view[s] EXCEPT !.step = "locked", !.until = clock + LockTimeout]
      <3>4. v \in Views /\ v.mr = m
        BY <1>a, <1>c DEF Views
      <3>5. view' = [view EXCEPT ![s] = v]
        BY <2>2, <1>a DEF TypeOK
      <3> QED
        BY <1>3, <3>1, <3>3, <3>4, <3>5, <1>e DEF LockForEdit, TypeOK
    <2> QED
      BY <1>3, <2>1, <2>2 DEF LockForEdit
  <1>4. ASSUME NEW s \in Sessions, LoadForEdit(s) PROVE TypeOK'
    <2> DEFINE m == view[s].mr
    <2>1. CASE view' = [view EXCEPT ![s] = ClosedView]
      BY <1>4, <2>1, <1>d, <1>e, <1>f DEF LoadForEdit, TypeOK
    <2>2. CASE view' = [view EXCEPT ![s].step = "editing",
                                    ![s].seen = row[m].assigned_to]
      <3>1. m \in Requests
        BY <1>4, <1>a DEF LoadForEdit
      <3>2. row[m].assigned_to \in Users \union {Null}
        BY <3>1, <1>a DEF Rows
      <3> DEFINE v == [view[s] EXCEPT !.step = "editing", !.seen = row[m].assigned_to]
      <3>3. v \in Views /\ v.mr = m
        BY <1>a, <3>2 DEF Views
      <3>4. view' = [view EXCEPT ![s] = v]
        BY <2>2, <1>a DEF TypeOK
      <3> QED
        BY <1>4, <3>1, <3>3, <3>4, <1>e DEF LoadForEdit, TypeOK
    <2> QED
      BY <1>4, <2>1, <2>2 DEF LoadForEdit
  <1>5. ASSUME NEW s \in Sessions, Save(s) PROVE TypeOK'
    <2> DEFINE m == view[s].mr
    <2>1. m \in Requests /\ view[s].seen \in Users \union {Null}
      BY <1>5, <1>a DEF Save, Views
    <2>2. [row[m] EXCEPT !.assigned_to = view[s].seen] \in Rows
      BY <1>a, <2>1, RowOperatorsType
    <2>3. row' \in [Requests -> Rows]
      BY <1>5, <2>1, <2>2, WriteType DEF Save
    <2> DEFINE v == [view[s] EXCEPT !.step = "saved"]
    <2>4. v \in Views /\ v.mr = m
      BY <1>a DEF Views
    <2>5. view' = [view EXCEPT ![s] = v]
      BY <1>5, <1>a DEF Save, TypeOK
    <2> QED
      BY <1>5, <2>1, <2>3, <2>4, <2>5, <1>e DEF Save, TypeOK
  <1>6. ASSUME NEW s \in Sessions, ReleaseLock(s) PROVE TypeOK'
    <2>1. view[s].mr \in Requests
      BY <1>6, <1>a DEF ReleaseLock
    <2>2. UnlockedBy(view[s].mr, UserOf[s]) \in Rows
      BY <2>1, <1>a, <1>b DEF UnlockedBy
    <2>3. row' \in [Requests -> Rows]
      BY <1>6, <2>1, <2>2, WriteType DEF ReleaseLock
    <2> QED
      BY <1>6, <2>3, <1>d, <1>e, <1>f DEF ReleaseLock, TypeOK
  <1>7. ASSUME NEW s \in Sessions, Abandon(s) PROVE TypeOK'
    BY <1>7, <1>d, <1>e, <1>f DEF Abandon, TypeOK
  <1>8. ASSUME NEW u \in Users, NEW m \in Requests, RefreshBanner(u, m)
        PROVE  TypeOK'
    <2>1. StatusRead(row[m], Now(u)) \in Rows
      BY <1>a, <1>b DEF StatusRead
    <2> QED
      BY <1>8, <2>1, WriteType DEF RefreshBanner, TypeOK
  <1>9. ASSUME NEW m \in Requests, NEW o \in Officers, NEW a \in AsgIds,
               assignment' = [assignment EXCEPT ![a] = NewAssignment(m, o)],
               Write(m, InAssignment(row[m], a, o)),
               UNCHANGED <<presence, view, clock>>
        PROVE  TypeOK'
    <2>1. o \in Users
      BY UsersAssumption
    <2>2. InAssignment(row[m], a, o) \in Rows
      BY <2>1, <1>a, RowOperatorsType
    <2>3. row' \in [Requests -> Rows]
      BY <1>9, <2>2, WriteType
    <2>4. NewAssignment(m, o) \in AssignmentRows
      BY <2>1 DEF NewAssignment, AssignmentRows
    <2> QED
      BY <1>9, <2>3, <2>4 DEF TypeOK, NewAssignment
  <1>10. ASSUME NEW u \in Users, NEW m \in Requests, NEW o \in Officers, Assign(u, m, o)
         PROVE  TypeOK'
    BY <1>9, <1>10 DEF Assign
  <1>11. ASSUME NEW m \in Requests, NEW o \in Officers, AutoAssign(m, o)
         PROVE  TypeOK'
    BY <1>9, <1>11 DEF AutoAssign
  <1>12. ASSUME NEW u \in Users, NEW old \in AsgIds, NEW o \in Officers,
                Reassign(u, old, o)
         PROVE  TypeOK'
    <2> DEFINE m == assignment[old].mr
    <2>1. m \in Requests
      BY <1>12 DEF Reassign, TypeOK
    <2>2. PICK a \in AsgIds :
            /\ assignment' = [assignment EXCEPT ![old].state = "ended",
                                               ![a] = NewAssignment(m, o)]
            /\ Write(m, InAssignment(row[m], a, o))
      BY <1>12 DEF Reassign
    <2>3. o \in Users
      BY UsersAssumption
    <2>4. row' \in [Requests -> Rows]
      BY <2>1, <2>2, <2>3, <1>a, RowOperatorsType, WriteType
    <2>5. NewAssignment(m, o) \in AssignmentRows /\ NewAssignment(m, o).mr = m
      BY <2>1, <2>3 DEF NewAssignment, AssignmentRows
    <2>6. /\ assignment' \in [AsgIds -> AssignmentRows]
          /\ \A b \in AsgIds :
                assignment'[b].state # "unused" => assignment'[b].mr \in Requests
      <3>1. assignment[old] \in AssignmentRows
        BY DEF TypeOK
      <3> DEFINE closed == [assignment[old] EXCEPT !.state = "ended"]
      <3>2. closed \in AssignmentRows /\ closed.mr = m
        BY <3>1 DEF AssignmentRows
      <3>3. \A b \in AsgIds :
              assignment'[b] = IF b = a THEN NewAssignment(m, o)
                               ELSE IF b = old THEN closed ELSE assignment[b]
        BY <2>2 DEF TypeOK
      <3>4. assignment' \in [AsgIds -> AssignmentRows]
        BY <2>2, <2>5, <3>2 DEF TypeOK
      <3> QED
        BY <2>1, <2>5, <3>2, <3>3, <3>4 DEF TypeOK
    <2> QED
      BY <1>12, <2>4, <2>6 DEF Reassign, TypeOK
  <1>13. ASSUME NEW m \in Requests, NEW r \in Rows, Write(m, r),
                UNCHANGED <<presence, assignment, view, clock>>
         PROVE  TypeOK'
    BY <1>13, WriteType DEF TypeOK
  <1>14. ASSUME NEW u \in Users, NEW m \in Requests,
                \/ RecordClarification(u, m)
                \/ ResolveClarification(u, m)
                \/ ReceiveQuotation(u, m)
                \/ ReceiveFiles(u, m)
         PROVE  TypeOK'
    <2>1. CASE RecordClarification(u, m)
      BY <2>1, <1>a, <1>13, WorkflowOperatorsType DEF RecordClarification
    <2>2. CASE ResolveClarification(u, m)
      BY <2>2, <1>a, <1>13, WorkflowOperatorsType DEF ResolveClarification
    <2>3. CASE ReceiveQuotation(u, m)
      BY <2>3, <1>a, <1>13, WorkflowOperatorsType DEF ReceiveQuotation
    <2>4. CASE ReceiveFiles(u, m)
      BY <2>4, <1>a, <1>13, WorkflowOperatorsType DEF ReceiveFiles
    <2> QED
      BY <1>14, <2>1, <2>2, <2>3, <2>4
  <1>15. ASSUME NEW u \in Users, NEW m \in Requests,
                ForceUnlock(u, m) \/ Archive(u, m) \/ Restore(u, m)
         PROVE  TypeOK'
    <2>1. CASE ForceUnlock(u, m)
      BY <2>1, <1>b, <1>13 DEF ForceUnlock
    <2>2. CASE Archive(u, m)
      BY <2>2, <1>a, <1>13, RowOperatorsType DEF Archive
    <2>3. CASE Restore(u, m)
      BY <2>3, <1>a, <1>13, RowOperatorsType DEF Restore
    <2> QED
      BY <1>15, <2>1, <2>2, <2>3
  <1>16. ASSUME NEW u \in Users, NEW m \in Requests, Delete(u, m) PROVE TypeOK'
    <2>1. \A a \in AsgIds :
            /\ assignment'[a] \in AssignmentRows
            /\ assignment'[a].mr = assignment[a].mr
            /\ assignment'[a].mr # m => assignment'[a] = assignment[a]
      BY <1>16 DEF Delete, TypeOK, AssignmentRows
    <2>2. assignment' \in [AsgIds -> AssignmentRows]
      BY <1>16, <2>1 DEF Delete
    <2>3. \A a \in AsgIds :
            assignment'[a].state # "unused" => assignment'[a].mr \in Requests
      BY <2>1 DEF TypeOK
    <2> QED
      BY <1>16, <2>2, <2>3 DEF Delete, TypeOK
  <1>17. CASE Tick
    BY <1>17 DEF Tick, TypeOK
  <1>18. CASE UNCHANGED vars
    BY <1>18 DEF vars, TypeOK
  <1> QED
    BY <1>0, <1>1, <1>2, <1>3, <1>4, <1>5, <1>6, <1>7, <1>8, <1>10, <1>11, <1>12,
       <1>14, <1>15, <1>16, <1>17, <1>18
    DEF Next, ViewStep, AssignmentStep, PurchasingStep, AdministrationStep

\* Every reachable state of the desk is typed.
THEOREM TypeCorrect == Spec => []TypeOK
  <1>1. Init => TypeOK
    <2>1. ASSUME Init PROVE row \in [Requests -> Rows]
      BY <2>1
      DEF Init, NewRow, Rows, Statuses, WorkflowStatuses, PurchasingStates
    <2> QED
      BY <2>1 DEF Init, TypeOK, AssignmentRows, Views, ClosedView
  <1> QED
    BY <1>1, TypeStep, PTL DEF Spec

-----------------------------------------------------------------------------
(* The assignment context, the status columns and the open assignments.    *)
(*                                                                         *)
(* None of the three is inductive alone: archive is only safe because the  *)
(* columns agree, and an assignment may only start work on a request whose *)
(* pointer says that none is open.                                         *)

IInv == TypeOK /\ AssignmentContextSound /\ StatusColumnsAgree /\ WorkHasAnAssignment

\* q may replace the row r without an assignment operation.
SameWork(r, q) ==
    /\ q.current_assignment_id = r.current_assignment_id
    /\ (q.workflow_status = "Submitted" <=> r.workflow_status = "Submitted")
    /\ (ColumnsAgree(r) => ColumnsAgree(q))

\* The lock, the edit and the purchasing operations leave the assignment and
\* the beginning of the work alone.
LEMMA OperatorsKeepWork ==
    ASSUME NEW r \in Rows
    PROVE  /\ SameWork(r, r)
           /\ SameWork(r, Unlocked(r))
           /\ \A u, c : SameWork(r, LockedFor(r, u, c))
           /\ \A o : SameWork(r, [r EXCEPT !.assigned_to = o])
           /\ r.status = "Completed" /\ ColumnsAgree(r) => SameWork(r, Archived(r))
           /\ r.status = "Archived" /\ ColumnsAgree(r) => SameWork(r, Restored(r))
  <1> USE DEF Rows, SameWork, ColumnsAgree, Statuses, WorkflowStatuses,
              PurchasingStates
  <1>1. SameWork(r, r)
    OBVIOUS
  <1>2. SameWork(r, Unlocked(r))
    BY DEF Unlocked
  <1>3. \A u, c : SameWork(r, LockedFor(r, u, c))
    BY DEF LockedFor
  <1>4. \A o : SameWork(r, [r EXCEPT !.assigned_to = o])
    OBVIOUS
  <1>5. r.status = "Completed" /\ ColumnsAgree(r) => SameWork(r, Archived(r))
    BY DEF Archived, Unlocked
  <1>6. r.status = "Archived" /\ ColumnsAgree(r) => SameWork(r, Restored(r))
    BY DEF Restored, Unlocked
  <1> QED
    BY <1>1, <1>2, <1>3, <1>4, <1>5, <1>6

\* The purchasing workflow moves between states that all have an assignment.
LEMMA WorkflowKeepsWork ==
    ASSUME NEW r \in Rows
    PROVE  /\ SameWork(r, StartPurchasingWork(r))
           /\ \A f \in BOOLEAN : SameWork(r, EvaluateCompleted(r, f))
           /\ \A q, b, f \in BOOLEAN :
                 SameWork(r, EvaluateWaitingSupplierQuote(r, q, b, f))
  <1>1. ASSUME NEW x \in Rows, NEW s \in PurchasingStates,
               x.workflow_status # "Submitted"
        PROVE  SameWork(x, WithStatus(x, s))
    BY <1>1 DEF SameWork, ColumnsAgree, WithStatus, Rows, PurchasingStates
  <1>2. SameWork(r, StartPurchasingWork(r))
    BY <1>1, OperatorsKeepWork DEF StartPurchasingWork, PurchasingStates
  <1>3. ASSUME NEW x \in Rows, NEW f \in BOOLEAN
        PROVE  SameWork(x, EvaluateCompleted(x, f))
    BY <1>1, OperatorsKeepWork DEF EvaluateCompleted, PurchasingStates
  <1>4. ASSUME NEW q \in BOOLEAN, NEW b \in BOOLEAN, NEW f \in BOOLEAN
        PROVE  SameWork(r, EvaluateWaitingSupplierQuote(r, q, b, f))
    <2>1. CASE r.workflow_status = "In Progress"
      <3> DEFINE w == WithStatus(r, "Waiting Supplier Quote")
      <3>1. w \in Rows /\ SameWork(r, w)
        BY <2>1, <1>1, RowOperatorsType DEF PurchasingStates
      <3>2. SameWork(w, EvaluateCompleted(w, f))
        BY <3>1, <1>3
      <3>3. SameWork(r, EvaluateCompleted(w, f))
        BY <3>1, <3>2 DEF SameWork
      <3> QED
        BY <3>3, OperatorsKeepWork DEF EvaluateWaitingSupplierQuote
    <2>2. CASE r.workflow_status # "In Progress"
      BY <2>2, OperatorsKeepWork DEF EvaluateWaitingSupplierQuote
    <2> QED
      BY <2>1, <2>2
  <1> QED
    BY <1>2, <1>3, <1>4

\* A step that writes one row, and no assignment, keeps the invariant.
LEMMA QuietWrite ==
    ASSUME IInv, TypeOK', NEW m \in Requests, NEW r, SameWork(row[m], r),
           Write(m, r), UNCHANGED <<presence, assignment>>
    PROVE  IInv'
  <1>1. \A n \in Requests : row'[n] = IF n = m THEN r ELSE row[n]
    BY DEF Write, IInv, TypeOK
  <1>2. \A n \in Requests : SameWork(row[n], row'[n])
    BY <1>1 DEF SameWork
  <1>3. AssignmentContextSound'
    BY <1>2 DEF IInv, AssignmentContextSound, ActiveFor, Live, SameWork
  <1>4. StatusColumnsAgree'
    BY <1>2 DEF IInv, StatusColumnsAgree, SameWork
  <1>5. WorkHasAnAssignment'
    BY <1>2 DEF IInv, WorkHasAnAssignment, HasActiveAssignment, ActiveFor, Live,
                SameWork
  <1> QED
    BY <1>3, <1>4, <1>5 DEF IInv

\* A step that leaves the rows and the assignments alone keeps it too.
LEMMA QuietStep ==
    ASSUME IInv, TypeOK', UNCHANGED <<presence, row, assignment>>
    PROVE  IInv'
  BY DEF IInv, AssignmentContextSound, ActiveFor, Live, StatusColumnsAgree,
         WorkHasAnAssignment, HasActiveAssignment

\* The new assignment of a request without an open one becomes its context.
LEMMA AssignStep ==
    ASSUME IInv, TypeOK', NEW m \in Requests, NEW o \in Officers, NEW a \in AsgIds,
           Live(m), ~HasActiveAssignment(m), assignment[a].state = "unused",
           assignment' = [assignment EXCEPT ![a] = NewAssignment(m, o)],
           Write(m, InAssignment(row[m], a, o)),
           UNCHANGED presence
    PROVE  IInv'
  <1>1. row[m] \in Rows
    BY DEF IInv, TypeOK
  <1>2. \A n \in Requests :
          /\ n # m => row'[n] = row[n]
          /\ row'[m].current_assignment_id = a
          /\ row'[m].status = "Assigned"
          /\ row'[m].workflow_status = "Assigned"
    BY <1>1 DEF IInv, TypeOK, Write, InAssignment, Rows
  <1>3. \A b \in AsgIds :
          assignment'[b] = IF b = a THEN NewAssignment(m, o) ELSE assignment[b]
    BY DEF IInv, TypeOK
  <1>4. \A b \in AsgIds, n \in Requests :
          ActiveFor(b, n)' <=> (IF b = a THEN n = m ELSE ActiveFor(b, n))
    BY <1>3 DEF ActiveFor, NewAssignment
  <1>5. AssignmentContextSound'
    BY <1>2, <1>4
    DEF IInv, AssignmentContextSound, HasActiveAssignment, ActiveFor, Live
  <1>6. StatusColumnsAgree'
    BY <1>2 DEF IInv, StatusColumnsAgree, ColumnsAgree
  <1>7. WorkHasAnAssignment'
    BY <1>2, <1>4
    DEF IInv, WorkHasAnAssignment, HasActiveAssignment, Live, ActiveFor
  <1> QED
    BY <1>5, <1>6, <1>7 DEF IInv

\* Reassignment closes the only open assignment and opens its replacement.
LEMMA ReassignStep ==
    ASSUME IInv, TypeOK', NEW old \in AsgIds, NEW o \in Officers, NEW a \in AsgIds,
           NEW m \in Requests, m = assignment[old].mr,
           Live(m), assignment[old].state = "active",
           assignment[a].state = "unused",
           \A b \in AsgIds \ {old} : ~ActiveFor(b, m),
           assignment' = [assignment EXCEPT ![old].state = "ended",
                                            ![a] = NewAssignment(m, o)],
           Write(m, InAssignment(row[m], a, o)),
           UNCHANGED presence
    PROVE  IInv'
  <1>1. row[m] \in Rows
    BY DEF IInv, TypeOK
  <1>2. \A n \in Requests :
          /\ n # m => row'[n] = row[n]
          /\ row'[m].current_assignment_id = a
          /\ row'[m].status = "Assigned"
          /\ row'[m].workflow_status = "Assigned"
    BY <1>1 DEF IInv, TypeOK, Write, InAssignment, Rows
  <1> DEFINE closed == [assignment[old] EXCEPT !.state = "ended"]
  <1>3. a # old
    OBVIOUS
  <1>4. \A b \in AsgIds :
          assignment'[b] = IF b = a THEN NewAssignment(m, o)
                           ELSE IF b = old THEN closed ELSE assignment[b]
    BY <1>3 DEF IInv, TypeOK
  <1>5. closed.state = "ended"
    BY DEF IInv, TypeOK, AssignmentRows
  <1>6. \A n \in Requests : n # m => ~ActiveFor(old, n)
    BY DEF ActiveFor
  <1>7. \A b \in AsgIds, n \in Requests :
          ActiveFor(b, n)' <=> (IF n = m THEN b = a ELSE ActiveFor(b, n))
    <2> TAKE b \in AsgIds, n \in Requests
    <2>1. CASE b = a
      <3>1. assignment'[b] = NewAssignment(m, o)
        BY <2>1, <1>4
      <3>3. assignment'[b].state = "active" /\ assignment'[b].mr = m
        BY <3>1 DEF NewAssignment
      <3>2. ~ActiveFor(b, n)
        BY <2>1 DEF ActiveFor
      <3> QED
        BY <2>1, <3>3, <3>2 DEF ActiveFor
    <2>2. CASE b = old
      <3>1. assignment'[b].state # "active"
        BY <2>2, <1>3, <1>4, <1>5
      <3> QED
        BY <2>2, <3>1, <1>3, <1>6 DEF ActiveFor
    <2>3. CASE b # a /\ b # old
      <3>1. assignment'[b] = assignment[b]
        BY <2>3, <1>4
      <3>2. ~ActiveFor(b, m)
        BY <2>3
      <3> QED
        BY <2>3, <3>1, <3>2 DEF ActiveFor
    <2> QED
      BY <2>1, <2>2, <2>3
  <1>8. AssignmentContextSound'
    BY <1>2, <1>7 DEF IInv, AssignmentContextSound, Live
  <1>9. StatusColumnsAgree'
    BY <1>2 DEF IInv, StatusColumnsAgree, ColumnsAgree
  <1>10. WorkHasAnAssignment'
    BY <1>2, <1>7 DEF IInv, WorkHasAnAssignment, HasActiveAssignment, Live
  <1> QED
    BY <1>8, <1>9, <1>10 DEF IInv

\* A new request starts with nothing open: an id is used once.
LEMMA CreateStep ==
    ASSUME IInv, TypeOK', NEW m \in Requests, CreateRequest(m)
    PROVE  IInv'
  <1>1. \A n \in Requests :
          /\ n # m => row'[n] = row[n]
          /\ row'[m] = NewRow(clock)
    BY DEF IInv, TypeOK, CreateRequest, Write
  <1>2. \A n \in Requests : Live(n)' <=> n = m \/ Live(n)
    BY DEF IInv, TypeOK, CreateRequest, Live
  <1>3. \A b \in AsgIds, n \in Requests : ActiveFor(b, n)' <=> ActiveFor(b, n)
    BY DEF CreateRequest, ActiveFor
  <1>4. \A b \in AsgIds : ~ActiveFor(b, m)
    BY DEF IInv, AssignmentContextSound, CreateRequest, Live
  <1>5. \A b \in AsgIds : NewRow(clock).current_assignment_id # b
    BY NullIsNoId DEF NewRow
  <1>6. AssignmentContextSound'
    BY <1>1, <1>2, <1>3, <1>4, <1>5 DEF IInv, AssignmentContextSound
  <1>7. StatusColumnsAgree'
    BY <1>1 DEF IInv, StatusColumnsAgree, ColumnsAgree, NewRow
  <1>8. NewRow(clock).workflow_status = "Submitted"
    BY DEF NewRow
  <1>9. WorkHasAnAssignment'
    BY <1>1, <1>2, <1>3, <1>4, <1>8
    DEF IInv, WorkHasAnAssignment, HasActiveAssignment
  <1> QED
    BY <1>6, <1>7, <1>9 DEF IInv

\* A deleted request takes its open assignment with it.
LEMMA DeleteStep ==
    ASSUME IInv, TypeOK', NEW u \in Users, NEW m \in Requests, Delete(u, m)
    PROVE  IInv'
  <1>1. row' = row
    BY DEF Delete
  <1>2. \A n \in Requests : Live(n)' <=> n # m /\ Live(n)
    BY DEF IInv, TypeOK, Delete, Live
  <1>3. \A b \in AsgIds :
          /\ assignment'[b].mr = assignment[b].mr
          /\ assignment[b].mr = m => assignment'[b].state = "deleted"
          /\ assignment[b].mr # m => assignment'[b].state = assignment[b].state
    BY DEF IInv, TypeOK, Delete, AssignmentRows
  <1>4. \A b \in AsgIds, n \in Requests :
          ActiveFor(b, n)' <=> n # m /\ ActiveFor(b, n)
    BY <1>3 DEF ActiveFor
  <1>5. AssignmentContextSound'
    BY <1>1, <1>2, <1>4 DEF IInv, AssignmentContextSound
  <1>6. StatusColumnsAgree'
    BY <1>1 DEF IInv, StatusColumnsAgree
  <1>7. WorkHasAnAssignment'
    BY <1>1, <1>2, <1>4 DEF IInv, WorkHasAnAssignment, HasActiveAssignment
  <1> QED
    BY <1>5, <1>6, <1>7 DEF IInv

\* Every operation keeps the context, the columns and the assignments together.
LEMMA InvStep == IInv /\ [Next]_vars => IInv'
  <1> SUFFICES ASSUME IInv, [Next]_vars PROVE IInv'
    OBVIOUS
  <1>a. TypeOK /\ TypeOK'
    BY TypeStep DEF IInv
  <1>b. \A m \in Requests : row[m] \in Rows
    BY <1>a DEF TypeOK
  <1>c. \A s \in Sessions : view[s].step # "closed" => view[s].mr \in Requests
    BY <1>a DEF TypeOK
  <1>1. ASSUME NEW m \in Requests, CreateRequest(m) PROVE IInv'
    BY <1>1, <1>a, CreateStep
  <1>2. ASSUME NEW m \in Requests, NEW now
        PROVE  SameWork(row[m], StatusRead(row[m], now))
    BY <1>b, OperatorsKeepWork DEF StatusRead
  <1>0. ASSUME NEW s \in Sessions, NEW m \in Requests, OpenDetails(s, m)
        PROVE  IInv'
    BY <1>0, <1>a, QuietStep DEF OpenDetails
  <1>3. ASSUME NEW s \in Sessions, AskLockStatus(s) PROVE IInv'
    <2>1. PICK m \in Requests : m = view[s].mr
      BY <1>3, <1>c DEF AskLockStatus
    <2>2. SameWork(row[m], row[m])
      BY <1>b, OperatorsKeepWork
    <2> QED
      BY <1>3, <2>1, <2>2, <1>a, <1>2, QuietWrite DEF AskLockStatus
  <1>4. ASSUME NEW s \in Sessions, LockForEdit(s) PROVE IInv'
    <2> DEFINE m == view[s].mr
    <2>1. CASE row' = row
      BY <1>4, <2>1, <1>a, QuietStep DEF LockForEdit
    <2>2. CASE Write(m, LockedFor(row[m], UserOf[s], clock))
      <3>1. m \in Requests
        BY <1>4, <1>c DEF LockForEdit
      <3>2. SameWork(row[m], LockedFor(row[m], UserOf[s], clock))
        BY <3>1, <1>b, OperatorsKeepWork
      <3> QED
        BY <1>4, <2>2, <3>1, <3>2, <1>a, QuietWrite DEF LockForEdit
    <2> QED
      BY <1>4, <2>1, <2>2 DEF LockForEdit
  <1>5. ASSUME NEW s \in Sessions, LoadForEdit(s) PROVE IInv'
    BY <1>5, <1>a, QuietStep DEF LoadForEdit
  <1>6. ASSUME NEW s \in Sessions, Save(s) PROVE IInv'
    <2> DEFINE m == view[s].mr
    <2>1. m \in Requests
      BY <1>6, <1>c DEF Save
    <2>2. SameWork(row[m], [row[m] EXCEPT !.assigned_to = view[s].seen])
      BY <2>1, <1>b, OperatorsKeepWork
    <2> QED
      BY <1>6, <2>1, <2>2, <1>a, QuietWrite DEF Save
  <1>7. ASSUME NEW s \in Sessions, ReleaseLock(s) PROVE IInv'
    <2> DEFINE m == view[s].mr
    <2>1. m \in Requests
      BY <1>7, <1>c DEF ReleaseLock
    <2>2. SameWork(row[m], UnlockedBy(m, UserOf[s]))
      BY <2>1, <1>b, OperatorsKeepWork DEF UnlockedBy
    <2> QED
      BY <1>7, <2>1, <2>2, <1>a, QuietWrite DEF ReleaseLock
  <1>8. ASSUME NEW s \in Sessions, Abandon(s) PROVE IInv'
    BY <1>8, <1>a, QuietStep DEF Abandon
  <1>9. ASSUME NEW u \in Users, NEW m \in Requests, RefreshBanner(u, m) PROVE IInv'
    BY <1>9, <1>a, <1>2, QuietWrite DEF RefreshBanner
  <1>10. ASSUME NEW u \in Users, NEW m \in Requests, NEW o \in Officers, Assign(u, m, o)
         PROVE  IInv'
    BY <1>10, <1>a, AssignStep DEF Assign
  <1>11. ASSUME NEW m \in Requests, NEW o \in Officers, AutoAssign(m, o)
         PROVE  IInv'
    BY <1>11, <1>a, AssignStep DEF AutoAssign
  <1>12. ASSUME NEW u \in Users, NEW old \in AsgIds, NEW o \in Officers,
                Reassign(u, old, o)
         PROVE  IInv'
    <2> DEFINE m == assignment[old].mr
    <2>1. m \in Requests
      BY <1>12, <1>a DEF Reassign, TypeOK
    <2>2. PICK a \in AsgIds :
            /\ assignment[a].state = "unused"
            /\ assignment' = [assignment EXCEPT ![old].state = "ended",
                                               ![a] = NewAssignment(m, o)]
            /\ Write(m, InAssignment(row[m], a, o))
      BY <1>12 DEF Reassign
    <2> QED
      BY <1>12, <2>1, <2>2, <1>a, ReassignStep DEF Reassign
  <1>13. ASSUME NEW u \in Users, NEW m \in Requests,
                \/ RecordClarification(u, m)
                \/ ResolveClarification(u, m)
                \/ ReceiveQuotation(u, m)
                \/ ReceiveFiles(u, m)
         PROVE  IInv'
    <2>1. ASSUME NEW r, SameWork(row[m], r), Write(m, r),
                 UNCHANGED <<presence, assignment, view, clock>>
          PROVE  IInv'
      BY <2>1, <1>a, QuietWrite
    <2>2. CASE RecordClarification(u, m)
      BY <2>1, <2>2, <1>b, WorkflowKeepsWork DEF RecordClarification
    <2>3. CASE ResolveClarification(u, m)
      BY <2>1, <2>3, <1>b, WorkflowKeepsWork DEF ResolveClarification
    <2>4. CASE ReceiveQuotation(u, m)
      <3>1. PICK blocked, allFiles \in BOOLEAN :
              Write(m, EvaluateCompleted(
                           EvaluateWaitingSupplierQuote(
                               StartPurchasingWork(row[m]), TRUE, blocked, FALSE),
                           allFiles))
        BY <2>4 DEF ReceiveQuotation
      <3> DEFINE r1 == StartPurchasingWork(row[m])
                 r2 == EvaluateWaitingSupplierQuote(r1, TRUE, blocked, FALSE)
                 r3 == EvaluateCompleted(r2, allFiles)
      <3>2. r1 \in Rows /\ SameWork(row[m], r1)
        BY <1>b, WorkflowOperatorsType, WorkflowKeepsWork
      <3>3. r2 \in Rows /\ SameWork(r1, r2)
        BY <3>2, WorkflowOperatorsType, WorkflowKeepsWork
      <3>4. SameWork(r2, r3)
        BY <3>3, WorkflowKeepsWork
      <3>5. SameWork(row[m], r3)
        BY <3>2, <3>3, <3>4 DEF SameWork
      <3> QED
        BY <2>1, <2>4, <3>1, <3>5 DEF ReceiveQuotation
    <2>5. CASE ReceiveFiles(u, m)
      BY <2>1, <2>5, <1>b, WorkflowKeepsWork DEF ReceiveFiles
    <2> QED
      BY <1>13, <2>2, <2>3, <2>4, <2>5
  <1>14. ASSUME NEW u \in Users, NEW m \in Requests,
                ForceUnlock(u, m) \/ Archive(u, m) \/ Restore(u, m)
         PROVE  IInv'
    <2>1. ColumnsAgree(row[m])
      BY DEF IInv, StatusColumnsAgree
    <2>2. CASE ForceUnlock(u, m)
      BY <2>2, <1>a, <1>b, OperatorsKeepWork, QuietWrite DEF ForceUnlock
    <2>3. CASE Archive(u, m)
      BY <2>1, <2>3, <1>a, <1>b, OperatorsKeepWork, QuietWrite DEF Archive
    <2>4. CASE Restore(u, m)
      BY <2>1, <2>4, <1>a, <1>b, OperatorsKeepWork, QuietWrite DEF Restore
    <2> QED
      BY <1>14, <2>2, <2>3, <2>4
  <1>15. ASSUME NEW u \in Users, NEW m \in Requests, Delete(u, m) PROVE IInv'
    BY <1>15, <1>a, DeleteStep
  <1>16. CASE Tick
    BY <1>16, <1>a, QuietStep DEF Tick
  <1>17. CASE UNCHANGED vars
    BY <1>17, <1>a, QuietStep DEF vars
  <1> QED
    BY <1>0, <1>1, <1>3, <1>4, <1>5, <1>6, <1>7, <1>8, <1>9, <1>10, <1>11, <1>12,
       <1>13, <1>14, <1>15, <1>16, <1>17
    DEF Next, ViewStep, AssignmentStep, PurchasingStep, AdministrationStep

\* Nothing is created, assigned or at work in the initial state.
LEMMA InvInit == Init => IInv
  <1> SUFFICES ASSUME Init PROVE IInv
    OBVIOUS
  <1>1. TypeOK
    <2>1. row \in [Requests -> Rows]
      BY DEF Init, NewRow, Rows, Statuses, WorkflowStatuses, PurchasingStates
    <2> QED
      BY <2>1 DEF Init, TypeOK, AssignmentRows, Views, ClosedView
  <1>2. \A b \in AsgIds, n \in Requests : ~ActiveFor(b, n)
    BY DEF Init, ActiveFor
  <1>3. \A n \in Requests : ~Live(n) /\ row[n].status = "New"
                            /\ row[n].workflow_status = "Submitted"
    BY DEF Init, Live, NewRow
  <1>4. AssignmentContextSound /\ WorkHasAnAssignment
    BY <1>2, <1>3 DEF AssignmentContextSound, WorkHasAnAssignment
  <1>5. StatusColumnsAgree
    BY <1>3 DEF StatusColumnsAgree, ColumnsAgree
  <1> QED
    BY <1>1, <1>4, <1>5 DEF IInv

\* The inductive invariant holds in every reachable state.
LEMMA InvariantHolds == Spec => []IInv
  BY InvInit, InvStep, PTL DEF Spec

\* current_assignment_id is always the one open assignment row of a live
\* request: the worker, assign, reassign and delete cannot drive the two apart.
THEOREM AssignmentContext == Spec => []AssignmentContextSound
  <1>1. IInv => AssignmentContextSound
    BY DEF IInv
  <1> QED
    BY <1>1, InvariantHolds, PTL

\* status and workflow_status disagree only as the code intends.
THEOREM StatusColumns == Spec => []StatusColumnsAgree
  <1>1. IInv => StatusColumnsAgree
    BY DEF IInv
  <1> QED
    BY <1>1, InvariantHolds, PTL

\* A request that left Submitted always has an open assignment, and only such.
THEOREM WorkAssigned == Spec => []WorkHasAnAssignment
  <1>1. IInv => WorkHasAnAssignment
    BY DEF IInv
  <1> QED
    BY <1>1, InvariantHolds, PTL

-----------------------------------------------------------------------------
(* The edit lock implements the lease of EditLease.                        *)

\* q may replace the row r without giving anybody the edit lock.
GivesNoLock(r, q) ==
    \/ q.locked_by = Null
    \/ q.locked_by = r.locked_by /\ q.lock_expires_at = r.lock_expires_at

\* Only LockedFor gives a lock.
LEMMA OperatorsGiveNoLock ==
    ASSUME NEW r \in Rows
    PROVE  /\ GivesNoLock(r, r)
           /\ GivesNoLock(r, Unlocked(r))
           /\ \A c : GivesNoLock(r, NewRow(c))
           /\ \A o : GivesNoLock(r, [r EXCEPT !.assigned_to = o])
           /\ \A a, o : GivesNoLock(r, InAssignment(r, a, o))
           /\ \A s : GivesNoLock(r, WithStatus(r, s))
           /\ GivesNoLock(r, Archived(r))
           /\ GivesNoLock(r, Restored(r))
  <1> USE DEF Rows, GivesNoLock
  <1>1. GivesNoLock(r, r)
    OBVIOUS
  <1>2. GivesNoLock(r, Unlocked(r))
    BY DEF Unlocked
  <1>3. \A c : GivesNoLock(r, NewRow(c))
    BY DEF NewRow
  <1>4. \A o : GivesNoLock(r, [r EXCEPT !.assigned_to = o])
    OBVIOUS
  <1>5. \A a, o : GivesNoLock(r, InAssignment(r, a, o))
    BY DEF InAssignment
  <1>6. \A s : GivesNoLock(r, WithStatus(r, s))
    BY DEF WithStatus
  <1>7. GivesNoLock(r, Archived(r))
    BY DEF Archived, Unlocked
  <1>8. GivesNoLock(r, Restored(r))
    BY DEF Restored, Unlocked
  <1> QED
    BY <1>1, <1>2, <1>3, <1>4, <1>5, <1>6, <1>7, <1>8

\* The purchasing workflow gives no lock either.
LEMMA WorkflowGivesNoLock ==
    ASSUME NEW r \in Rows
    PROVE  /\ GivesNoLock(r, StartPurchasingWork(r))
           /\ \A f \in BOOLEAN : GivesNoLock(r, EvaluateCompleted(r, f))
           /\ \A q, b, f \in BOOLEAN :
                 GivesNoLock(r, EvaluateWaitingSupplierQuote(r, q, b, f))
  <1>1. GivesNoLock(r, StartPurchasingWork(r))
    BY OperatorsGiveNoLock DEF StartPurchasingWork
  <1>2. ASSUME NEW x \in Rows, NEW f \in BOOLEAN
        PROVE  GivesNoLock(x, EvaluateCompleted(x, f))
    BY OperatorsGiveNoLock DEF EvaluateCompleted
  <1>3. ASSUME NEW q \in BOOLEAN, NEW b \in BOOLEAN, NEW f \in BOOLEAN
        PROVE  GivesNoLock(r, EvaluateWaitingSupplierQuote(r, q, b, f))
    <2> DEFINE w == WithStatus(r, "Waiting Supplier Quote")
    <2>1. w \in Rows /\ GivesNoLock(r, w)
      BY RowOperatorsType, OperatorsGiveNoLock DEF PurchasingStates
    <2>2. GivesNoLock(w, EvaluateCompleted(w, f))
      BY <2>1, <1>2
    <2>3. GivesNoLock(r, EvaluateCompleted(w, f))
      BY <2>1, <2>2 DEF GivesNoLock
    <2> QED
      BY <2>3, OperatorsGiveNoLock DEF EvaluateWaitingSupplierQuote
  <1> QED
    BY <1>1, <1>2, <1>3

\* A step after which every lease is what it was or has lapsed is a Lapse.
LEMMA LapseStep ==
    ASSUME \A n \in Requests : LeaseHolder(n)' \in {LeaseHolder(n), Null}
    PROVE  Lease!Next
  <1> DEFINE ms == {n \in Requests : LeaseHolder(n)' # LeaseHolder(n)}
  <1>1. ms \in SUBSET Requests
    OBVIOUS
  <1>2. \A n \in Requests : LeaseHolders[n] = LeaseHolder(n)
    BY DEF LeaseHolders
  <1>3. LeaseHolders' = [n \in Requests |-> LeaseHolder(n)']
    BY DEF LeaseHolders
  <1>4. \A n \in Requests :
          LeaseHolder(n)' = IF n \in ms THEN Null ELSE LeaseHolders[n]
    BY <1>2
  <1>5. LeaseHolders' = [n \in Requests |-> IF n \in ms THEN Null ELSE LeaseHolders[n]]
    BY <1>3, <1>4
  <1> QED
    BY <1>1, <1>5 DEF Lease!Next, Lease!Lapse

\* Writing a row that gives no lock grants no lease.
LEMMA NoLockWrite ==
    ASSUME TypeOK, NEW m \in Requests, NEW r, GivesNoLock(row[m], r),
           Write(m, r), UNCHANGED <<presence, clock>>
    PROVE  Lease!Next
  <1>1. \A n \in Requests : GivesNoLock(row[n], row'[n])
    BY DEF TypeOK, Write, GivesNoLock
  <1>2. \A n \in Requests : LeaseHolder(n)' \in {LeaseHolder(n), Null}
    BY <1>1 DEF LeaseHolder, Live, GivesNoLock
  <1> QED
    BY <1>2, LapseStep

\* Locking: refused to others while the lock is unexpired, otherwise a grant.
LEMMA LockGrants ==
    ASSUME TypeOK, NEW s \in Sessions, LockForEdit(s)
    PROVE  [Lease!Next]_LeaseHolders
  <1> DEFINE u == UserOf[s]
  <1>1. u \in Users
    BY UsersAssumption
  <1>m. PICK m \in Requests : m = view[s].mr
    BY DEF LockForEdit, TypeOK
  <1>2. CASE UNCHANGED row
    <2>1. \A n \in Requests : LeaseHolder(n)' = LeaseHolder(n)
      BY <1>2 DEF LockForEdit, LeaseHolder, Live
    <2> QED
      BY <2>1, LapseStep
  <1>3. CASE /\ Live(m)
             /\ ~HeldByOther(row[m], u, Now(u))
             /\ Write(m, LockedFor(row[m], u, clock))
    <2>1. row[m] \in Rows
      BY <1>1 DEF TypeOK
    <2>2. row[m].lock_expires_at \in Nat
      BY <2>1 DEF Rows
    <2>3. /\ clock \in Nat
          /\ Drift[u] \in Int
          /\ MaxDrift \in Int
          /\ Drift[u] <= MaxDrift
      BY <1>1, TimeAssumption DEF TypeOK
    <2>4. \/ row[m].locked_by = Null
          \/ row[m].locked_by = u
          \/ ~(row[m].lock_expires_at > clock + MaxDrift)
      <3>1. CASE ~(row[m].lock_expires_at > Now(u))
        BY <3>1, <2>2, <2>3 DEF Now
      <3> QED
        BY <1>3, <3>1 DEF HeldByOther
    <2>5. LeaseHolder(m) \in {Null, u}
      BY <2>4 DEF LeaseHolder
    <2>6. \A n \in Requests : row'[n] = IF n = m THEN LockedFor(row[m], u, clock)
                                                ELSE row[n]
      BY <1>3 DEF Write, TypeOK
    <2>7. row'[m].locked_by = u
      BY <1>1, <2>1, <2>6 DEF LockedFor, Rows
    <2>8. LeaseHolder(m)' \in {Null, u}
      BY <2>7 DEF LeaseHolder
    <2>9. \A n \in Requests : n # m => LeaseHolder(n)' = LeaseHolder(n)
      BY <2>6 DEF LockForEdit, LeaseHolder, Live
    <2>10. CASE LeaseHolder(m) = Null /\ LeaseHolder(m)' = u
      <3>1. LeaseHolders' = [LeaseHolders EXCEPT ![m] = u]
        BY <1>1, <2>9, <2>10 DEF LeaseHolders
      <3>2. LeaseHolders[m] = Null
        BY <1>1, <2>10 DEF LeaseHolders
      <3> QED
        BY <1>1, <3>1, <3>2 DEF Lease!Next, Lease!Grant
    <2>11. CASE LeaseHolder(m)' \in {LeaseHolder(m), Null}
      BY <2>9, <2>11, LapseStep
    <2> QED
      BY <2>5, <2>8, <2>10, <2>11
  <1> QED
    BY <1>m, <1>2, <1>3 DEF LockForEdit

\* Every step of the desk is a step of the lease, or leaves it alone.
LEMMA LeaseStep ==
    ASSUME TypeOK, [Next]_vars
    PROVE  [Lease!Next]_LeaseHolders
  <1>a. \A m \in Requests : row[m] \in Rows
    BY DEF TypeOK
  <1>b. \A s \in Sessions : view[s].step # "closed" => view[s].mr \in Requests
    BY DEF TypeOK
  <1>c. ASSUME NEW m \in Requests, NEW now
        PROVE  GivesNoLock(row[m], StatusRead(row[m], now))
    BY <1>a, OperatorsGiveNoLock DEF StatusRead
  <1>d. ASSUME UNCHANGED <<presence, row, clock>> PROVE Lease!Next
    <2>1. \A n \in Requests : LeaseHolder(n)' = LeaseHolder(n)
      BY <1>d DEF LeaseHolder, Live
    <2> QED
      BY <2>1, LapseStep
  <1>1. ASSUME NEW m \in Requests, CreateRequest(m) PROVE Lease!Next
    <2>1. /\ row'[m] = NewRow(clock)
          /\ \A n \in Requests :
                n # m => row'[n] = row[n] /\ presence'[n] = presence[n]
      BY <1>1 DEF CreateRequest, Write, TypeOK
    <2>2. LeaseHolder(m)' = Null
      BY <2>1 DEF LeaseHolder, NewRow
    <2>3. \A n \in Requests : n # m => LeaseHolder(n)' = LeaseHolder(n)
      BY <1>1, <2>1 DEF CreateRequest, LeaseHolder, Live
    <2> QED
      BY <2>2, <2>3, LapseStep
  <1>2. ASSUME NEW s \in Sessions, AskLockStatus(s) PROVE Lease!Next
    <2>1. PICK m \in Requests : m = view[s].mr
      BY <1>2, <1>b DEF AskLockStatus
    <2>2. GivesNoLock(row[m], row[m])
      BY <1>a, OperatorsGiveNoLock
    <2> QED
      BY <1>2, <2>1, <2>2, <1>c, NoLockWrite DEF AskLockStatus
  <1>3. ASSUME NEW s \in Sessions, Save(s) PROVE Lease!Next
    BY <1>3, <1>a, <1>b, OperatorsGiveNoLock, NoLockWrite DEF Save
  <1>4. ASSUME NEW s \in Sessions, ReleaseLock(s) PROVE Lease!Next
    <2>1. view[s].mr \in Requests
      BY <1>4, <1>b DEF ReleaseLock
    <2>2. GivesNoLock(row[view[s].mr], UnlockedBy(view[s].mr, UserOf[s]))
      BY <2>1, <1>a, OperatorsGiveNoLock DEF UnlockedBy
    <2> QED
      BY <1>4, <2>1, <2>2, NoLockWrite DEF ReleaseLock
  <1>5. ASSUME NEW s \in Sessions,
               \/ \E m \in Requests : OpenDetails(s, m)
               \/ LoadForEdit(s)
               \/ Abandon(s)
        PROVE  Lease!Next
    BY <1>5, <1>d DEF OpenDetails, LoadForEdit, Abandon
  <1>6. ASSUME NEW u \in Users, NEW m \in Requests, RefreshBanner(u, m)
        PROVE  Lease!Next
    BY <1>6, <1>c, NoLockWrite DEF RefreshBanner
  <1>7. ASSUME NEW u \in Users, NEW m \in Requests, NEW o \in Officers,
               Assign(u, m, o)
        PROVE  Lease!Next
    BY <1>7, <1>a, OperatorsGiveNoLock, NoLockWrite DEF Assign
  <1>8. ASSUME NEW m \in Requests, NEW o \in Officers, AutoAssign(m, o)
         PROVE  Lease!Next
    BY <1>8, <1>a, OperatorsGiveNoLock, NoLockWrite DEF AutoAssign
  <1>9. ASSUME NEW u \in Users, NEW old \in AsgIds, NEW o \in Officers,
               Reassign(u, old, o)
        PROVE  Lease!Next
    <2>1. assignment[old].mr \in Requests
      BY <1>9 DEF Reassign, TypeOK
    <2> QED
      BY <1>9, <2>1, <1>a, OperatorsGiveNoLock, NoLockWrite DEF Reassign
  <1>10. ASSUME NEW u \in Users, NEW m \in Requests,
               \/ RecordClarification(u, m)
               \/ ResolveClarification(u, m)
               \/ ReceiveQuotation(u, m)
               \/ ReceiveFiles(u, m)
        PROVE  Lease!Next
    <2>1. ASSUME NEW r, GivesNoLock(row[m], r), Write(m, r),
                 UNCHANGED <<presence, assignment, view, clock>>
          PROVE  Lease!Next
      BY <2>1, NoLockWrite
    <2>2. CASE RecordClarification(u, m)
      BY <2>1, <2>2, <1>a, WorkflowGivesNoLock DEF RecordClarification
    <2>3. CASE ResolveClarification(u, m)
      BY <2>1, <2>3, <1>a, WorkflowGivesNoLock DEF ResolveClarification
    <2>4. CASE ReceiveQuotation(u, m)
      <3>1. PICK blocked, allFiles \in BOOLEAN :
              Write(m, EvaluateCompleted(
                           EvaluateWaitingSupplierQuote(
                               StartPurchasingWork(row[m]), TRUE, blocked, FALSE),
                           allFiles))
        BY <2>4 DEF ReceiveQuotation
      <3> DEFINE r1 == StartPurchasingWork(row[m])
                 r2 == EvaluateWaitingSupplierQuote(r1, TRUE, blocked, FALSE)
                 r3 == EvaluateCompleted(r2, allFiles)
      <3>2. r1 \in Rows /\ GivesNoLock(row[m], r1)
        BY <1>a, WorkflowOperatorsType, WorkflowGivesNoLock
      <3>3. r2 \in Rows /\ GivesNoLock(r1, r2)
        BY <3>2, WorkflowOperatorsType, WorkflowGivesNoLock
      <3>4. GivesNoLock(r2, r3)
        BY <3>3, WorkflowGivesNoLock
      <3>5. GivesNoLock(row[m], r3)
        BY <3>2, <3>3, <3>4 DEF GivesNoLock
      <3> QED
        BY <2>1, <2>4, <3>1, <3>5 DEF ReceiveQuotation
    <2>5. CASE ReceiveFiles(u, m)
      BY <2>1, <2>5, <1>a, WorkflowGivesNoLock DEF ReceiveFiles
    <2> QED
      BY <1>10, <2>2, <2>3, <2>4, <2>5
  <1>11. ASSUME NEW u \in Users, NEW m \in Requests,
                ForceUnlock(u, m) \/ Archive(u, m) \/ Restore(u, m)
         PROVE  Lease!Next
    BY <1>11, <1>a, OperatorsGiveNoLock, NoLockWrite
    DEF ForceUnlock, Archive, Restore
  <1>12. ASSUME NEW u \in Users, NEW m \in Requests, Delete(u, m) PROVE Lease!Next
    <2>1. \A n \in Requests : Live(n)' <=> n # m /\ Live(n)
      BY <1>12 DEF TypeOK, Delete, Live
    <2>2. \A n \in Requests : LeaseHolder(n)' \in {LeaseHolder(n), Null}
      BY <1>12, <2>1 DEF Delete, LeaseHolder
    <2> QED
      BY <2>2, LapseStep
  <1>13. CASE Tick
    <2>1. clock \in Nat /\ MaxDrift \in Int
          /\ \A n \in Requests : row[n].lock_expires_at \in Nat
      BY <1>a, TimeAssumption DEF TypeOK, Rows
    <2>2. \A n \in Requests :
            row[n].lock_expires_at > clock + 1 + MaxDrift
            => row[n].lock_expires_at > clock + MaxDrift
      BY <2>1
    <2>3. \A n \in Requests : LeaseHolder(n)' \in {LeaseHolder(n), Null}
      BY <1>13, <2>2 DEF Tick, LeaseHolder, Live
    <2> QED
      BY <2>3, LapseStep
  <1>14. CASE UNCHANGED vars
    BY <1>14, <1>d DEF vars
  <1>15. ASSUME NEW s \in Sessions, LockForEdit(s)
         PROVE  [Lease!Next]_LeaseHolders
    BY <1>15, LockGrants
  <1>16. CASE ViewStep
    BY <1>16, <1>2, <1>3, <1>4, <1>5, <1>15 DEF ViewStep
  <1>17. CASE AssignmentStep
    BY <1>17, <1>7, <1>9, <1>8 DEF AssignmentStep
  <1>18. CASE PurchasingStep
    BY <1>18, <1>10 DEF PurchasingStep
  <1>19. CASE AdministrationStep
    BY <1>19, <1>11, <1>12 DEF AdministrationStep
  <1> QED
    BY <1>1, <1>6, <1>13, <1>14, <1>16, <1>17, <1>18, <1>19 DEF Next

\* For any timeout and any clock drift the edit lock is a lease: it passes from
\* one user to another only by lapsing first.
THEOREM LeaseRefinement == Spec => LeaseImplemented
  <1>1. Init => Lease!Init
    BY DEF Init, Lease!Init, LeaseHolders, LeaseHolder, Live
  <1>2. TypeOK /\ [Next]_vars => [Lease!Next]_LeaseHolders
    BY LeaseStep
  <1> QED
    BY <1>1, <1>2, TypeCorrect, PTL DEF Spec, LeaseImplemented, Lease!Spec

-----------------------------------------------------------------------------
(* What open edit views can and cannot do to a request.                    *)
(*                                                                         *)
(* A request never loses its officer again, and the worker meets no lock.  *)
(* Neither is inductive: the row alone does not show why a save cannot put *)
(* NULL back.  What does is what the open views have seen.                 *)
(*                                                                         *)
(* The lock that a view took stands until it expires, and as long as no    *)
(* view overstays its lock, assigned_to names the officer of the open      *)
(* assignment.  Both go by what a step can do to one row.                  *)

\* A row has an officer from its first assignment on, and no lock before.
Officered(r) ==
    /\ (r.workflow_status # "Submitted" <=> r.assigned_to # Null)
    /\ (r.assigned_to = Null => r.locked_by = Null)

\* Every open view belongs to a created request that had an officer when the
\* details view loaded it, and the edit view has loaded one to write back.
ViewsSawAnOfficer ==
    \A s \in Sessions : view[s].step # "closed" =>
        /\ presence[view[s].mr] # "absent"
        /\ (Live(view[s].mr) => row[view[s].mr].assigned_to # Null)
        /\ (view[s].step \in {"editing", "saved"} => view[s].seen # Null)

OfficerInv ==
    /\ TypeOK
    /\ \A m \in Requests : Live(m) => Officered(row[m])
    /\ ViewsSawAnOfficer

\* q may replace r: it is officered if r was, and has an officer if r had one.
KeepsOfficer(r, q) ==
    Officered(r) => Officered(q) /\ (r.assigned_to # Null => q.assigned_to # Null)

-----------------------------------------------------------------------------
(* The row operators.                                                      *)

\* Assignment gives an officer; a lock or a save may only touch a row that has
\* one; nothing else matters to it.
LEMMA OperatorsKeepOfficer ==
    ASSUME NEW r \in Rows
    PROVE  /\ KeepsOfficer(r, r)
           /\ KeepsOfficer(r, Unlocked(r))
           /\ \A u, c : r.assigned_to # Null => KeepsOfficer(r, LockedFor(r, u, c))
           /\ \A o : r.assigned_to # Null /\ o # Null
                     => KeepsOfficer(r, [r EXCEPT !.assigned_to = o])
           /\ \A a, o : o # Null => KeepsOfficer(r, InAssignment(r, a, o))
           /\ KeepsOfficer(r, Archived(r))
           /\ KeepsOfficer(r, Restored(r))
  <1> USE DEF Rows, KeepsOfficer, Officered
  <1>1. KeepsOfficer(r, r)
    OBVIOUS
  <1>2. KeepsOfficer(r, Unlocked(r))
    BY DEF Unlocked
  <1>3. \A u, c : r.assigned_to # Null => KeepsOfficer(r, LockedFor(r, u, c))
    BY DEF LockedFor
  <1>4. \A o : r.assigned_to # Null /\ o # Null
               => KeepsOfficer(r, [r EXCEPT !.assigned_to = o])
    OBVIOUS
  <1>5. \A a, o : o # Null => KeepsOfficer(r, InAssignment(r, a, o))
    BY DEF InAssignment
  <1>6. KeepsOfficer(r, Archived(r))
    BY DEF Archived, Unlocked
  <1>7. KeepsOfficer(r, Restored(r))
    BY DEF Restored, Unlocked
  <1> QED
    BY <1>1, <1>2, <1>3, <1>4, <1>5, <1>6, <1>7

\* The purchasing workflow moves between states that all have an officer.
LEMMA WorkflowKeepsOfficer ==
    ASSUME NEW r \in Rows
    PROVE  /\ KeepsOfficer(r, StartPurchasingWork(r))
           /\ \A f \in BOOLEAN : KeepsOfficer(r, EvaluateCompleted(r, f))
           /\ \A q, b, f \in BOOLEAN :
                 KeepsOfficer(r, EvaluateWaitingSupplierQuote(r, q, b, f))
  <1>1. ASSUME NEW x \in Rows, NEW s \in PurchasingStates,
               x.workflow_status # "Submitted"
        PROVE  KeepsOfficer(x, WithStatus(x, s))
    BY <1>1 DEF KeepsOfficer, Officered, WithStatus, Rows, PurchasingStates
  <1>2. KeepsOfficer(r, StartPurchasingWork(r))
    BY <1>1, OperatorsKeepOfficer DEF StartPurchasingWork, PurchasingStates
  <1>3. ASSUME NEW x \in Rows, NEW f \in BOOLEAN
        PROVE  KeepsOfficer(x, EvaluateCompleted(x, f))
    BY <1>1, OperatorsKeepOfficer DEF EvaluateCompleted, PurchasingStates
  <1>4. ASSUME NEW q \in BOOLEAN, NEW b \in BOOLEAN, NEW f \in BOOLEAN
        PROVE  KeepsOfficer(r, EvaluateWaitingSupplierQuote(r, q, b, f))
    <2>1. CASE r.workflow_status = "In Progress"
      <3> DEFINE w == WithStatus(r, "Waiting Supplier Quote")
      <3>1. w \in Rows /\ KeepsOfficer(r, w)
        BY <2>1, <1>1, RowOperatorsType DEF PurchasingStates
      <3>2. KeepsOfficer(w, EvaluateCompleted(w, f))
        BY <3>1, <1>3
      <3>3. KeepsOfficer(r, EvaluateCompleted(w, f))
        BY <3>1, <3>2 DEF KeepsOfficer
      <3> QED
        BY <3>3, OperatorsKeepOfficer DEF EvaluateWaitingSupplierQuote
    <2>2. CASE r.workflow_status # "In Progress"
      BY <2>2, OperatorsKeepOfficer DEF EvaluateWaitingSupplierQuote
    <2> QED
      BY <2>1, <2>2
  <1> QED
    BY <1>2, <1>3, <1>4

-----------------------------------------------------------------------------
(* The steps.                                                              *)

\* What a step may do to the views without a word on officers: close them, or
\* move them on where they are, with an officer to write back when editing.
ViewsMoveOn ==
    \A s \in Sessions : view'[s].step # "closed" =>
        /\ view[s].step # "closed"
        /\ view'[s].mr = view[s].mr
        /\ (view'[s].step \in {"editing", "saved"} => view'[s].seen # Null)

\* Views that a step leaves alone have moved on, trivially.
LEMMA ViewsUntouched ==
    ASSUME OfficerInv, UNCHANGED view
    PROVE  ViewsMoveOn
  BY DEF OfficerInv, ViewsSawAnOfficer, ViewsMoveOn

\* A step that moves one view on has moved all on.
LEMMA OneViewMoves ==
    ASSUME OfficerInv, NEW s \in Sessions, NEW v,
           view' = [view EXCEPT ![s] = v],
           v.step # "closed" =>
              /\ view[s].step # "closed"
              /\ v.mr = view[s].mr
              /\ (v.step \in {"editing", "saved"} => v.seen # Null)
    PROVE  ViewsMoveOn
  <1>1. \A t \in Sessions : view'[t] = IF t = s THEN v ELSE view[t]
    BY DEF OfficerInv, TypeOK
  <1> QED
    BY <1>1 DEF OfficerInv, ViewsSawAnOfficer, ViewsMoveOn

\* Writing one row that keeps its officer keeps the invariant.
LEMMA OfficerWrite ==
    ASSUME OfficerInv, TypeOK', ViewsMoveOn, UNCHANGED presence,
           NEW m \in Requests, NEW r, Write(m, r),
           Live(m) => KeepsOfficer(row[m], r)
    PROVE  OfficerInv'
  <1>1. \A n \in Requests : row'[n] = IF n = m THEN r ELSE row[n]
    BY DEF Write, OfficerInv, TypeOK
  <1>2. \A n \in Requests : Live(n) =>
            /\ Officered(row'[n])
            /\ (row[n].assigned_to # Null => row'[n].assigned_to # Null)
    BY <1>1 DEF OfficerInv, KeepsOfficer
  <1>3. \A s \in Sessions : view[s].step # "closed" => view[s].mr \in Requests
    BY DEF OfficerInv, TypeOK
  <1>4. ViewsSawAnOfficer'
    BY <1>2, <1>3 DEF OfficerInv, ViewsSawAnOfficer, ViewsMoveOn, Live
  <1>5. \A n \in Requests : Live(n)' <=> Live(n)
    BY DEF Live
  <1>6. \A n \in Requests : Live(n)' => Officered(row[n])'
    BY <1>2, <1>5 DEF Officered
  <1> QED
    BY <1>4, <1>6 DEF OfficerInv

\* Moving views on while the rows stay keeps it as well.
LEMMA OfficerStay ==
    ASSUME OfficerInv, TypeOK', ViewsMoveOn, UNCHANGED <<presence, row>>
    PROVE  OfficerInv'
  <1>1. ViewsSawAnOfficer'
    BY DEF OfficerInv, ViewsSawAnOfficer, ViewsMoveOn, Live
  <1> QED
    BY <1>1 DEF OfficerInv, Live, Officered

\* The edit view's own steps.
LEMMA OfficerViewStep ==
    ASSUME OfficerInv, TypeOK', ViewStep
    PROVE  OfficerInv'
  <1>a. /\ \A m \in Requests : row[m] \in Rows
        /\ \A s \in Sessions : view[s] \in Views
        /\ \A s \in Sessions : view[s].step # "closed" => view[s].mr \in Requests
    BY DEF OfficerInv, TypeOK
  <1>b. ClosedView.step = "closed"
    BY DEF ClosedView
  <1>c. ASSUME NEW s \in Sessions, view' = [view EXCEPT ![s] = ClosedView]
        PROVE  ViewsMoveOn
    BY <1>b, <1>c, OneViewMoves
  <1>d. \A s \in Sessions : view[s].step # "closed" /\ Live(view[s].mr)
                            => row[view[s].mr].assigned_to # Null
    BY DEF OfficerInv, ViewsSawAnOfficer
  <1>1. ASSUME NEW s \in Sessions, NEW m \in Requests, OpenDetails(s, m)
        PROVE  OfficerInv'
    <2> DEFINE v == [ClosedView EXCEPT !.step = "details", !.mr = m]
    <2>1. v.step = "details" /\ v.mr = m
      BY DEF ClosedView
    <2>2. \A t \in Sessions : view'[t] = IF t = s THEN v ELSE view[t]
      BY <1>1 DEF OpenDetails, OfficerInv, TypeOK
    <2>3. row[m].assigned_to # Null
      BY <1>1, UsersAssumption, NullIsNoId DEF OpenDetails
    <2>4. UNCHANGED <<presence, row>> /\ presence[m] = "live"
      BY <1>1 DEF OpenDetails, Live
    <2>5. ViewsSawAnOfficer'
      BY <2>1, <2>2, <2>3, <2>4 DEF OfficerInv, ViewsSawAnOfficer, Live
    <2> QED
      BY <2>4, <2>5 DEF OfficerInv, Live, Officered
  <1>2. ASSUME NEW s \in Sessions, AskLockStatus(s) PROVE OfficerInv'
    <2>m. PICK m \in Requests : m = view[s].mr
      BY <1>2, <1>a DEF AskLockStatus
    <2> DEFINE v == [view[s] EXCEPT !.step = "checked"]
    <2>1. v.step = "checked" /\ v.mr = m
      BY <1>a, <2>m DEF Views
    <2>2. view' = [view EXCEPT ![s] = v] \/ view' = [view EXCEPT ![s] = ClosedView]
      BY <1>2, <1>a DEF AskLockStatus, OfficerInv, TypeOK
    <2>3. ViewsMoveOn
      BY <1>2, <1>c, <2>m, <2>1, <2>2, OneViewMoves DEF AskLockStatus
    <2> DEFINE r == IF Live(m) THEN StatusRead(row[m], Now(UserOf[s])) ELSE row[m]
    <2>4. KeepsOfficer(row[m], r)
      BY <1>a, OperatorsKeepOfficer DEF StatusRead
    <2>5. Write(m, r) /\ UNCHANGED presence
      BY <1>2, <2>m DEF AskLockStatus
    <2> HIDE DEF r
    <2> QED
      BY <2>3, <2>4, <2>5, OfficerWrite
  <1>3. ASSUME NEW s \in Sessions, LockForEdit(s) PROVE OfficerInv'
    <2>m. PICK m \in Requests : m = view[s].mr
      BY <1>3, <1>a DEF LockForEdit
    <2>1. CASE row' = row /\ view' = [view EXCEPT ![s] = ClosedView]
      BY <1>3, <1>c, <2>1, OfficerStay DEF LockForEdit
    <2>2. CASE /\ Write(m, LockedFor(row[m], UserOf[s], clock))
               /\ view' = [view EXCEPT ![s].step = "locked",
                                       ![s].until = clock + LockTimeout]
      <3> DEFINE v == [view[s] EXCEPT !.step = "locked", !.until = clock + LockTimeout]
      <3>1. v.step = "locked" /\ v.mr = m
        BY <1>a, <2>m DEF Views
      <3>2. view' = [view EXCEPT ![s] = v]
        BY <2>2, <1>a DEF OfficerInv, TypeOK
      <3>3. ViewsMoveOn
        BY <1>3, <2>m, <3>1, <3>2, OneViewMoves DEF LockForEdit
      <3>4. Live(m) => KeepsOfficer(row[m], LockedFor(row[m], UserOf[s], clock))
        BY <1>3, <1>a, <1>d, <2>m, OperatorsKeepOfficer DEF LockForEdit
      <3>5. UNCHANGED presence
        BY <1>3 DEF LockForEdit
      <3> QED
        BY <2>2, <3>3, <3>4, <3>5, OfficerWrite
    <2> QED
      BY <1>3, <2>m, <2>1, <2>2 DEF LockForEdit
  <1>4. ASSUME NEW s \in Sessions, LoadForEdit(s) PROVE OfficerInv'
    <2>1. CASE view' = [view EXCEPT ![s] = ClosedView]
      BY <1>4, <1>c, <2>1, OfficerStay DEF LoadForEdit
    <2>2. CASE /\ Live(view[s].mr)
               /\ view' = [view EXCEPT ![s].step = "editing",
                                       ![s].seen = row[view[s].mr].assigned_to]
      <3> DEFINE v == [view[s] EXCEPT !.step = "editing",
                                      !.seen = row[view[s].mr].assigned_to]
      <3>1. /\ v.step = "editing"
            /\ v.mr = view[s].mr
            /\ v.seen = row[view[s].mr].assigned_to
        BY <1>a DEF Views
      <3>2. view' = [view EXCEPT ![s] = v]
        BY <2>2, <1>a DEF OfficerInv, TypeOK
      <3>3. view[s].step # "closed" /\ v.seen # Null
        BY <1>4, <1>d, <2>2, <3>1 DEF LoadForEdit
      <3> HIDE DEF v
      <3>4. ViewsMoveOn
        BY <3>1, <3>2, <3>3, OneViewMoves
      <3> QED
        BY <1>4, <3>4, OfficerStay DEF LoadForEdit
    <2> QED
      BY <1>4, <2>1, <2>2 DEF LoadForEdit
  <1>5. ASSUME NEW s \in Sessions, Save(s) PROVE OfficerInv'
    <2>m. PICK m \in Requests : m = view[s].mr
      BY <1>5, <1>a DEF Save
    <2> DEFINE v == [view[s] EXCEPT !.step = "saved"]
               o == view[s].seen
    <2>1. v.step = "saved" /\ v.mr = m /\ v.seen = o
      BY <1>a, <2>m DEF Views
    <2>2. o # Null /\ row[m].assigned_to # Null
      BY <1>5, <1>d, <2>m DEF Save, OfficerInv, ViewsSawAnOfficer
    <2>3. view' = [view EXCEPT ![s] = v]
      BY <1>5, <1>a DEF Save, OfficerInv, TypeOK
    <2>4. ViewsMoveOn
      BY <1>5, <2>m, <2>1, <2>2, <2>3, OneViewMoves DEF Save
    <2>5. KeepsOfficer(row[m], [row[m] EXCEPT !.assigned_to = o])
      BY <1>a, <2>2, OperatorsKeepOfficer
    <2>6. Write(m, [row[m] EXCEPT !.assigned_to = o]) /\ UNCHANGED presence
      BY <1>5, <2>m DEF Save
    <2> QED
      BY <2>4, <2>5, <2>6, OfficerWrite
  <1>6. ASSUME NEW s \in Sessions, ReleaseLock(s) PROVE OfficerInv'
    <2>m. PICK m \in Requests : m = view[s].mr
      BY <1>6, <1>a DEF ReleaseLock
    <2>1. KeepsOfficer(row[m], UnlockedBy(m, UserOf[s]))
      BY <1>a, OperatorsKeepOfficer DEF UnlockedBy
    <2>2. Write(m, UnlockedBy(m, UserOf[s])) /\ UNCHANGED presence
      BY <1>6, <2>m DEF ReleaseLock
    <2>3. ViewsMoveOn
      BY <1>6, <1>c DEF ReleaseLock
    <2> QED
      BY <2>1, <2>2, <2>3, OfficerWrite
  <1>7. ASSUME NEW s \in Sessions, Abandon(s) PROVE OfficerInv'
    BY <1>7, <1>c, OfficerStay DEF Abandon
  <1> QED
    BY <1>1, <1>2, <1>3, <1>4, <1>5, <1>6, <1>7 DEF ViewStep

\* Creating a request disturbs no view: none is open on an id not yet used.
LEMMA OfficerCreateStep ==
    ASSUME OfficerInv, TypeOK', NEW m \in Requests, CreateRequest(m)
    PROVE  OfficerInv'
  <1>1. \A n \in Requests : row'[n] = IF n = m THEN NewRow(clock) ELSE row[n]
    BY DEF CreateRequest, Write, OfficerInv, TypeOK
  <1>2. \A n \in Requests :
          /\ presence'[n] = IF n = m THEN "live" ELSE presence[n]
          /\ presence[m] = "absent"
    BY DEF CreateRequest, OfficerInv, TypeOK
  <1>3. Officered(NewRow(clock))
    BY DEF Officered, NewRow
  <1>4. \A s \in Sessions :
          view[s].step # "closed" => view[s].mr \in Requests /\ view[s].mr # m
    BY <1>2 DEF OfficerInv, TypeOK, ViewsSawAnOfficer
  <1>5. ViewsSawAnOfficer'
    BY <1>1, <1>2, <1>4
    DEF CreateRequest, OfficerInv, ViewsSawAnOfficer, Live
  <1>6. \A n \in Requests : Live(n)' => Officered(row[n])'
    BY <1>1, <1>2, <1>3 DEF OfficerInv, Live, Officered
  <1> QED
    BY <1>5, <1>6 DEF OfficerInv

\* Deleting a request only takes its row out of consideration.
LEMMA OfficerDeleteStep ==
    ASSUME OfficerInv, TypeOK', NEW u \in Users, NEW m \in Requests, Delete(u, m)
    PROVE  OfficerInv'
  <1>1. row' = row /\ view' = view
    BY DEF Delete
  <1>2. \A n \in Requests :
          presence'[n] = IF n = m THEN "deleted" ELSE presence[n]
    BY DEF Delete, OfficerInv, TypeOK
  <1>3. \A s \in Sessions : view[s].step # "closed" => view[s].mr \in Requests
    BY DEF OfficerInv, TypeOK
  <1>4. ViewsSawAnOfficer'
    BY <1>1, <1>2, <1>3 DEF OfficerInv, ViewsSawAnOfficer, Live
  <1>5. \A n \in Requests : Live(n)' => Officered(row[n])'
    BY <1>1, <1>2 DEF OfficerInv, Live, Officered
  <1> QED
    BY <1>4, <1>5 DEF OfficerInv

\* Every step of the desk leaves assigned requests assigned.
LEMMA OfficerStep == OfficerInv /\ [Next]_vars => OfficerInv'
  <1> SUFFICES ASSUME OfficerInv, [Next]_vars PROVE OfficerInv'
    OBVIOUS
  <1>a. TypeOK'
    BY TypeStep DEF OfficerInv
  <1>b. \A m \in Requests : row[m] \in Rows
    BY DEF OfficerInv, TypeOK
  <1>c. ASSUME NEW m \in Requests, NEW r, KeepsOfficer(row[m], r), Write(m, r),
               UNCHANGED <<presence, view>>
        PROVE  OfficerInv'
    BY <1>a, <1>c, ViewsUntouched, OfficerWrite
  <1>d. \A o \in Officers : o # Null
    BY UsersAssumption, NullIsNoId
  <1>1. CASE ViewStep
    BY <1>1, <1>a, OfficerViewStep
  <1>2. ASSUME NEW m \in Requests, CreateRequest(m) PROVE OfficerInv'
    BY <1>2, <1>a, OfficerCreateStep
  <1>3. ASSUME NEW u \in Users, NEW m \in Requests, RefreshBanner(u, m)
        PROVE  OfficerInv'
    BY <1>3, <1>b, <1>c, OperatorsKeepOfficer DEF RefreshBanner, StatusRead
  <1>4. CASE AssignmentStep
    <2>1. ASSUME NEW u \in Users, NEW m \in Requests, NEW o \in Officers,
                 Assign(u, m, o)
          PROVE  OfficerInv'
      BY <2>1, <1>b, <1>c, <1>d, OperatorsKeepOfficer DEF Assign
    <2>2. ASSUME NEW u \in Users, NEW old \in AsgIds, NEW o \in Officers,
                 Reassign(u, old, o)
          PROVE  OfficerInv'
      <3>1. PICK m \in Requests : m = assignment[old].mr
        BY <2>2 DEF Reassign, OfficerInv, TypeOK
      <3> QED
        BY <2>2, <3>1, <1>b, <1>c, <1>d, OperatorsKeepOfficer DEF Reassign
    <2>3. ASSUME NEW m \in Requests, NEW o \in Officers, AutoAssign(m, o)
          PROVE  OfficerInv'
      BY <2>3, <1>b, <1>c, <1>d, OperatorsKeepOfficer DEF AutoAssign
    <2> QED
      BY <1>4, <2>1, <2>2, <2>3 DEF AssignmentStep
  <1>5. CASE PurchasingStep
    <2> SUFFICES ASSUME NEW u \in Users, NEW m \in Requests,
                        \/ RecordClarification(u, m)
                        \/ ResolveClarification(u, m)
                        \/ ReceiveQuotation(u, m)
                        \/ ReceiveFiles(u, m)
                 PROVE  OfficerInv'
      BY <1>5 DEF PurchasingStep
    <2>1. CASE RecordClarification(u, m)
      BY <2>1, <1>b, <1>c, WorkflowKeepsOfficer DEF RecordClarification
    <2>2. CASE ResolveClarification(u, m)
      BY <2>2, <1>b, <1>c, WorkflowKeepsOfficer DEF ResolveClarification
    <2>3. CASE ReceiveQuotation(u, m)
      <3>1. PICK blocked, allFiles \in BOOLEAN :
              Write(m, EvaluateCompleted(
                           EvaluateWaitingSupplierQuote(
                               StartPurchasingWork(row[m]), TRUE, blocked, FALSE),
                           allFiles))
        BY <2>3 DEF ReceiveQuotation
      <3> DEFINE r1 == StartPurchasingWork(row[m])
                 r2 == EvaluateWaitingSupplierQuote(r1, TRUE, blocked, FALSE)
                 r3 == EvaluateCompleted(r2, allFiles)
      <3>2. r1 \in Rows /\ KeepsOfficer(row[m], r1)
        BY <1>b, WorkflowOperatorsType, WorkflowKeepsOfficer
      <3>3. r2 \in Rows /\ KeepsOfficer(r1, r2)
        BY <3>2, WorkflowOperatorsType, WorkflowKeepsOfficer
      <3>4. KeepsOfficer(r2, r3)
        BY <3>3, WorkflowKeepsOfficer
      <3>5. KeepsOfficer(row[m], r3)
        BY <3>2, <3>3, <3>4 DEF KeepsOfficer
      <3> QED
        BY <2>3, <3>1, <3>5, <1>c DEF ReceiveQuotation
    <2>4. CASE ReceiveFiles(u, m)
      BY <2>4, <1>b, <1>c, WorkflowKeepsOfficer DEF ReceiveFiles
    <2> QED
      BY <2>1, <2>2, <2>3, <2>4
  <1>6. CASE AdministrationStep
    <2>1. ASSUME NEW u \in Users, NEW m \in Requests,
                 ForceUnlock(u, m) \/ Archive(u, m) \/ Restore(u, m)
          PROVE  OfficerInv'
      BY <2>1, <1>b, <1>c, OperatorsKeepOfficer DEF ForceUnlock, Archive, Restore
    <2>2. ASSUME NEW u \in Users, NEW m \in Requests, Delete(u, m) PROVE OfficerInv'
      BY <2>2, <1>a, OfficerDeleteStep
    <2> QED
      BY <1>6, <2>1, <2>2 DEF AdministrationStep
  <1>7. CASE Tick \/ UNCHANGED vars
    BY <1>7, <1>a, ViewsUntouched, OfficerStay DEF Tick, vars
  <1> QED
    BY <1>1, <1>2, <1>3, <1>4, <1>5, <1>6, <1>7 DEF Next

\* The invariant on rows and views holds in every reachable state.
LEMMA OfficerInvHolds == Spec => []OfficerInv
  <1>1. Init => OfficerInv
    <2> SUFFICES ASSUME Init PROVE OfficerInv
      OBVIOUS
    <2>1. TypeOK
      BY InvInit DEF IInv
    <2>2. \A m \in Requests : ~Live(m)
      BY DEF Init, Live
    <2>3. \A s \in Sessions : view[s].step = "closed"
      BY DEF Init, ClosedView
    <2> QED
      BY <2>1, <2>2, <2>3 DEF OfficerInv, ViewsSawAnOfficer
  <1> QED
    BY <1>1, OfficerStep, PTL DEF Spec

\* Once assigned, a request always names an officer who can work on it.
THEOREM OfficerKept == Spec => []WorkHasAnOfficer
  <1>1. OfficerInv => WorkHasAnOfficer
    BY DEF OfficerInv, Officered, WorkHasAnOfficer
  <1> QED
    BY <1>1, OfficerInvHolds, PTL

\* The worker may ignore the edit lock: what it can claim is not locked.
THEOREM WorkerUnlocked == Spec => []WorkerMeetsNoLock
  <1>1. OfficerInv => WorkerMeetsNoLock
    BY DEF OfficerInv, Officered, WorkerMeetsNoLock
  <1> QED
    BY <1>1, OfficerInvHolds, PTL

-----------------------------------------------------------------------------
(* What a step can do to one row.                                          *)

SameLock(r, q) ==
    q.locked_by = r.locked_by /\ q.lock_expires_at = r.lock_expires_at

SameOfficer(r, q) == q.assigned_to = r.assigned_to

\* Without administrators a row that exists is written in one of six ways.
KindsOfWrite(m) ==
    \/ SameLock(row[m], row'[m]) /\ SameOfficer(row[m], row'[m])
    \/ SameOfficer(row[m], row'[m]) /\ \E u \in Users : LockExpired(row[m], Now(u))
    \/ /\ SameOfficer(row[m], row'[m])
       /\ \E s \in Sessions :
             LockForEdit(s) /\ ~HeldByOther(row[m], UserOf[s], Now(UserOf[s]))
    \/ /\ SameOfficer(row[m], row'[m])
       /\ \E s \in Sessions : ReleaseLock(s) /\ row[m].locked_by = UserOf[s]
    \/ /\ SameLock(row[m], row'[m])
       /\ \E s \in Sessions : /\ Save(s) /\ view[s].mr = m
                              /\ row'[m].assigned_to = view[s].seen
    \/ /\ SameLock(row[m], row'[m])
       /\ AssignmentStep /\ Live(m)
       /\ \/ row[m].assigned_to = Null
          \/ \E u \in Managers : ~HeldByOther(row[m], u, Now(u))

\* Which columns the row operators leave alone.
LEMMA OperatorsKeepColumns ==
    ASSUME NEW r \in Rows
    PROVE  /\ SameOfficer(r, Unlocked(r))
           /\ \A u, c : SameOfficer(r, LockedFor(r, u, c))
           /\ \A o : SameLock(r, [r EXCEPT !.assigned_to = o])
           /\ \A o : [r EXCEPT !.assigned_to = o].assigned_to = o
           /\ \A a, o : SameLock(r, InAssignment(r, a, o))
           /\ \A s : SameLock(r, WithStatus(r, s)) /\ SameOfficer(r, WithStatus(r, s))
  BY DEF Rows, SameLock, SameOfficer, Unlocked, LockedFor, InAssignment, WithStatus

\* The workflow transitions leave the lock and the officer alone.
LEMMA WorkflowKeepsColumns ==
    ASSUME NEW r \in Rows
    PROVE  /\ SameLock(r, StartPurchasingWork(r))
           /\ SameOfficer(r, StartPurchasingWork(r))
           /\ \A f \in BOOLEAN : /\ SameLock(r, EvaluateCompleted(r, f))
                                 /\ SameOfficer(r, EvaluateCompleted(r, f))
           /\ \A q, b, f \in BOOLEAN :
                 /\ SameLock(r, EvaluateWaitingSupplierQuote(r, q, b, f))
                 /\ SameOfficer(r, EvaluateWaitingSupplierQuote(r, q, b, f))
  <1> USE DEF SameLock, SameOfficer
  <1>1. ASSUME NEW x \in Rows, NEW f \in BOOLEAN
        PROVE  /\ SameLock(x, EvaluateCompleted(x, f))
               /\ SameOfficer(x, EvaluateCompleted(x, f))
    BY OperatorsKeepColumns DEF EvaluateCompleted
  <1>2. SameLock(r, StartPurchasingWork(r)) /\ SameOfficer(r, StartPurchasingWork(r))
    BY OperatorsKeepColumns DEF StartPurchasingWork
  <1>3. ASSUME NEW q \in BOOLEAN, NEW b \in BOOLEAN, NEW f \in BOOLEAN
        PROVE  /\ SameLock(r, EvaluateWaitingSupplierQuote(r, q, b, f))
               /\ SameOfficer(r, EvaluateWaitingSupplierQuote(r, q, b, f))
    <2> DEFINE w == WithStatus(r, "Waiting Supplier Quote")
    <2>1. w \in Rows /\ SameLock(r, w) /\ SameOfficer(r, w)
      BY RowOperatorsType, OperatorsKeepColumns DEF PurchasingStates
    <2>2. SameLock(w, EvaluateCompleted(w, f)) /\ SameOfficer(w, EvaluateCompleted(w, f))
      BY <2>1, <1>1
    <2>3. SameLock(r, EvaluateCompleted(w, f)) /\ SameOfficer(r, EvaluateCompleted(w, f))
      BY <2>1, <2>2
    <2> HIDE DEF w
    <2> QED
      BY <2>3 DEF EvaluateWaitingSupplierQuote, w
  <1> QED
    BY <1>1, <1>2, <1>3

\* Every step writes a row in one of the six ways.
LEMMA StepWrites ==
    ASSUME TypeOK, [Next]_vars, Administrators = {},
           NEW m \in Requests, presence[m] # "absent"
    PROVE  KindsOfWrite(m)
  <1>a. /\ \A n \in Requests : row[n] \in Rows
        /\ \A s \in Sessions : view[s].step # "closed" => view[s].mr \in Requests
        /\ \A s \in Sessions : UserOf[s] \in Users
    BY UsersAssumption DEF TypeOK
  <1>b. ASSUME NEW n \in Requests, NEW r, Write(n, r)
        PROVE  row'[m] = IF m = n THEN r ELSE row[m]
    BY <1>b DEF TypeOK, Write
  <1>c. CASE SameLock(row[m], row'[m]) /\ SameOfficer(row[m], row'[m])
    BY <1>c DEF KindsOfWrite
  <1>d. SameLock(row[m], row[m]) /\ SameOfficer(row[m], row[m])
    BY DEF SameLock, SameOfficer
  <1>e. CASE UNCHANGED row
    BY <1>c, <1>d, <1>e
  <1>f. ASSUME NEW n \in Requests, NEW r, Write(n, r),
               SameLock(row[n], r), SameOfficer(row[n], r)
        PROVE  KindsOfWrite(m)
    BY <1>b, <1>c, <1>d, <1>f
  <1>g. ASSUME NEW n \in Requests, NEW u \in Users, Write(n, StatusRead(row[n], Now(u)))
        PROVE  KindsOfWrite(m)
    <2>1. CASE n = m /\ LockExpired(row[m], Now(u))
      <3>1. row'[m] = Unlocked(row[m])
        BY <1>b, <1>g, <2>1 DEF StatusRead
      <3> QED
        BY <3>1, <2>1, <1>a, OperatorsKeepColumns DEF KindsOfWrite
    <2>2. CASE ~(n = m /\ LockExpired(row[m], Now(u)))
      <3>1. row'[m] = row[m]
        BY <1>b, <1>g, <2>2 DEF StatusRead
      <3> QED
        BY <3>1, <1>c, <1>d
    <2> QED
      BY <2>1, <2>2
  <1>h. ASSUME NEW n \in Requests, NEW a \in AsgIds, NEW o \in Officers,
               Write(n, InAssignment(row[n], a, o)), AssignmentStep, Live(n),
               \/ row[n].assigned_to = Null
               \/ \E u \in Managers : ~HeldByOther(row[n], u, Now(u))
        PROVE  KindsOfWrite(m)
    <2>1. CASE n = m
      <3>1. SameLock(row[m], row'[m])
        BY <1>a, <1>b, <1>h, <2>1, OperatorsKeepColumns
      <3> QED
        BY <3>1, <1>h, <2>1 DEF KindsOfWrite
    <2>2. CASE n # m
      BY <1>b, <1>c, <1>d, <1>h, <2>2
    <2> QED
      BY <2>1, <2>2
  <1>1. ASSUME NEW n \in Requests, CreateRequest(n) PROVE KindsOfWrite(m)
    <2>1. n # m
      BY <1>1 DEF CreateRequest
    <2> QED
      BY <1>1, <2>1, <1>b, <1>c, <1>d DEF CreateRequest
  <1>2. ASSUME NEW s \in Sessions, AskLockStatus(s) PROVE KindsOfWrite(m)
    <2>1. PICK n \in Requests : n = view[s].mr
      BY <1>2, <1>a DEF AskLockStatus
    <2>2. CASE Live(n)
      BY <1>2, <2>1, <2>2, <1>a, <1>g DEF AskLockStatus
    <2>3. CASE ~Live(n)
      BY <1>2, <2>1, <2>3, <1>d, <1>f DEF AskLockStatus, SameLock, SameOfficer
    <2> QED
      BY <2>2, <2>3
  <1>3. ASSUME NEW s \in Sessions, LockForEdit(s) PROVE KindsOfWrite(m)
    <2> DEFINE u == UserOf[s]
    <2>1. PICK n \in Requests : n = view[s].mr
      BY <1>3, <1>a DEF LockForEdit
    <2>2. CASE /\ n = m
               /\ ~HeldByOther(row[m], u, Now(u))
               /\ Write(n, LockedFor(row[n], u, clock))
      <3>1. SameOfficer(row[m], row'[m])
        BY <2>2, <1>a, <1>b, OperatorsKeepColumns
      <3> QED
        BY <3>1, <1>3, <2>2 DEF KindsOfWrite
    <2>3. CASE n # m /\ Write(n, LockedFor(row[n], u, clock))
      BY <2>3, <1>b, <1>c, <1>d
    <2> QED
      BY <1>3, <2>1, <2>2, <2>3, <1>e DEF LockForEdit
  <1>4. ASSUME NEW s \in Sessions, Save(s) PROVE KindsOfWrite(m)
    <2>1. PICK n \in Requests : n = view[s].mr
      BY <1>4, <1>a DEF Save
    <2>2. CASE n = m
      <3> DEFINE o == view[s].seen
      <3>1. row'[m] = [row[m] EXCEPT !.assigned_to = o]
        BY <1>4, <2>1, <2>2, <1>b DEF Save
      <3> HIDE DEF o
      <3>2. SameLock(row[m], row'[m]) /\ row'[m].assigned_to = o
        BY <3>1, <1>a DEF SameLock, Rows
      <3> QED
        BY <3>2, <1>4, <2>1, <2>2 DEF KindsOfWrite, o
    <2>3. CASE n # m
      BY <1>4, <2>1, <2>3, <1>b, <1>c, <1>d DEF Save
    <2> QED
      BY <2>2, <2>3
  <1>5. ASSUME NEW s \in Sessions, ReleaseLock(s) PROVE KindsOfWrite(m)
    <2>1. PICK n \in Requests : n = view[s].mr
      BY <1>5, <1>a DEF ReleaseLock
    <2>2. CASE n = m /\ row[m].locked_by = UserOf[s] /\ Live(m)
      <3>1. row'[m] = Unlocked(row[m])
        BY <1>5, <2>1, <2>2, <1>b DEF ReleaseLock, UnlockedBy
      <3> QED
        BY <3>1, <1>5, <2>2, <1>a, OperatorsKeepColumns DEF KindsOfWrite
    <2>3. CASE ~(n = m /\ row[m].locked_by = UserOf[s] /\ Live(m))
      <3>1. row'[m] = row[m]
        BY <1>5, <2>1, <2>3, <1>b DEF ReleaseLock, UnlockedBy
      <3> QED
        BY <3>1, <1>c, <1>d
    <2> QED
      BY <2>2, <2>3
  <1>6. CASE ViewStep
    <2>1. ASSUME NEW s \in Sessions,
                 \/ \E n \in Requests : OpenDetails(s, n)
                 \/ LoadForEdit(s)
                 \/ Abandon(s)
          PROVE  UNCHANGED row
      BY <2>1 DEF OpenDetails, LoadForEdit, Abandon
    <2> QED
      BY <1>6, <2>1, <1>2, <1>3, <1>4, <1>5, <1>e DEF ViewStep
  <1>7. ASSUME NEW u \in Users, NEW n \in Requests, RefreshBanner(u, n)
        PROVE  KindsOfWrite(m)
    BY <1>7, <1>g DEF RefreshBanner
  <1>8. CASE AssignmentStep
    <2>1. ASSUME NEW u \in Users, NEW n \in Requests, NEW o \in Officers, Assign(u, n, o)
          PROVE  KindsOfWrite(m)
      BY <1>8, <2>1, <1>h DEF Assign, BlockedByEditLock
    <2>2. ASSUME NEW u \in Users, NEW old \in AsgIds, NEW o \in Officers,
                 Reassign(u, old, o)
          PROVE  KindsOfWrite(m)
      <3>1. PICK n \in Requests : n = assignment[old].mr
        BY <2>2 DEF Reassign, TypeOK
      <3> QED
        BY <1>8, <2>2, <3>1, <1>h DEF Reassign, BlockedByEditLock
    <2>3. ASSUME NEW n \in Requests, NEW o \in Officers, AutoAssign(n, o)
          PROVE  KindsOfWrite(m)
      BY <1>8, <2>3, <1>h DEF AutoAssign, DueForAutoAssignment
    <2> QED
      BY <1>8, <2>1, <2>2, <2>3 DEF AssignmentStep
  <1>9. CASE PurchasingStep
    <2> SUFFICES ASSUME NEW u \in Users, NEW n \in Requests,
                        \/ RecordClarification(u, n)
                        \/ ResolveClarification(u, n)
                        \/ ReceiveQuotation(u, n)
                        \/ ReceiveFiles(u, n)
                 PROVE  KindsOfWrite(m)
      BY <1>9 DEF PurchasingStep
    <2>1. CASE RecordClarification(u, n)
      BY <2>1, <1>a, <1>f, WorkflowKeepsColumns DEF RecordClarification
    <2>2. CASE ResolveClarification(u, n)
      BY <2>2, <1>a, <1>f, WorkflowKeepsColumns DEF ResolveClarification
    <2>3. CASE ReceiveQuotation(u, n)
      <3>1. PICK blocked, allFiles \in BOOLEAN :
              Write(n, EvaluateCompleted(
                           EvaluateWaitingSupplierQuote(
                               StartPurchasingWork(row[n]), TRUE, blocked, FALSE),
                           allFiles))
        BY <2>3 DEF ReceiveQuotation
      <3> DEFINE r1 == StartPurchasingWork(row[n])
                 r2 == EvaluateWaitingSupplierQuote(r1, TRUE, blocked, FALSE)
                 r3 == EvaluateCompleted(r2, allFiles)
      <3>2. r1 \in Rows /\ SameLock(row[n], r1) /\ SameOfficer(row[n], r1)
        BY <1>a, WorkflowOperatorsType, WorkflowKeepsColumns
      <3>3. r2 \in Rows /\ SameLock(r1, r2) /\ SameOfficer(r1, r2)
        BY <3>2, WorkflowOperatorsType, WorkflowKeepsColumns
      <3>4. SameLock(r2, r3) /\ SameOfficer(r2, r3)
        BY <3>3, WorkflowKeepsColumns
      <3>5. Write(n, r3)
        BY <3>1
      <3> HIDE DEF r1, r2, r3
      <3>6. SameLock(row[n], r3) /\ SameOfficer(row[n], r3)
        BY <3>2, <3>3, <3>4 DEF SameLock, SameOfficer
      <3> QED
        BY <3>5, <3>6, <1>f
    <2>4. CASE ReceiveFiles(u, n)
      BY <2>4, <1>a, <1>f, WorkflowKeepsColumns DEF ReceiveFiles
    <2> QED
      BY <2>1, <2>2, <2>3, <2>4
  <1>10. CASE AdministrationStep
    BY <1>10 DEF AdministrationStep, ForceUnlock, Archive, Restore, Delete
  <1>11. CASE Tick \/ UNCHANGED vars
    BY <1>11, <1>e DEF Tick, vars
  <1> QED
    BY <1>1, <1>6, <1>7, <1>8, <1>9, <1>10, <1>11 DEF Next

-----------------------------------------------------------------------------
(* Leases hold.                                                            *)

\* No two open views are of one user.
OneViewPerUser == \A s, t \in Sessions : UserOf[s] = UserOf[t] => s = t

Holding(s) == view[s].step \in {"locked", "editing", "saved"}

\* The clock does not go back.
LEMMA ClockForward ==
    ASSUME TypeOK, [Next]_vars
    PROVE  clock' \in Nat /\ clock' >= clock
  <1>1. clock \in Nat
    BY DEF TypeOK
  <1>2. CASE Tick
    BY <1>1, <1>2 DEF Tick
  <1>3. CASE UNCHANGED clock
    BY <1>1, <1>3
  <1>4. ViewStep => UNCHANGED clock
    BY DEF ViewStep, OpenDetails, AskLockStatus, LockForEdit, LoadForEdit, Save,
           ReleaseLock, Abandon
  <1>5. AssignmentStep \/ PurchasingStep => UNCHANGED clock
    BY DEF AssignmentStep, Assign, Reassign, AutoAssign, PurchasingStep,
           RecordClarification, ResolveClarification, ReceiveQuotation, ReceiveFiles
  <1>6. AdministrationStep => UNCHANGED clock
    BY DEF AdministrationStep, ForceUnlock, Archive, Restore, Delete
  <1> QED
    BY <1>2, <1>3, <1>4, <1>5, <1>6
    DEF Next, vars, CreateRequest, RefreshBanner

\* A view that holds a lock after a step got it in that step, or is where it
\* was, with the same request and lock; what it saw it saw before, or just now.
LEMMA ViewGoesOn ==
    ASSUME TypeOK, [Next]_vars, NEW s \in Sessions, Holding(s)', ~LockForEdit(s)
    PROVE  /\ Holding(s)
           /\ ~ReleaseLock(s)
           /\ view'[s].mr = view[s].mr
           /\ view'[s].until = view[s].until
           /\ view'[s].step = "editing" =>
                 \/ LoadForEdit(s) /\ view'[s].seen = row[view[s].mr].assigned_to
                 \/ view[s].step = "editing" /\ view'[s].seen = view[s].seen /\ ~Save(s)
  <1>a. /\ \A t \in Sessions : view[t] \in Views
        /\ view \in [Sessions -> Views]
    BY DEF TypeOK
  <1>b. ClosedView.step = "closed"
    BY DEF ClosedView
  <1>c. ASSUME NEW v, view' = [view EXCEPT ![s] = v] PROVE view'[s] = v
    BY <1>a, <1>c
  <1>d. ~ReleaseLock(s)
    <2>1. ReleaseLock(s) => view'[s] = ClosedView
      BY <1>c DEF ReleaseLock
    <2> QED
      BY <2>1, <1>b DEF Holding
  <1>e. Save(s) => view'[s] = [view[s] EXCEPT !.step = "saved"]
    BY <1>a DEF Save
  <1>f. Save(s) => view'[s].step = "saved"
    BY <1>a, <1>e DEF Views
  <1>1. CASE view'[s] = view[s]
    <2>1. ~LoadForEdit(s) \/ view'[s].step # "editing"
      BY <1>1 DEF LoadForEdit
    <2> QED
      BY <1>1, <1>d, <1>f, <2>1 DEF Holding
  <1>2. ASSUME NEW t \in Sessions,
               \/ \E m \in Requests : OpenDetails(t, m)
               \/ AskLockStatus(t) \/ LockForEdit(t) \/ LoadForEdit(t)
               \/ Save(t) \/ ReleaseLock(t) \/ Abandon(t),
               t # s
        PROVE  view'[s] = view[s]
    BY <1>2, <1>a DEF OpenDetails, AskLockStatus, LockForEdit, LoadForEdit, Save,
                      ReleaseLock, Abandon
  <1>3. ~\E m \in Requests : OpenDetails(s, m)
    <2>1. ASSUME NEW m \in Requests, OpenDetails(s, m)
          PROVE  view'[s].step = "details"
      BY <2>1, <1>c DEF OpenDetails, ClosedView
    <2> QED
      BY <2>1 DEF Holding
  <1>4. ~AskLockStatus(s)
    <2>1. AskLockStatus(s) => view'[s].step \in {"checked", "closed"}
      <3>1. [view[s] EXCEPT !.step = "checked"].step = "checked"
        BY <1>a DEF Views
      <3> QED
        BY <3>1, <1>a, <1>b DEF AskLockStatus
    <2> QED
      BY <2>1 DEF Holding
  <1>5. ~Abandon(s)
    BY <1>b, <1>c DEF Abandon, Holding
  <1>6. CASE LoadForEdit(s)
    <2> DEFINE v == [view[s] EXCEPT !.step = "editing",
                                    !.seen = row[view[s].mr].assigned_to]
    <2>1. view'[s] = v
      BY <1>6, <1>a, <1>b DEF LoadForEdit, Holding
    <2>2. v.mr = view[s].mr /\ v.until = view[s].until
          /\ v.seen = row[view[s].mr].assigned_to
      BY <1>a DEF Views
    <2>3. view[s].step = "locked"
      BY <1>6 DEF LoadForEdit
    <2> HIDE DEF v
    <2> QED
      BY <1>6, <1>d, <2>1, <2>2, <2>3 DEF Holding
  <1>7. CASE Save(s)
    <2>1. view'[s].mr = view[s].mr /\ view'[s].until = view[s].until
      BY <1>7, <1>a, <1>e DEF Views
    <2>2. view[s].step = "editing" /\ view'[s].step = "saved"
      BY <1>7, <1>f DEF Save
    <2> QED
      BY <1>d, <2>1, <2>2 DEF Holding
  <1>8. CASE ViewStep
    BY <1>8, <1>1, <1>2, <1>3, <1>4, <1>5, <1>6, <1>7, <1>d DEF ViewStep
  <1>9. AssignmentStep \/ PurchasingStep => UNCHANGED view
    BY DEF AssignmentStep, Assign, Reassign, AutoAssign, PurchasingStep,
           RecordClarification, ResolveClarification, ReceiveQuotation, ReceiveFiles
  <1>10. AdministrationStep => UNCHANGED view
    BY DEF AdministrationStep, ForceUnlock, Archive, Restore, Delete
  <1> QED
    BY <1>1, <1>8, <1>9, <1>10 DEF Next, vars, CreateRequest, RefreshBanner, Tick

\* The lock columns that a view took.
HasItsLock(s) ==
    LET r == row[view[s].mr] IN
    r.locked_by = UserOf[s] /\ r.lock_expires_at = view[s].until

\* A lock that is unexpired for every client stands in the way of all others,
\* and no client clears it.
LEMMA LeaseStandsInTheWay ==
    ASSUME TypeOK, NEW s \in Sessions, view[s].step # "closed",
           Unexpired(s), HasItsLock(s), NEW u \in Users
    PROVE  LET r == row[view[s].mr] IN
           /\ ~LockExpired(r, Now(u))
           /\ u # UserOf[s] => HeldByOther(r, u, Now(u))
  <1> DEFINE r == row[view[s].mr]
  <1>1. /\ clock \in Int /\ Drift[u] \in Int /\ MaxDrift \in Int
        /\ Drift[u] <= MaxDrift
        /\ view[s].until \in Int
    BY TimeAssumption DEF TypeOK, Views
  <1>2. r.lock_expires_at = view[s].until /\ r.locked_by = UserOf[s]
    BY DEF HasItsLock
  <1>3. clock + Drift[u] < view[s].until
    BY <1>1 DEF Unexpired
  <1>4. UserOf[s] # Null
    BY UsersAssumption, NullIsNoId
  <1> HIDE DEF r
  <1> QED
    BY <1>1, <1>2, <1>3, <1>4 DEF LockExpired, HeldByOther, Now, r

LeaseInv == OfficerInv /\ LeaseHeld

\* Only its own view releases a lock, and only its expiry lets others have it.
LEMMA LeaseHeldStep ==
    ASSUME LeaseInv, [Next]_vars, Administrators = {}, OneViewPerUser
    PROVE  LeaseHeld'
  <1>a. TypeOK
    BY DEF LeaseInv, OfficerInv
  <1> SUFFICES ASSUME NEW s \in Sessions, Holding(s)', Unexpired(s)'
               PROVE  HasItsLock(s)'
    BY DEF LeaseHeld, Holding, HasItsLock
  <1>1. CASE LockForEdit(s)
    <2> DEFINE v == [view[s] EXCEPT !.step = "locked", !.until = clock + LockTimeout]
               m == view[s].mr
    <2>1. view[s] \in Views /\ m \in Requests /\ ClosedView.step = "closed"
      BY <1>1, <1>a DEF LockForEdit, TypeOK, ClosedView
    <2>2. view'[s] = v /\ Write(m, LockedFor(row[m], UserOf[s], clock))
      BY <1>1, <1>a, <2>1 DEF LockForEdit, Holding, TypeOK
    <2>3. v.mr = m /\ v.until = clock + LockTimeout
      BY <2>1 DEF Views
    <2>4. row'[m] = LockedFor(row[m], UserOf[s], clock) /\ row[m] \in Rows
      BY <1>a, <2>1, <2>2 DEF Write, TypeOK
    <2>5. /\ row'[m].locked_by = UserOf[s]
          /\ row'[m].lock_expires_at = clock + LockTimeout
      BY <2>4 DEF LockedFor, Rows
    <2> HIDE DEF v, m
    <2> QED
      BY <2>2, <2>3, <2>5 DEF HasItsLock
  <1>2. CASE ~LockForEdit(s)
    <2> DEFINE m == view[s].mr
    <2>1. /\ Holding(s) /\ ~ReleaseLock(s)
          /\ view'[s].mr = m
          /\ view'[s].until = view[s].until
      BY <1>2, <1>a, ViewGoesOn
    <2>2. m \in Requests /\ presence[m] # "absent"
      BY <2>1, <1>a DEF Holding, TypeOK, LeaseInv, OfficerInv, ViewsSawAnOfficer
    <2>3. Unexpired(s)
      <3>1. /\ clock \in Int /\ clock' \in Int /\ clock' >= clock
            /\ MaxDrift \in Int /\ view[s].until \in Int
        BY <1>a, ClockForward, TimeAssumption DEF TypeOK, Views
      <3> QED
        BY <2>1, <3>1 DEF Unexpired
    <2>4. HasItsLock(s)
      BY <2>1, <2>3 DEF LeaseInv, LeaseHeld, Holding, HasItsLock
    <2>5. row[m].locked_by = UserOf[s] /\ row[m].lock_expires_at = view[s].until
      BY <2>4 DEF HasItsLock
    <2>6. ASSUME NEW u \in Users
          PROVE  /\ ~LockExpired(row[m], Now(u))
                 /\ u # UserOf[s] => HeldByOther(row[m], u, Now(u))
      BY <2>1, <2>3, <2>4, <1>a, LeaseStandsInTheWay DEF Holding
    <2>7. KindsOfWrite(m)
      BY <2>2, <1>a, StepWrites
    <2> HIDE DEF m
    <2>8. ~\E t \in Sessions :
              LockForEdit(t) /\ ~HeldByOther(row[m], UserOf[t], Now(UserOf[t]))
      BY <1>2, <2>6, UsersAssumption DEF OneViewPerUser
    <2>9. ~\E t \in Sessions : ReleaseLock(t) /\ row[m].locked_by = UserOf[t]
      BY <2>1, <2>5 DEF OneViewPerUser
    <2>10. SameLock(row[m], row'[m])
      BY <2>6, <2>7, <2>8, <2>9 DEF KindsOfWrite
    <2> QED
      BY <2>1, <2>5, <2>10 DEF HasItsLock, SameLock
  <1> QED
    BY <1>1, <1>2

\* Where nobody has two views and administrators keep away, the lock that a view
\* took is on the row for as long as any client can see it unexpired.
THEOREM LeasesHold ==
    ASSUME Administrators = {}, OneViewPerUser
    PROVE  Spec => []LeaseHeld
  <1>1. Init => LeaseHeld
    BY DEF Init, LeaseHeld, ClosedView
  <1>2. LeaseInv /\ [Next]_vars => LeaseHeld'
    BY LeaseHeldStep
  <1> QED
    BY <1>1, <1>2, OfficerInvHolds, PTL DEF Spec, LeaseInv

-----------------------------------------------------------------------------
(* Views in time.                                                          *)

\* What an edit view will write back is what the row still says.
SeenStands ==
    \A s \in Sessions :
        view[s].step = "editing" => row[view[s].mr].assigned_to = view[s].seen

InTimeInv == IInv /\ LeaseInv /\ SeenStands /\ AssigneeAgrees

\* No edit view is open for somebody who may assign.
ManagersOnlyAssign == \A s \in Sessions : UserOf[s] \notin Managers

\* While a view holds its lock, nobody else changes whom the request is
\* assigned to: managers are refused, and the worker finds an officer there.
LEMMA OfficerUnderLock ==
    ASSUME LeaseInv, [Next]_vars, Administrators = {}, OneViewPerUser,
           ManagersOnlyAssign, ViewsInTime,
           NEW s \in Sessions, view[s].step \in {"locked", "editing"}, ~Save(s)
    PROVE  row'[view[s].mr].assigned_to = row[view[s].mr].assigned_to
  <1> DEFINE m == view[s].mr
  <1>1. /\ TypeOK /\ m \in Requests /\ presence[m] # "absent"
        /\ Live(m) => Officered(row[m])
    BY DEF LeaseInv, OfficerInv, TypeOK, ViewsSawAnOfficer
  <1>2. Unexpired(s) /\ HasItsLock(s)
    BY DEF ViewsInTime, LeaseInv, LeaseHeld, HasItsLock
  <1>3. row[m].locked_by = UserOf[s] /\ UserOf[s] # Null
    BY <1>2, UsersAssumption, NullIsNoId DEF HasItsLock
  <1>4. ASSUME NEW u \in Managers PROVE HeldByOther(row[m], u, Now(u))
    BY <1>1, <1>2, UsersAssumption, LeaseStandsInTheWay DEF ManagersOnlyAssign
  <1>5. ASSUME NEW t \in Sessions, Save(t), view[t].mr = m PROVE FALSE
    <2>1. view[t].step = "editing"
      BY <1>5 DEF Save
    <2>2. HasItsLock(t)
      BY <2>1 DEF ViewsInTime, LeaseInv, LeaseHeld, HasItsLock
    <2>3. row[m].locked_by = UserOf[t]
      BY <1>5, <2>2 DEF HasItsLock
    <2> QED
      BY <1>3, <1>5, <2>3 DEF OneViewPerUser
  <1>6. KindsOfWrite(m)
    BY <1>1, StepWrites
  <1> HIDE DEF m
  <1> QED
    BY <1>1, <1>3, <1>4, <1>5, <1>6 DEF KindsOfWrite, SameOfficer, Officered, m

\* So the save of a view in time writes back what is there.
LEMMA SeenStandsStep ==
    ASSUME InTimeInv, [Next]_vars, Administrators = {}, OneViewPerUser,
           ManagersOnlyAssign, ViewsInTime
    PROVE  SeenStands'
  <1> SUFFICES ASSUME NEW s \in Sessions, view'[s].step = "editing"
               PROVE  row'[view'[s].mr].assigned_to = view'[s].seen
    BY DEF SeenStands
  <1>1. TypeOK
    BY DEF InTimeInv, LeaseInv, OfficerInv
  <1>2. ~LockForEdit(s)
    <2>1. ASSUME LockForEdit(s) PROVE view'[s].step \in {"locked", "closed"}
      <3>1. /\ ClosedView.step = "closed"
            /\ [view[s] EXCEPT !.step = "locked", !.until = clock + LockTimeout].step
                 = "locked"
        BY <1>1 DEF ClosedView, TypeOK, Views
      <3> QED
        BY <1>1, <2>1, <3>1 DEF LockForEdit, TypeOK
    <2> QED
      BY <2>1
  <1>3. /\ view'[s].mr = view[s].mr
        /\ \/ LoadForEdit(s) /\ view'[s].seen = row[view[s].mr].assigned_to
           \/ view[s].step = "editing" /\ view'[s].seen = view[s].seen /\ ~Save(s)
    BY <1>1, <1>2, ViewGoesOn DEF Holding
  <1>4. CASE LoadForEdit(s)
    <2>1. row' = row /\ view[s].step = "locked"
      BY <1>4 DEF LoadForEdit
    <2> QED
      BY <1>3, <2>1
  <1>5. CASE ~LoadForEdit(s)
    <2>1. row'[view[s].mr].assigned_to = row[view[s].mr].assigned_to
      BY <1>3, <1>5, OfficerUnderLock DEF InTimeInv
    <2>2. row[view[s].mr].assigned_to = view[s].seen
      BY <1>3, <1>5 DEF InTimeInv, SeenStands
    <2> QED
      BY <1>3, <1>5, <2>1, <2>2
  <1> QED
    BY <1>4, <1>5

\* An assignment that is open after a step and names another officer than the
\* row did before was opened by that step.
LEMMA AgreesStep ==
    ASSUME InTimeInv, [Next]_vars, Administrators = {}
    PROVE  AssigneeAgrees'
  <1>a. /\ \A m \in Requests : row[m] \in Rows
        /\ assignment \in [AsgIds -> AssignmentRows]
        /\ row \in [Requests -> Rows]
        /\ \A b \in AsgIds : assignment[b].state # "unused" => assignment[b].mr \in Requests
    BY DEF InTimeInv, IInv, TypeOK
  <1>b. ASSUME NEW m \in Requests, NEW o \in Officers, NEW a \in AsgIds,
               \A b \in AsgIds : ActiveFor(b, m)' => b = a,
               \A b \in AsgIds \ {a} : \A n \in Requests \ {m} :
                   ActiveFor(b, n)' => ActiveFor(b, n) /\ assignment'[b] = assignment[b],
               assignment'[a] = NewAssignment(m, o),
               Write(m, InAssignment(row[m], a, o))
        PROVE  AssigneeAgrees'
    <2>1. row'[m].assigned_to = o /\ \A n \in Requests \ {m} : row'[n] = row[n]
      BY <1>a, <1>b DEF Write, InAssignment, Rows
    <2>2. assignment'[a].officer = o /\ assignment'[a].mr = m
      BY <1>b DEF NewAssignment
    <2>3. ASSUME NEW n \in Requests, NEW b \in AsgIds, ActiveFor(b, n)'
          PROVE  row'[n].assigned_to = assignment'[b].officer
      <3>1. CASE n = m
        BY <1>b, <2>1, <2>2, <2>3, <3>1
      <3>2. CASE n # m
        <4>1. b # a
          BY <2>2, <2>3, <3>2 DEF ActiveFor
        <4>2. ActiveFor(b, n) /\ assignment'[b] = assignment[b] /\ row'[n] = row[n]
          BY <1>b, <2>1, <2>3, <3>2, <4>1
        <4> QED
          BY <4>2 DEF InTimeInv, AssigneeAgrees
      <3> QED
        BY <3>1, <3>2
    <2> QED
      BY <2>3 DEF AssigneeAgrees
  <1>1. ASSUME NEW m \in Requests, NEW o \in Officers, NEW a \in AsgIds,
               ~HasActiveAssignment(m),
               assignment' = [assignment EXCEPT ![a] = NewAssignment(m, o)],
               Write(m, InAssignment(row[m], a, o))
        PROVE  AssigneeAgrees'
    <2>1. \A b \in AsgIds :
            assignment'[b] = IF b = a THEN NewAssignment(m, o) ELSE assignment[b]
      BY <1>a, <1>1
    <2>2. \A b \in AsgIds : ActiveFor(b, m)' => b = a
      BY <1>1, <2>1 DEF HasActiveAssignment, ActiveFor
    <2>3. \A b \in AsgIds \ {a} : \A n \in Requests \ {m} :
             ActiveFor(b, n)' => ActiveFor(b, n) /\ assignment'[b] = assignment[b]
      BY <2>1 DEF ActiveFor
    <2> QED
      BY <1>1, <1>b, <2>1, <2>2, <2>3
  <1>2. ASSUME NEW u \in Users, NEW old \in AsgIds, NEW o \in Officers,
               Reassign(u, old, o)
        PROVE  AssigneeAgrees'
    <2>1. PICK m \in Requests : m = assignment[old].mr
      BY <1>2, <1>a DEF Reassign
    <2>2. PICK a \in AsgIds :
            /\ assignment[a].state = "unused"
            /\ assignment' = [assignment EXCEPT ![old].state = "ended",
                                               ![a] = NewAssignment(m, o)]
            /\ Write(m, InAssignment(row[m], a, o))
      BY <1>2, <2>1 DEF Reassign
    <2>3. a # old /\ \A b \in AsgIds \ {old} : ~ActiveFor(b, m)
      BY <1>2, <2>1, <2>2 DEF Reassign
    <2>4. /\ assignment'[a] = NewAssignment(m, o)
          /\ assignment'[old].state = "ended"
          /\ \A b \in AsgIds \ {a, old} : assignment'[b] = assignment[b]
      BY <1>a, <2>2, <2>3 DEF AssignmentRows
    <2>5. \A b \in AsgIds : ActiveFor(b, m)' => b = a
      BY <2>3, <2>4 DEF ActiveFor
    <2>6. \A b \in AsgIds \ {a} : \A n \in Requests \ {m} :
             ActiveFor(b, n)' => ActiveFor(b, n) /\ assignment'[b] = assignment[b]
      BY <2>4 DEF ActiveFor
    <2> QED
      BY <1>b, <2>2, <2>4, <2>5, <2>6
  <1>3. CASE AssignmentStep
    <2>1. ASSUME NEW u \in Users, NEW m \in Requests, NEW o \in Officers, Assign(u, m, o)
          PROVE  AssigneeAgrees'
      BY <2>1, <1>1 DEF Assign
    <2>2. ASSUME NEW m \in Requests, NEW o \in Officers, AutoAssign(m, o)
          PROVE  AssigneeAgrees'
      BY <2>2, <1>1 DEF AutoAssign
    <2> QED
      BY <1>3, <1>2, <2>1, <2>2 DEF AssignmentStep
  <1>4. CASE ~AssignmentStep
    <2>1. UNCHANGED assignment
      <3>1. ViewStep \/ PurchasingStep => UNCHANGED assignment
        BY DEF ViewStep, OpenDetails, AskLockStatus, LockForEdit, LoadForEdit, Save,
               ReleaseLock, Abandon, PurchasingStep, RecordClarification,
               ResolveClarification, ReceiveQuotation, ReceiveFiles
      <3>2. ~AdministrationStep
        BY DEF AdministrationStep, ForceUnlock, Archive, Restore, Delete
      <3> QED
        BY <1>4, <3>1, <3>2 DEF Next, vars, CreateRequest, RefreshBanner, Tick
    <2> SUFFICES ASSUME NEW m \in Requests, NEW a \in AsgIds, ActiveFor(a, m)
                 PROVE  row'[m].assigned_to = assignment[a].officer
      BY <2>1 DEF AssigneeAgrees, ActiveFor
    <2>2. presence[m] # "absent"
      BY DEF InTimeInv, IInv, AssignmentContextSound, Live
    <2>3. KindsOfWrite(m)
      BY <2>2, StepWrites DEF InTimeInv, IInv
    <2>4. ASSUME NEW s \in Sessions, Save(s), view[s].mr = m
          PROVE  view[s].seen = row[m].assigned_to
      BY <2>4 DEF Save, InTimeInv, SeenStands
    <2>5. row'[m].assigned_to = row[m].assigned_to
      BY <1>4, <2>3, <2>4 DEF KindsOfWrite, SameOfficer
    <2> QED
      BY <2>5 DEF InTimeInv, AssigneeAgrees
  <1> QED
    BY <1>3, <1>4

\* As long as no view overstays the lock it took, assigned_to names the officer
\* of the open assignment: nobody has two views, managers edit no request
\* themselves and administrators keep away.
THEOREM AssigneeKeptInTime ==
    ASSUME Administrators = {}, OneViewPerUser, ManagersOnlyAssign
    PROVE  Spec => AssigneeKept
  <1>1. Init => SeenStands /\ AssigneeAgrees
    BY DEF Init, SeenStands, AssigneeAgrees, ActiveFor, ClosedView
  <1>2. InTimeInv /\ ViewsInTime /\ [Next]_vars => (SeenStands /\ AssigneeAgrees)'
    BY SeenStandsStep, AgreesStep
  <1>3. Spec => []IInv /\ []OfficerInv /\ []LeaseHeld
    BY InvariantHolds, OfficerInvHolds, LeasesHold
  <1>4. InTimeInv <=> IInv /\ (OfficerInv /\ LeaseHeld) /\ SeenStands /\ AssigneeAgrees
    BY DEF InTimeInv, LeaseInv
  <1> QED
    BY <1>1, <1>2, <1>3, <1>4, PTL DEF Spec, AssigneeKept

-----------------------------------------------------------------------------
(* Procurement implements RequestDesk: the desk's theorems hold with the   *)
(* papers in place.  And the workflow keeps up with the papers.            *)

-----------------------------------------------------------------------------
(* Every step of Procurement is a step of the desk, or leaves it alone.    *)

\* Creating a quotation is what the desk calls receiving one.
LEMMA CreateIsReceive ==
    ASSUME NEW u \in Users, NEW m \in Requests, NEW q \in Quotations,
           NEW n \in 0 .. MaxFiles, CreateQuotation(u, q, m, n)
    PROVE  ReceiveQuotation(u, m)
  <1> DEFINE b == Blocked(clarification, m)
             f == AllHaveFiles(quotation', m)
             w == EvaluateWaitingSupplierQuote(StartPurchasingWork(row[m]),
                                               TRUE, b, FALSE)
  <1>1. b \in BOOLEAN /\ f \in BOOLEAN
    BY DEF Blocked, AllHaveFiles, HasQuotation
  <1>2. w = EvaluateCompleted(w, FALSE)
    BY DEF EvaluateCompleted
  <1>3. Write(m, IF n > 0 THEN EvaluateCompleted(w, f) ELSE w)
    BY DEF CreateQuotation
  <1>4. Write(m, EvaluateCompleted(w, f)) \/ Write(m, EvaluateCompleted(w, FALSE))
    BY <1>2, <1>3
  <1>5. \E blocked, allFiles \in BOOLEAN :
          Write(m, EvaluateCompleted(
                       EvaluateWaitingSupplierQuote(
                           StartPurchasingWork(row[m]), TRUE, blocked, FALSE),
                       allFiles))
    BY <1>1, <1>4
  <1> QED
    BY <1>5 DEF CreateQuotation, ReceiveQuotation

\* A call under way knows what it is on, and that exists.
LEMMA CallUnderWay ==
    ASSUME ProcTypeOK, NEW c \in Calls
    PROVE  /\ call[c].op \in ClarificationCalls =>
                 /\ call[c].on \in Clarifications
                 /\ clarification[call[c].on].status # "none"
                 /\ clarification[call[c].on].mr \in Requests
           /\ call[c].op \in QuotationCalls =>
                 /\ call[c].on \in Quotations
                 /\ quotation[call[c].on].state # "none"
                 /\ quotation[call[c].on].mr \in Requests
  <1>1. call[c] \in {NoCall} \union [op : ClarificationCalls, on : Clarifications]
                            \union [op : QuotationCalls, on : Quotations]
    BY DEF ProcTypeOK
  <1>2. /\ call[c].op \in ClarificationCalls => call[c].on \in Clarifications
        /\ call[c].op \in QuotationCalls => call[c].on \in Quotations
    <2>1. CASE call[c] = NoCall
      <3>1. call[c].op = "none"
        BY <2>1 DEF NoCall
      <3> QED
        BY <3>1 DEF ClarificationCalls, QuotationCalls
    <2>2. CASE call[c] \in [op : ClarificationCalls, on : Clarifications]
      <3>1. call[c].op \in ClarificationCalls /\ call[c].on \in Clarifications
        BY <2>2
      <3> QED
        BY <3>1 DEF ClarificationCalls, QuotationCalls
    <2>3. CASE call[c] \in [op : QuotationCalls, on : Quotations]
      <3>1. call[c].op \in QuotationCalls /\ call[c].on \in Quotations
        BY <2>3
      <3> QED
        BY <3>1 DEF ClarificationCalls, QuotationCalls
    <2> QED
      BY <1>1, <2>1, <2>2, <2>3
  <1>3. /\ call[c].op \in ClarificationCalls => clarification[call[c].on].status # "none"
        /\ call[c].op \in QuotationCalls => quotation[call[c].on].state # "none"
    BY DEF ProcTypeOK
  <1>4. /\ \A k \in Clarifications :
              clarification[k].status # "none" => clarification[k].mr \in Requests
        /\ \A q \in Quotations :
              quotation[q].state # "none" => quotation[q].mr \in Requests
    BY DEF ProcTypeOK
  <1> QED
    BY <1>2, <1>3, <1>4

\* The calls that write the row of the request write what the desk allows.
LEMMA CallIsDeskStep ==
    ASSUME ProcTypeOK, NEW c \in Calls, Resolve(c) \/ UploadFiles(c)
    PROVE  PurchasingStep
  <1>u. Caller[c] \in Users
    BY CallsAssumption
  <1>1. CASE Resolve(c)
    <2>1. call[c].op = "resolve"
      BY <1>1 DEF Resolve
    <2>3. PICK m \in Requests : m = clarification[call[c].on].mr
      BY <2>1, CallUnderWay DEF ClarificationCalls
    <2>4. ByAssignee(Caller[c], m) /\ UNCHANGED <<presence, assignment, view, clock>>
      BY <1>1, <2>3 DEF Resolve
    <2> DEFINE b == Blocked(clarification', m)
    <2>5. /\ HasQuotation(quotation, m) \in BOOLEAN
          /\ b \in BOOLEAN
          /\ AllHaveFiles(quotation, m) \in BOOLEAN
      BY DEF Blocked, AllHaveFiles, HasQuotation
    <2>6. Write(m, EvaluateWaitingSupplierQuote(row[m], HasQuotation(quotation, m),
                                                b, AllHaveFiles(quotation, m)))
      BY <1>1, <2>3 DEF Resolve
    <2>7. ResolveClarification(Caller[c], m)
      BY <2>4, <2>5, <2>6 DEF ResolveClarification
    <2> QED
      BY <1>u, <2>7 DEF PurchasingStep
  <1>2. CASE UploadFiles(c)
    <2>1. call[c].op = "upload"
      BY <1>2 DEF UploadFiles
    <2>3. PICK m \in Requests : m = quotation[call[c].on].mr
      BY <2>1, CallUnderWay DEF QuotationCalls
    <2> DEFINE f == AllHaveFiles(quotation', m)
    <2>4. f \in BOOLEAN
      BY DEF AllHaveFiles, HasQuotation
    <2>5. /\ ByAssignee(Caller[c], m)
          /\ Write(m, EvaluateCompleted(row[m], f))
          /\ UNCHANGED <<presence, assignment, view, clock>>
      BY <1>2, <2>3 DEF UploadFiles
    <2>6. ReceiveFiles(Caller[c], m)
      BY <2>4, <2>5 DEF ReceiveFiles
    <2> QED
      BY <1>u, <2>6 DEF PurchasingStep
  <1> QED
    BY <1>1, <1>2

\* The step simulation of the refinement.
LEMMA StepIsDeskStep == ProcTypeOK /\ [ProcNext]_procVars => [Next]_vars
  <1> SUFFICES ASSUME ProcTypeOK, [ProcNext]_procVars PROVE [Next]_vars
    OBVIOUS
  <1>1. CASE DeskStep
    BY <1>1 DEF DeskStep, Next
  <1>2. ASSUME NEW u \in Users, NEW m \in Requests, NEW k \in Clarifications,
               RecordSupplierClarification(u, k, m)
        PROVE  Next
    BY <1>2 DEF RecordSupplierClarification, PurchasingStep, Next
  <1>3. ASSUME NEW u \in Users, NEW m \in Requests, NEW q \in Quotations,
               NEW n \in 0 .. MaxFiles, CreateQuotation(u, q, m, n)
        PROVE  Next
    BY <1>3, CreateIsReceive DEF PurchasingStep, Next
  <1>4. ASSUME NEW c \in Calls, Resolve(c) \/ UploadFiles(c) PROVE Next
    BY <1>4, CallIsDeskStep DEF Next
  <1>5. ASSUME NEW c \in Calls,
               \/ \E op \in ClarificationCalls, k \in Clarifications :
                     BeginOnClarification(c, op, k)
               \/ \E op \in QuotationCalls, q \in Quotations : BeginOnQuotation(c, op, q)
               \/ Fail(c)
               \/ SubmitResponse(c)
               \/ ForwardOrFollowUp(c, "forward")
               \/ ForwardOrFollowUp(c, "follow up")
               \/ DeleteFile(c)
               \/ SetArchived(c, "archive", "archived")
               \/ SetArchived(c, "restore", "active")
               \/ DeleteQuotation(c)
        PROVE  UNCHANGED vars
    BY <1>5 DEF BeginOnClarification, BeginOnQuotation, Fail, SubmitResponse,
                ForwardOrFollowUp, DeleteFile, SetArchived, DeleteQuotation
  <1>6. CASE PaperStep
    BY <1>6, <1>2, <1>3, <1>4, <1>5 DEF PaperStep
  <1>7. CASE UNCHANGED procVars
    BY <1>7 DEF procVars
  <1> QED
    BY <1>1, <1>6, <1>7 DEF ProcNext

-----------------------------------------------------------------------------
(* The papers keep their types.                                            *)

ClarificationsOK ==
    /\ clarification \in [Clarifications -> ClarificationRows]
    /\ \A k \in Clarifications :
          clarification[k].status # "none" => clarification[k].mr \in Requests

QuotationsOK ==
    /\ quotation \in [Quotations -> QuotationRows]
    /\ \A q \in Quotations :
          quotation[q].state # "none" => quotation[q].mr \in Requests

CallRecords == {NoCall} \union [op : ClarificationCalls, on : Clarifications]
                       \union [op : QuotationCalls, on : Quotations]

\* What a call is on exists.
Grounded(d) ==
    /\ d.op \in ClarificationCalls => clarification[d.on].status # "none"
    /\ d.op \in QuotationCalls => quotation[d.on].state # "none"

CallsOK ==
    /\ call \in [Calls -> CallRecords]
    /\ \A c \in Calls : Grounded(call[c])

LEMMA ProcTypeParts ==
    ProcTypeOK <=> TypeOK /\ ClarificationsOK /\ QuotationsOK /\ CallsOK
  BY DEF ProcTypeOK, ClarificationsOK, QuotationsOK, CallsOK, CallRecords, Grounded

LEMMA ClarificationWritten ==
    ASSUME ClarificationsOK, NEW k \in Clarifications, NEW r \in ClarificationRows,
           r.status # "none", r.mr \in Requests,
           clarification' = [clarification EXCEPT ![k] = r]
    PROVE  /\ ClarificationsOK'
           /\ \A j \in Clarifications :
                 clarification[j].status # "none" => clarification'[j].status # "none"
  <1>1. /\ clarification' \in [Clarifications -> ClarificationRows]
        /\ clarification'[k] = r
        /\ \A j \in Clarifications \ {k} : clarification'[j] = clarification[j]
    BY DEF ClarificationsOK
  <1>2. \A j \in Clarifications :
          clarification'[j].status # "none" => clarification'[j].mr \in Requests
    BY <1>1 DEF ClarificationsOK
  <1> QED
    BY <1>1, <1>2 DEF ClarificationsOK

LEMMA QuotationWritten ==
    ASSUME QuotationsOK, NEW q \in Quotations, NEW r \in QuotationRows,
           r.state # "none", r.mr \in Requests,
           quotation' = [quotation EXCEPT ![q] = r]
    PROVE  /\ QuotationsOK'
           /\ \A p \in Quotations :
                 quotation[p].state # "none" => quotation'[p].state # "none"
  <1>1. /\ quotation' \in [Quotations -> QuotationRows]
        /\ quotation'[q] = r
        /\ \A p \in Quotations \ {q} : quotation'[p] = quotation[p]
    BY DEF QuotationsOK
  <1>2. \A p \in Quotations :
          quotation'[p].state # "none" => quotation'[p].mr \in Requests
    BY <1>1 DEF QuotationsOK
  <1> QED
    BY <1>1, <1>2 DEF QuotationsOK

\* The calls under way survive a step that unmakes no row, and the end of one.
LEMMA CallsKept ==
    ASSUME CallsOK,
           \A k \in Clarifications :
              clarification[k].status # "none" => clarification'[k].status # "none",
           \A q \in Quotations :
              quotation[q].state # "none" => quotation'[q].state # "none",
           UNCHANGED call \/ \E c \in Calls : Done(c)
    PROVE  CallsOK'
  <1>1. \A c \in Calls : call'[c] \in {call[c], NoCall}
    BY DEF CallsOK, Done
  <1>2. call' \in [Calls -> CallRecords]
    BY DEF CallsOK, Done, CallRecords
  <1>3. ASSUME NEW c \in Calls PROVE Grounded(call[c])'
    <2>1. CASE call'[c] = NoCall
      BY <2>1 DEF Grounded, NoCall, ClarificationCalls, QuotationCalls
    <2>2. CASE call'[c] = call[c]
      <3>1. call[c] \in CallRecords /\ Grounded(call[c])
        BY DEF CallsOK
      <3>2. CASE call[c] \in [op : ClarificationCalls, on : Clarifications]
        <4>1. call[c].op \in ClarificationCalls /\ call[c].on \in Clarifications
          BY <3>2
        <4>2. call[c].op \notin QuotationCalls
          BY <4>1 DEF ClarificationCalls, QuotationCalls
        <4> QED
          BY <2>2, <3>1, <4>1, <4>2 DEF Grounded
      <3>3. CASE call[c] \in [op : QuotationCalls, on : Quotations]
        <4>1. call[c].op \in QuotationCalls /\ call[c].on \in Quotations
          BY <3>3
        <4>2. call[c].op \notin ClarificationCalls
          BY <4>1 DEF ClarificationCalls, QuotationCalls
        <4> QED
          BY <2>2, <3>1, <4>1, <4>2 DEF Grounded
      <3> QED
        BY <2>1, <2>2, <3>1, <3>2, <3>3 DEF CallRecords
    <2> QED
      BY <1>1, <2>1, <2>2
  <1> QED
    BY <1>2, <1>3 DEF CallsOK

LEMMA CallBegun ==
    ASSUME CallsOK, NEW c \in Calls, NEW d \in CallRecords, Grounded(d),
           UNCHANGED <<clarification, quotation>>,
           call' = [call EXCEPT ![c] = d]
    PROVE  CallsOK'
  <1>1. call' \in [Calls -> CallRecords]
    BY DEF CallsOK
  <1>2. \A e \in Calls : call'[e] \in {call[e], d}
    BY DEF CallsOK
  <1>3. \A e \in Calls : Grounded(call[e])'
    BY <1>2 DEF CallsOK, Grounded
  <1> QED
    BY <1>1, <1>3 DEF CallsOK

PapersOK == ClarificationsOK /\ QuotationsOK /\ CallsOK

\* A clarification is recorded, or a call changes its status.
LEMMA ClarificationStep ==
    ASSUME PapersOK, NEW k \in Clarifications, NEW r \in ClarificationRows,
           r.status # "none", r.mr \in Requests,
           clarification' = [clarification EXCEPT ![k] = r],
           UNCHANGED quotation, UNCHANGED call \/ \E c \in Calls : Done(c)
    PROVE  PapersOK'
  <1>1. ClarificationsOK'
    BY ClarificationWritten DEF PapersOK
  <1>2. CallsOK'
    BY ClarificationWritten, CallsKept DEF PapersOK
  <1> QED
    BY <1>1, <1>2 DEF PapersOK, QuotationsOK

LEMMA QuotationStep ==
    ASSUME PapersOK, NEW q \in Quotations, NEW r \in QuotationRows,
           r.state # "none", r.mr \in Requests,
           quotation' = [quotation EXCEPT ![q] = r],
           UNCHANGED clarification, UNCHANGED call \/ \E c \in Calls : Done(c)
    PROVE  PapersOK'
  <1>1. QuotationsOK'
    BY QuotationWritten DEF PapersOK
  <1>2. CallsOK'
    BY QuotationWritten, CallsKept DEF PapersOK
  <1> QED
    BY <1>1, <1>2 DEF PapersOK, ClarificationsOK

\* A call on a clarification writes the new status of that clarification.
LEMMA StatusSet ==
    ASSUME ProcTypeOK, NEW c \in Calls, NEW op \in ClarificationCalls,
           call[c].op = op, SetClarification(call[c].on, op),
           UNCHANGED quotation, Done(c)
    PROVE  PapersOK'
  <1> DEFINE k == call[c].on
             r == [clarification[k] EXCEPT !.status = NewStatus[op]]
  <1>1. k \in Clarifications /\ clarification[k].mr \in Requests
    BY CallUnderWay
  <1>2. NewStatus[op] \in BlockingStatuses \union {"Resolved"}
    BY DEF NewStatus, ClarificationCalls, BlockingStatuses
  <1>3. clarification[k] \in ClarificationRows
    BY <1>1 DEF ProcTypeOK
  <1>4. r \in ClarificationRows /\ r.status # "none" /\ r.mr \in Requests
    BY <1>1, <1>2, <1>3 DEF ClarificationRows, BlockingStatuses
  <1>5. clarification' = [clarification EXCEPT ![k] = r]
    BY DEF SetClarification
  <1>6. PapersOK
    BY ProcTypeParts DEF PapersOK
  <1> HIDE DEF r
  <1> QED
    BY <1>1, <1>4, <1>5, <1>6, ClarificationStep

\* A call on a quotation leaves that quotation a number of files and a state.
LEMMA QuotationSet ==
    ASSUME ProcTypeOK, NEW c \in Calls, call[c].op \in QuotationCalls,
           NEW n \in 0 .. MaxFiles, NEW st \in {"active", "archived", "deleted"},
           quotation' = [quotation EXCEPT ![call[c].on] =
                            [quotation[call[c].on] EXCEPT !.state = st, !.files = n]],
           UNCHANGED clarification, Done(c)
    PROVE  PapersOK'
  <1> DEFINE q == call[c].on
             r == [quotation[q] EXCEPT !.state = st, !.files = n]
  <1>1. q \in Quotations /\ quotation[q].mr \in Requests
    BY CallUnderWay
  <1>2. quotation[q] \in QuotationRows
    BY <1>1 DEF ProcTypeOK
  <1>3. r \in QuotationRows /\ r.state # "none" /\ r.mr \in Requests
    BY <1>1, <1>2 DEF QuotationRows
  <1>4. quotation' = [quotation EXCEPT ![q] = r]
    OBVIOUS
  <1>5. PapersOK
    BY ProcTypeParts DEF PapersOK
  <1> HIDE DEF r
  <1> QED
    BY <1>1, <1>3, <1>4, <1>5, QuotationStep

\* A call on a quotation begins on what is a row.
LEMMA OnQuotation ==
    ASSUME ProcTypeOK, NEW c \in Calls, call[c].op \in QuotationCalls
    PROVE  /\ call[c].on \in Quotations
           /\ quotation[call[c].on] \in QuotationRows
           /\ quotation[call[c].on].files \in 0 .. MaxFiles
           /\ MaxFiles \in Nat
  <1>1. call[c].on \in Quotations
    BY CallUnderWay
  <1>2. quotation[call[c].on] \in QuotationRows
    BY <1>1 DEF ProcTypeOK
  <1> QED
    BY <1>1, <1>2, CallsAssumption DEF QuotationRows

\* Every operation on the papers, one step each.
LEMMA PaperTypeStep == ProcTypeOK /\ PaperStep => PapersOK'
  <1> SUFFICES ASSUME ProcTypeOK, PaperStep PROVE PapersOK'
    OBVIOUS
  <1>p. PapersOK
    BY ProcTypeParts DEF PapersOK
  <1>1. ASSUME NEW u \in Users, NEW m \in Requests, NEW k \in Clarifications,
               RecordSupplierClarification(u, k, m)
        PROVE  PapersOK'
    <2> DEFINE r == [mr |-> m, status |-> "Awaiting Engineering Response"]
    <2>1. r \in ClarificationRows /\ r.status # "none" /\ r.mr \in Requests
      BY DEF ClarificationRows, BlockingStatuses
    <2>2. /\ clarification' = [clarification EXCEPT ![k] = r]
          /\ UNCHANGED <<quotation, call>>
      BY <1>1 DEF RecordSupplierClarification
    <2> HIDE DEF r
    <2> QED
      BY <1>p, <2>1, <2>2, ClarificationStep
  <1>2. ASSUME NEW u \in Users, NEW m \in Requests, NEW q \in Quotations,
               NEW n \in 0 .. MaxFiles, CreateQuotation(u, q, m, n)
        PROVE  PapersOK'
    <2> DEFINE r == [mr |-> m, state |-> "active", files |-> n]
    <2>1. r \in QuotationRows /\ r.state # "none" /\ r.mr \in Requests
      BY DEF QuotationRows
    <2>2. /\ quotation' = [quotation EXCEPT ![q] = r]
          /\ UNCHANGED <<clarification, call>>
      BY <1>2 DEF CreateQuotation
    <2> HIDE DEF r
    <2> QED
      BY <1>p, <2>1, <2>2, QuotationStep
  <1>3. ASSUME NEW c \in Calls, NEW op \in ClarificationCalls,
               NEW k \in Clarifications, BeginOnClarification(c, op, k)
        PROVE  PapersOK'
    <2> DEFINE d == [op |-> op, on |-> k]
    <2>1. WantedStatus[op] # "none"
      BY DEF WantedStatus, ClarificationCalls
    <2>2. op \notin QuotationCalls
      BY DEF ClarificationCalls, QuotationCalls
    <2>3. d \in CallRecords /\ Grounded(d)
      BY <1>3, <2>1, <2>2 DEF CallRecords, Grounded, BeginOnClarification
    <2>4. call' = [call EXCEPT ![c] = d] /\ UNCHANGED <<clarification, quotation>>
      BY <1>3 DEF BeginOnClarification
    <2> HIDE DEF d
    <2>5. CallsOK'
      BY <1>p, <2>3, <2>4, CallBegun DEF PapersOK
    <2> QED
      BY <1>p, <2>4, <2>5 DEF PapersOK, ClarificationsOK, QuotationsOK
  <1>4. ASSUME NEW c \in Calls, NEW op \in QuotationCalls,
               NEW q \in Quotations, BeginOnQuotation(c, op, q)
        PROVE  PapersOK'
    <2> DEFINE d == [op |-> op, on |-> q]
    <2>1. WantedState(op) # "none"
      BY DEF WantedState
    <2>2. op \notin ClarificationCalls
      BY DEF ClarificationCalls, QuotationCalls
    <2>3. d \in CallRecords /\ Grounded(d)
      BY <1>4, <2>1, <2>2 DEF CallRecords, Grounded, BeginOnQuotation
    <2>4. call' = [call EXCEPT ![c] = d] /\ UNCHANGED <<clarification, quotation>>
      BY <1>4 DEF BeginOnQuotation
    <2> HIDE DEF d
    <2>5. CallsOK'
      BY <1>p, <2>3, <2>4, CallBegun DEF PapersOK
    <2> QED
      BY <1>p, <2>4, <2>5 DEF PapersOK, ClarificationsOK, QuotationsOK
  <1>5. ASSUME NEW c \in Calls, Fail(c) PROVE PapersOK'
    <2>1. CallsOK'
      BY <1>p, <1>5, CallsKept DEF PapersOK, Fail, Done
    <2> QED
      BY <1>p, <1>5, <2>1 DEF PapersOK, ClarificationsOK, QuotationsOK, Fail
  <1>6. ASSUME NEW c \in Calls, SubmitResponse(c) PROVE PapersOK'
    BY <1>6, StatusSet DEF SubmitResponse, ClarificationCalls
  <1>7. ASSUME NEW c \in Calls, NEW op \in {"forward", "follow up"},
               ForwardOrFollowUp(c, op)
        PROVE  PapersOK'
    BY <1>7, StatusSet DEF ForwardOrFollowUp, ClarificationCalls
  <1>8. ASSUME NEW c \in Calls, Resolve(c) PROVE PapersOK'
    BY <1>8, StatusSet DEF Resolve, ClarificationCalls
  <1>9. ASSUME NEW c \in Calls, UploadFiles(c) PROVE PapersOK'
    <2> DEFINE q == call[c].on
               n == quotation[q].files + 1
    <2>1. call[c].op \in QuotationCalls
      BY <1>9 DEF UploadFiles, QuotationCalls
    <2>2. n \in 0 .. MaxFiles
      BY <1>9, <2>1, OnQuotation DEF UploadFiles
    <2>3. quotation' = [quotation EXCEPT ![q] =
                           [quotation[q] EXCEPT !.state = quotation[q].state,
                                                !.files = n]]
      BY <1>9, <2>1, OnQuotation DEF UploadFiles, QuotationRows
    <2>4. /\ quotation[q].state \in {"active", "archived", "deleted"}
          /\ UNCHANGED clarification
          /\ Done(c)
      BY <1>9 DEF UploadFiles
    <2> HIDE DEF n
    <2> QED
      BY <2>1, <2>2, <2>3, <2>4, QuotationSet
  <1>10. ASSUME NEW c \in Calls, DeleteFile(c) PROVE PapersOK'
    <2> DEFINE q == call[c].on
               n == quotation[q].files - 1
    <2>1. call[c].op \in QuotationCalls
      BY <1>10 DEF DeleteFile, QuotationCalls
    <2>2. n \in 0 .. MaxFiles
      <3>1. quotation[q].files > 0
        BY <1>10 DEF DeleteFile
      <3>2. quotation[q].files \in 0 .. MaxFiles /\ MaxFiles \in Nat
        BY <2>1, OnQuotation
      <3> QED
        BY <3>1, <3>2
    <2>3. quotation' = [quotation EXCEPT ![q] =
                           [quotation[q] EXCEPT !.state = quotation[q].state,
                                                !.files = n]]
      BY <1>10, <2>1, OnQuotation DEF DeleteFile, QuotationRows
    <2>4. /\ quotation[q].state \in {"active", "archived", "deleted"}
          /\ UNCHANGED clarification
          /\ Done(c)
      BY <1>10 DEF DeleteFile, Kept
    <2> HIDE DEF n
    <2> QED
      BY <2>1, <2>2, <2>3, <2>4, QuotationSet
  <1>11. ASSUME NEW c \in Calls, NEW op \in {"archive", "restore"},
                NEW st \in {"active", "archived"}, SetArchived(c, op, st)
         PROVE  PapersOK'
    <2> DEFINE q == call[c].on
    <2>1. call[c].op \in QuotationCalls
      BY <1>11 DEF SetArchived, QuotationCalls
    <2>2. quotation' = [quotation EXCEPT ![q] =
                           [quotation[q] EXCEPT !.state = st,
                                                !.files = quotation[q].files]]
      BY <1>11, <2>1, OnQuotation DEF SetArchived, QuotationRows
    <2>3. UNCHANGED clarification /\ Done(c)
      BY <1>11 DEF SetArchived
    <2> QED
      BY <2>1, <2>2, <2>3, OnQuotation, QuotationSet
  <1>12. ASSUME NEW c \in Calls, DeleteQuotation(c) PROVE PapersOK'
    <2>1. call[c].op \in QuotationCalls /\ 0 \in 0 .. MaxFiles
      BY <1>12, CallsAssumption DEF DeleteQuotation, QuotationCalls
    <2>2. quotation' = [quotation EXCEPT ![call[c].on] =
                           [quotation[call[c].on] EXCEPT !.state = "deleted",
                                                         !.files = 0]]
      BY <1>12 DEF DeleteQuotation
    <2>3. UNCHANGED clarification /\ Done(c)
      BY <1>12 DEF DeleteQuotation
    <2> QED
      BY <2>1, <2>2, <2>3, QuotationSet
  <1> QED
    BY <1>1, <1>2, <1>3, <1>4, <1>5, <1>6, <1>7, <1>8, <1>9, <1>10, <1>11, <1>12
    DEF PaperStep

LEMMA ProcTypeStep == ProcTypeOK /\ [ProcNext]_procVars => ProcTypeOK'
  <1> SUFFICES ASSUME ProcTypeOK, [ProcNext]_procVars PROVE ProcTypeOK'
    OBVIOUS
  <1>1. TypeOK'
    BY ProcTypeParts, StepIsDeskStep, TypeStep
  <1>2. PapersOK'
    <2>1. CASE UNCHANGED papers
      BY <2>1, ProcTypeParts
      DEF papers, PapersOK, ClarificationsOK, QuotationsOK, CallsOK, Grounded
    <2>2. CASE PaperStep
      BY <2>2, PaperTypeStep
    <2> QED
      BY <2>1, <2>2 DEF ProcNext, DeskStep, procVars
  <1>3. TypeOK' /\ ClarificationsOK' /\ QuotationsOK' /\ CallsOK'
    BY <1>1, <1>2 DEF PapersOK
  <1> QED
    BY <1>3 DEF ProcTypeOK, ClarificationsOK, QuotationsOK, CallsOK, CallRecords,
                Grounded

-----------------------------------------------------------------------------
(* The theorems.                                                           *)

\* Types of the papers; a call under way is on a row that was created, and no
\* interleaving of two calls takes the number of files of a quotation below 0.
THEOREM ProcTypeCorrect == ProcSpec => []ProcTypeOK
  <1>1. ProcInit => ProcTypeOK
    <2> SUFFICES ASSUME ProcInit PROVE ProcTypeOK
      OBVIOUS
    <2>0. row \in [Requests -> Rows]
      BY DEF ProcInit, Init, NewRow, Rows, Statuses, WorkflowStatuses, PurchasingStates
    <2>1. TypeOK
      BY <2>0 DEF ProcInit, Init, TypeOK, AssignmentRows, Views, ClosedView
    <2>2. ClarificationsOK
      BY DEF ProcInit, ClarificationsOK, ClarificationRows
    <2>3. QuotationsOK
      BY CallsAssumption DEF ProcInit, QuotationsOK, QuotationRows
    <2>4. CallsOK
      BY DEF ProcInit, CallsOK, CallRecords, Grounded, NoCall, ClarificationCalls,
             QuotationCalls
    <2> QED
      BY <2>1, <2>2, <2>3, <2>4, ProcTypeParts
  <1> QED
    BY <1>1, ProcTypeStep, PTL DEF ProcSpec

\* Procurement implements RequestDesk under the identity mapping.
THEOREM ProcImplementsDesk == ProcSpec => DeskImplemented
  <1>1. ProcInit => Init
    BY DEF ProcInit
  <1> QED
    BY <1>1, StepIsDeskStep, ProcTypeCorrect, PTL DEF ProcSpec, DeskImplemented, Spec

-----------------------------------------------------------------------------
(* Only archiving, restoring or deleting a quotation can make a transition *)
(* overdue.  Every other step either leaves the status and what it depends *)
(* on alone (or moves the papers away from the condition), or evaluates    *)
(* the condition itself.                                                   *)

\* A quotation of m changes its state.
Shelved(m) ==
    \E q \in Quotations :
        quotation[q].mr = m /\ quotation'[q].state # quotation[q].state

Awaited == {"In Progress", "Waiting Supplier Quote"}

-----------------------------------------------------------------------------
(* Steps that do not touch the status of m.                                *)

LEMMA StaysOverdue ==
    ASSUME NEW m \in Requests, Overdue(m)', Live(m),
           row'[m].workflow_status = row[m].workflow_status,
           HasQuotation(quotation', m) => HasQuotation(quotation, m),
           AllHaveFiles(quotation', m) => AllHaveFiles(quotation, m),
           Blocked(clarification, m) => Blocked(clarification', m)
    PROVE  Overdue(m)
  BY DEF Overdue

\* The active quotations of m are the same, and none of them gets its first file.
LEMMA QuotationsKept ==
    ASSUME NEW m,
           \A q \in Quotations :
              /\ (quotation'[q].mr = m /\ quotation'[q].state = "active")
                 <=> (quotation[q].mr = m /\ quotation[q].state = "active")
              /\ (quotation[q].mr = m /\ quotation'[q].files > 0)
                 => quotation[q].files > 0
    PROVE  /\ HasQuotation(quotation', m) => HasQuotation(quotation, m)
           /\ AllHaveFiles(quotation', m) => AllHaveFiles(quotation, m)
  <1>1. ActiveQuotations(quotation', m) = ActiveQuotations(quotation, m)
    BY DEF ActiveQuotations
  <1>2. \A q \in ActiveQuotations(quotation, m) :
          quotation'[q].files > 0 => quotation[q].files > 0
    BY DEF ActiveQuotations
  <1> QED
    BY <1>1, <1>2 DEF HasQuotation, AllHaveFiles

\* A clarification is written; if it was blocking m, it still is.
LEMMA StillBlocked ==
    ASSUME NEW m, NEW k \in Clarifications, NEW r,
           clarification \in [Clarifications -> ClarificationRows],
           clarification' = [clarification EXCEPT ![k] = r],
           (clarification[k].mr = m /\ clarification[k].status \in BlockingStatuses)
              => (r.mr = m /\ r.status \in BlockingStatuses)
    PROVE  Blocked(clarification, m) => Blocked(clarification', m)
  <1>1. clarification'[k] = r
    OBVIOUS
  <1>2. \A j \in Clarifications \ {k} : clarification'[j] = clarification[j]
    OBVIOUS
  <1> QED
    BY <1>1, <1>2 DEF Blocked

\* No operation on the desk starts waiting for papers.
LEMMA DeskKeepsStatus ==
    ASSUME TypeOK, DeskStep, NEW m \in Requests, Live(m)',
           row'[m].workflow_status \in Awaited
    PROVE  Live(m) /\ row'[m].workflow_status = row[m].workflow_status
  <1>a. /\ row \in [Requests -> Rows]
        /\ presence \in [Requests -> {"absent", "live", "deleted"}]
        /\ \A s \in Sessions : view[s].step # "closed" => view[s].mr \in Requests
        /\ \A a \in AsgIds : assignment[a].state # "unused" => assignment[a].mr \in Requests
    BY DEF TypeOK
  <1>b. \A r \in Rows :
          /\ Unlocked(r).workflow_status = r.workflow_status
          /\ Archived(r).workflow_status = r.workflow_status
          /\ Restored(r).workflow_status = r.workflow_status
          /\ \A u, t : LockedFor(r, u, t).workflow_status = r.workflow_status
          /\ \A a, o : InAssignment(r, a, o).workflow_status = "Assigned"
    BY DEF Rows, Unlocked, Archived, Restored, LockedFor, InAssignment
  <1>c. \A t : NewRow(t).workflow_status = "Submitted"
    BY DEF NewRow
  <1> DEFINE Q(x, r) == \/ r.workflow_status = row[x].workflow_status
                        \/ r.workflow_status \in {"Submitted", "Assigned"}
  <1>d. ASSUME NEW x \in Requests, NEW r, Write(x, r), Q(x, r)
        PROVE  row'[m].workflow_status = row[m].workflow_status
    BY <1>a, <1>d DEF Write, Awaited
  <1>e. \A x \in Requests : row[x] \in Rows
    BY <1>a
  <1>1. ASSUME NEW x \in Requests, CreateRequest(x)
        PROVE  Live(m) /\ row'[m].workflow_status = row[m].workflow_status
    <2>1. x # m
      BY <1>1, <1>a, <1>c DEF CreateRequest, Write, Awaited
    <2> QED
      BY <1>1, <1>a, <2>1 DEF CreateRequest, Write, Live
  <1>2. ASSUME UNCHANGED presence,
               UNCHANGED row \/ \E x \in Requests : \E r : Write(x, r) /\ Q(x, r)
        PROVE  Live(m) /\ row'[m].workflow_status = row[m].workflow_status
    BY <1>2, <1>d DEF Live
  <1> DEFINE Quiet == /\ UNCHANGED presence
                      /\ UNCHANGED row \/ \E x \in Requests : \E r : Write(x, r) /\ Q(x, r)
  <1> HIDE DEF Q
  <1>q. \A x \in Requests : \A r \in Rows : r = row[x] => Q(x, r) /\ Q(x, Unlocked(r))
    BY <1>b DEF Q
  <1>s. \A x \in Requests : \A now : Q(x, StatusRead(row[x], now))
    BY <1>e, <1>q DEF StatusRead
  <1>w. \A x \in Requests : \A a, o : Q(x, InAssignment(row[x], a, o))
    BY <1>b, <1>e DEF Q
  <1>3. ASSUME NEW s \in Sessions,
               \/ \E x \in Requests : OpenDetails(s, x)
               \/ LoadForEdit(s)
               \/ Abandon(s)
        PROVE  Quiet
    BY <1>3 DEF OpenDetails, LoadForEdit, Abandon
  <1>4. ASSUME NEW s \in Sessions, AskLockStatus(s) PROVE Quiet
    <2>1. PICK x \in Requests : x = view[s].mr
      BY <1>4, <1>a DEF AskLockStatus
    <2>2. \E r : Write(x, r) /\ Q(x, r)
      BY <1>4, <2>1, <1>e, <1>q, <1>s DEF AskLockStatus
    <2> QED
      BY <1>4, <2>2 DEF AskLockStatus
  <1>5. ASSUME NEW s \in Sessions, LockForEdit(s) PROVE Quiet
    <2>1. PICK x \in Requests : x = view[s].mr
      BY <1>5, <1>a DEF LockForEdit
    <2>2. Q(x, LockedFor(row[x], UserOf[s], clock))
      BY <1>b, <1>e DEF Q
    <2> QED
      BY <1>5, <2>1, <2>2 DEF LockForEdit
  <1>6. ASSUME NEW s \in Sessions, Save(s) PROVE Quiet
    <2>1. PICK x \in Requests : x = view[s].mr
      BY <1>6, <1>a DEF Save
    <2>2. Q(x, [row[x] EXCEPT !.assigned_to = view[s].seen])
      BY <1>e DEF Q, Rows
    <2> QED
      BY <1>6, <2>1, <2>2 DEF Save
  <1>7. ASSUME NEW s \in Sessions, ReleaseLock(s) PROVE Quiet
    <2>1. PICK x \in Requests : x = view[s].mr
      BY <1>7, <1>a DEF ReleaseLock
    <2>2. Q(x, UnlockedBy(x, UserOf[s]))
      BY <1>e, <1>q DEF UnlockedBy
    <2> QED
      BY <1>7, <2>1, <2>2 DEF ReleaseLock
  <1>8. ASSUME NEW u \in Users, NEW x \in Requests, RefreshBanner(u, x) PROVE Quiet
    BY <1>8, <1>s DEF RefreshBanner
  <1>9. ASSUME NEW u \in Users, NEW x \in Requests, NEW o \in Officers,
               Assign(u, x, o) \/ AutoAssign(x, o)
        PROVE  Quiet
    BY <1>9, <1>w DEF Assign, AutoAssign
  <1>10. ASSUME NEW u \in Users, NEW old \in AsgIds, NEW o \in Officers,
                Reassign(u, old, o)
         PROVE  Quiet
    <2>1. PICK x \in Requests : x = assignment[old].mr
      BY <1>10, <1>a DEF Reassign
    <2> QED
      BY <1>10, <2>1, <1>w DEF Reassign
  <1>11. ASSUME NEW u \in Users, NEW x \in Requests, ForceUnlock(u, x) PROVE Quiet
    BY <1>11, <1>e, <1>q DEF ForceUnlock
  <1>12. ASSUME NEW u \in Users, NEW x \in Requests, Archive(u, x) \/ Restore(u, x)
         PROVE  Quiet
    <2>1. Q(x, Archived(row[x])) /\ Q(x, Restored(row[x]))
      BY <1>b, <1>e DEF Q
    <2> QED
      BY <1>12, <2>1 DEF Archive, Restore
  <1>13. ASSUME NEW u \in Users, NEW x \in Requests, Delete(u, x)
         PROVE  Live(m) /\ row'[m].workflow_status = row[m].workflow_status
    <2>1. x # m
      BY <1>13, <1>a DEF Delete, Live
    <2> QED
      BY <1>13, <1>a, <2>1 DEF Delete, Live
  <1>14. CASE Tick
    BY <1>14, <1>2 DEF Tick
  <1>15. CASE ViewStep
    BY <1>15, <1>2, <1>3, <1>4, <1>5, <1>6, <1>7 DEF ViewStep
  <1>16. CASE AssignmentStep
    <2>1. CASE \E x \in Requests, o \in Officers : AutoAssign(x, o)
      <3>1. PICK x \in Requests, o \in Officers : AutoAssign(x, o)
        BY <2>1
      <3>2. Quiet
        BY <3>1, <1>w DEF AutoAssign
      <3> QED
        BY <3>2, <1>2
    <2> QED
      BY <1>16, <1>2, <1>9, <1>10, <2>1 DEF AssignmentStep
  <1>17. CASE AdministrationStep
    BY <1>17, <1>2, <1>11, <1>12, <1>13 DEF AdministrationStep
  <1> QED
    BY <1>1, <1>2, <1>8, <1>14, <1>15, <1>16, <1>17 DEF DeskStep

-----------------------------------------------------------------------------
(* The operations on the papers.                                           *)

KeepsUp(m) == Overdue(m)' => Overdue(m) \/ Shelved(m)

\* What the workflow operators do to the status, whatever they are told.
LEMMA TransitionStatus ==
    ASSUME NEW r \in Rows, NEW has \in BOOLEAN, NEW blocked \in BOOLEAN,
           NEW all \in BOOLEAN
    PROVE  LET started == StartPurchasingWork(r)
               waiting == EvaluateWaitingSupplierQuote(r, has, blocked, all)
               completed == EvaluateCompleted(r, all)
           IN
           /\ started \in Rows /\ waiting \in Rows /\ completed \in Rows
           /\ started.workflow_status = "Waiting Supplier Quote"
                 => r.workflow_status = "Waiting Supplier Quote"
           /\ waiting.workflow_status = "In Progress"
                 => /\ r.workflow_status = "In Progress"
                    /\ ~has \/ blocked
           /\ (waiting.workflow_status = "Waiting Supplier Quote" /\ all)
                 => r.workflow_status = "Waiting Supplier Quote"
           /\ completed.workflow_status = "In Progress"
                 => r.workflow_status = "In Progress"
           /\ completed.workflow_status = "Waiting Supplier Quote" => ~all
  <1>1. \A q \in Rows : \A st \in PurchasingStates :
          WithStatus(q, st) \in Rows /\ WithStatus(q, st).workflow_status = st
    BY DEF Rows, WithStatus, Statuses, WorkflowStatuses
  <1>2. {"In Progress", "Waiting Supplier Quote", "Completed"} \subseteq PurchasingStates
    BY DEF PurchasingStates
  <1> QED
    BY <1>1, <1>2
    DEF StartPurchasingWork, EvaluateWaitingSupplierQuote, EvaluateCompleted

\* Recording a clarification blocks the request.
LEMMA RecordKeepsUp ==
    ASSUME ProcTypeOK, NEW u \in Users, NEW x \in Requests, NEW k \in Clarifications,
           RecordSupplierClarification(u, k, x), NEW m \in Requests
    PROVE  KeepsUp(m)
  <1> SUFFICES ASSUME Overdue(m)' PROVE Overdue(m)
    BY DEF KeepsUp
  <1>a. row \in [Requests -> Rows] /\ clarification \in [Clarifications -> ClarificationRows]
    BY DEF ProcTypeOK, TypeOK
  <1> DEFINE r == [mr |-> x, status |-> "Awaiting Engineering Response"]
  <1>b. /\ clarification[k].status = "none"
        /\ clarification' = [clarification EXCEPT ![k] = r]
        /\ UNCHANGED <<presence, quotation>>
        /\ Live(x)
        /\ row' = [row EXCEPT ![x] = StartPurchasingWork(row[x])]
    BY DEF RecordSupplierClarification, RecordClarification, ByAssignee, Write
  <1>1. CASE m = x
    <2>1. Blocked(clarification', m)
      BY <1>1, <1>a, <1>b DEF Blocked, BlockingStatuses
    <2>2. /\ row'[m].workflow_status = "Waiting Supplier Quote"
          /\ AllHaveFiles(quotation, m)
      BY <1>b, <2>1 DEF Overdue
    <2>3. row[m].workflow_status = "Waiting Supplier Quote"
      BY <1>1, <1>a, <1>b, <2>2, TransitionStatus
    <2> QED
      BY <1>1, <1>b, <2>2, <2>3 DEF Overdue
  <1>2. CASE m # x
    <2>1. Blocked(clarification, m) => Blocked(clarification', m)
      BY <1>a, <1>b, StillBlocked DEF BlockingStatuses
    <2>2. row'[m] = row[m] /\ Live(m)
      BY <1>2, <1>a, <1>b DEF Overdue, Live
    <2> QED
      BY <1>b, <2>1, <2>2, StaysOverdue
  <1> QED
    BY <1>1, <1>2

\* Creating a quotation evaluates the waiting state, and completion if files came
\* with it; without files the new quotation is one more that waits for some.
LEMMA CreateKeepsUp ==
    ASSUME ProcTypeOK, NEW u \in Users, NEW x \in Requests, NEW q \in Quotations,
           NEW n \in 0 .. MaxFiles, CreateQuotation(u, q, x, n), NEW m \in Requests
    PROVE  KeepsUp(m)
  <1> SUFFICES ASSUME Overdue(m)' PROVE Overdue(m)
    BY DEF KeepsUp
  <1>a. row \in [Requests -> Rows] /\ quotation \in [Quotations -> QuotationRows]
    BY DEF ProcTypeOK, TypeOK
  <1>n. MaxFiles \in Nat /\ n \in Nat
    BY CallsAssumption
  <1> DEFINE b == Blocked(clarification, x)
             f == AllHaveFiles(quotation', x)
             s == StartPurchasingWork(row[x])
             w == EvaluateWaitingSupplierQuote(s, TRUE, b, FALSE)
             c == EvaluateCompleted(w, f)
  <1>b. /\ quotation[q].state = "none"
        /\ quotation' = [quotation EXCEPT ![q] =
                             [mr |-> x, state |-> "active", files |-> n]]
        /\ UNCHANGED <<presence, clarification>>
        /\ Live(x)
        /\ row' = [row EXCEPT ![x] = IF n > 0 THEN c ELSE w]
    BY DEF CreateQuotation, ByAssignee, Write
  <1>c. quotation'[q] = [mr |-> x, state |-> "active", files |-> n]
    BY <1>a, <1>b
  <1>d. \A p \in Quotations \ {q} : quotation'[p] = quotation[p]
    BY <1>a, <1>b
  <1>1. CASE m = x
    <2>1. b \in BOOLEAN /\ f \in BOOLEAN
      BY DEF Blocked, AllHaveFiles, HasQuotation
    <2>2. s \in Rows
      BY <1>a, TransitionStatus
    <2>3. w \in Rows /\ (w.workflow_status = "In Progress" => b)
      BY <2>1, <2>2, TransitionStatus
    <2>4. /\ c.workflow_status = "In Progress" => w.workflow_status = "In Progress"
          /\ c.workflow_status = "Waiting Supplier Quote" => ~f
      BY <2>1, <2>3, TransitionStatus
    <2>5. f => n > 0
      BY <1>c DEF AllHaveFiles, ActiveQuotations
    <2>6. row'[m] = IF n > 0 THEN c ELSE w
      BY <1>1, <1>a, <1>b
    <2>7. row'[m].workflow_status = "In Progress" => b
      BY <2>3, <2>4, <2>6
    <2>8. (row'[m].workflow_status = "Waiting Supplier Quote" /\ f) => FALSE
      BY <2>4, <2>5, <2>6
    <2> QED
      BY <1>1, <1>b, <2>7, <2>8 DEF Overdue
  <1>2. CASE m # x
    <2>1. /\ HasQuotation(quotation', m) => HasQuotation(quotation, m)
          /\ AllHaveFiles(quotation', m) => AllHaveFiles(quotation, m)
      <3>1. ActiveQuotations(quotation', m) = ActiveQuotations(quotation, m)
        BY <1>2, <1>b, <1>c, <1>d DEF ActiveQuotations
      <3>2. \A p \in ActiveQuotations(quotation, m) : quotation'[p] = quotation[p]
        BY <1>b, <1>d DEF ActiveQuotations
      <3> QED
        BY <3>1, <3>2 DEF HasQuotation, AllHaveFiles
    <2>2. row'[m] = row[m] /\ Live(m)
      BY <1>2, <1>a, <1>b DEF Overdue, Live
    <2> QED
      BY <1>b, <2>1, <2>2, StaysOverdue
  <1> QED
    BY <1>1, <1>2

\* A response, a forwarding and a follow-up leave a clarification that blocks.
LEMMA StatusKeepsUp ==
    ASSUME ProcTypeOK, NEW c \in Calls, NEW op \in {"respond", "forward", "follow up"},
           call[c].op = op, SetClarification(call[c].on, op),
           UNCHANGED <<presence, row, quotation>>, NEW m \in Requests
    PROVE  KeepsUp(m)
  <1> SUFFICES ASSUME Overdue(m)' PROVE Overdue(m)
    BY DEF KeepsUp
  <1> DEFINE k == call[c].on
             r == [clarification[k] EXCEPT !.status = NewStatus[op]]
  <1>1. k \in Clarifications
    BY CallUnderWay DEF ClarificationCalls
  <1>2. clarification \in [Clarifications -> ClarificationRows]
    BY DEF ProcTypeOK
  <1>3. NewStatus[op] \in BlockingStatuses
    BY DEF NewStatus, ClarificationCalls, BlockingStatuses
  <1>4. r.mr = clarification[k].mr /\ r.status \in BlockingStatuses
    BY <1>1, <1>2, <1>3 DEF ClarificationRows
  <1>5. clarification' = [clarification EXCEPT ![k] = r]
    BY DEF SetClarification
  <1> HIDE DEF r
  <1>6. Blocked(clarification, m) => Blocked(clarification', m)
    BY <1>1, <1>2, <1>4, <1>5, StillBlocked
  <1> QED
    BY <1>6, StaysOverdue DEF Overdue, Live

\* Resolving the last clarification that blocks evaluates the waiting state.
LEMMA ResolveKeepsUp ==
    ASSUME ProcTypeOK, NEW c \in Calls, Resolve(c), NEW m \in Requests
    PROVE  KeepsUp(m)
  <1> SUFFICES ASSUME Overdue(m)' PROVE Overdue(m)
    BY DEF KeepsUp
  <1>a. /\ row \in [Requests -> Rows]
        /\ clarification \in [Clarifications -> ClarificationRows]
    BY DEF ProcTypeOK, TypeOK
  <1> DEFINE k == call[c].on
             r == [clarification[k] EXCEPT !.status = NewStatus["resolve"]]
  <1>b. k \in Clarifications /\ clarification[k].mr \in Requests
    BY CallUnderWay DEF Resolve, ClarificationCalls
  <1>x. PICK x \in Requests : x = clarification[k].mr
    BY <1>b
  <1> DEFINE has == HasQuotation(quotation, x)
             b == Blocked(clarification', x)
             all == AllHaveFiles(quotation, x)
             w == EvaluateWaitingSupplierQuote(row[x], has, b, all)
  <1>c. /\ clarification' = [clarification EXCEPT ![k] = r]
        /\ UNCHANGED <<presence, quotation>>
        /\ Live(x)
        /\ row' = [row EXCEPT ![x] = w]
    BY <1>x DEF Resolve, SetClarification, ByAssignee, Write
  <1>1. CASE m = x
    <2>1. has \in BOOLEAN /\ b \in BOOLEAN /\ all \in BOOLEAN
      BY DEF Blocked, AllHaveFiles, HasQuotation
    <2>2. row'[m] = w /\ row[x] \in Rows
      BY <1>1, <1>a, <1>c
    <2>3. /\ w.workflow_status = "In Progress" => ~has \/ b
          /\ (w.workflow_status = "Waiting Supplier Quote" /\ all)
                => row[x].workflow_status = "Waiting Supplier Quote"
      BY <2>1, <2>2, TransitionStatus
    <2> QED
      BY <1>1, <1>c, <2>2, <2>3 DEF Overdue
  <1>2. CASE m # x
    <2>1. Blocked(clarification, m) => Blocked(clarification', m)
      BY <1>2, <1>a, <1>b, <1>x, <1>c, StillBlocked
    <2>2. row'[m] = row[m] /\ Live(m)
      BY <1>2, <1>a, <1>c DEF Overdue, Live
    <2> QED
      BY <1>c, <2>1, <2>2, StaysOverdue
  <1> QED
    BY <1>1, <1>2

\* Uploading evaluates completion with the new file row in place.
LEMMA UploadKeepsUp ==
    ASSUME ProcTypeOK, NEW c \in Calls, UploadFiles(c), NEW m \in Requests
    PROVE  KeepsUp(m)
  <1> SUFFICES ASSUME Overdue(m)' PROVE Overdue(m)
    BY DEF KeepsUp
  <1>a. /\ row \in [Requests -> Rows]
        /\ quotation \in [Quotations -> QuotationRows]
    BY DEF ProcTypeOK, TypeOK
  <1> DEFINE q == call[c].on
  <1>b. q \in Quotations /\ quotation[q].mr \in Requests
    BY CallUnderWay DEF UploadFiles, QuotationCalls
  <1>x. PICK x \in Requests : x = quotation[q].mr
    BY <1>b
  <1> DEFINE all == AllHaveFiles(quotation', x)
             e == EvaluateCompleted(row[x], all)
  <1>c. /\ quotation' = [quotation EXCEPT ![q].files = quotation[q].files + 1]
        /\ UNCHANGED <<presence, clarification>>
        /\ Live(x)
        /\ row' = [row EXCEPT ![x] = e]
    BY <1>x DEF UploadFiles, ByAssignee, Write
  <1>d. /\ quotation'[q].mr = quotation[q].mr
        /\ quotation'[q].state = quotation[q].state
        /\ \A p \in Quotations \ {q} : quotation'[p] = quotation[p]
    BY <1>a, <1>b, <1>c DEF QuotationRows
  <1>e. \A z : ActiveQuotations(quotation', z) = ActiveQuotations(quotation, z)
    BY <1>d DEF ActiveQuotations
  <1>f. \A z : HasQuotation(quotation', z) <=> HasQuotation(quotation, z)
    BY <1>e DEF HasQuotation
  <1>1. CASE m = x
    <2>1. all \in BOOLEAN
      BY DEF AllHaveFiles, HasQuotation
    <2>2. row'[m] = e /\ row[x] \in Rows
      BY <1>1, <1>a, <1>c
    <2>3. /\ e.workflow_status = "In Progress" => row[x].workflow_status = "In Progress"
          /\ e.workflow_status = "Waiting Supplier Quote" => ~all
      BY <2>1, <2>2, TransitionStatus
    <2> QED
      BY <1>1, <1>c, <1>f, <2>2, <2>3 DEF Overdue
  <1>2. CASE m # x
    <2>1. \A p \in ActiveQuotations(quotation, m) : quotation'[p] = quotation[p]
      BY <1>2, <1>x, <1>d DEF ActiveQuotations
    <2>2. AllHaveFiles(quotation', m) => AllHaveFiles(quotation, m)
      BY <1>e, <1>f, <2>1 DEF AllHaveFiles
    <2>3. row'[m] = row[m] /\ Live(m)
      BY <1>2, <1>a, <1>c DEF Overdue, Live
    <2> QED
      BY <1>c, <1>f, <2>2, <2>3, StaysOverdue
  <1> QED
    BY <1>1, <1>2

\* Deleting a file, and shelving: no evaluation, and none needed but for m shelved.
LEMMA ShelvingKeepsUp ==
    ASSUME ProcTypeOK, NEW c \in Calls, NEW m \in Requests,
           \/ DeleteFile(c)
           \/ SetArchived(c, "archive", "archived")
           \/ SetArchived(c, "restore", "active")
           \/ DeleteQuotation(c)
    PROVE  KeepsUp(m)
  <1> SUFFICES ASSUME Overdue(m)', ~Shelved(m) PROVE Overdue(m)
    BY DEF KeepsUp
  <1> DEFINE q == call[c].on
  <1>a. quotation \in [Quotations -> QuotationRows]
    BY DEF ProcTypeOK
  <1>b. q \in Quotations
    BY OnQuotation DEF DeleteFile, SetArchived, DeleteQuotation, QuotationCalls
  <1>c. quotation[q] \in QuotationRows /\ quotation[q].files \in Nat
    BY <1>a, <1>b, CallsAssumption DEF QuotationRows
  <1>d. UNCHANGED <<presence, row, clarification>>
    BY DEF DeleteFile, SetArchived, DeleteQuotation, vars
  <1>e. \A p \in Quotations \ {q} : quotation'[p] = quotation[p]
    BY <1>a, <1>b DEF DeleteFile, SetArchived, DeleteQuotation
  <1>f. /\ quotation'[q].mr = quotation[q].mr
        /\ quotation'[q].files > 0 => quotation[q].files > 0
    <2>1. \/ quotation' = [quotation EXCEPT ![q].files = quotation[q].files - 1]
          \/ \E st : quotation' = [quotation EXCEPT ![q].state = st]
          \/ quotation' = [quotation EXCEPT ![q].state = "deleted", ![q].files = 0]
      BY DEF DeleteFile, SetArchived, DeleteQuotation
    <2>2. CASE quotation' = [quotation EXCEPT ![q].files = quotation[q].files - 1]
      BY <2>2, <1>a, <1>b, <1>c DEF QuotationRows
    <2>3. ASSUME NEW st, quotation' = [quotation EXCEPT ![q].state = st]
          PROVE  quotation'[q].mr = quotation[q].mr
                 /\ quotation'[q].files = quotation[q].files
      BY <2>3, <1>a, <1>b, <1>c DEF QuotationRows
    <2>4. CASE quotation' = [quotation EXCEPT ![q].state = "deleted", ![q].files = 0]
      BY <2>4, <1>a, <1>b, <1>c DEF QuotationRows
    <2> QED
      BY <2>1, <2>2, <2>3, <2>4
  <1>g. quotation[q].mr = m => quotation'[q].state = quotation[q].state
    BY <1>b DEF Shelved
  <1>h. /\ HasQuotation(quotation', m) => HasQuotation(quotation, m)
        /\ AllHaveFiles(quotation', m) => AllHaveFiles(quotation, m)
    BY <1>e, <1>f, <1>g, QuotationsKept
  <1> QED
    BY <1>d, <1>h, StaysOverdue DEF Overdue, Live

-----------------------------------------------------------------------------
(* The theorem.                                                            *)

LEMMA StepKeepsUp ==
    ASSUME ProcTypeOK, [ProcNext]_procVars, NEW m \in Requests
    PROVE  KeepsUp(m)
  <1>1. CASE DeskStep
    <2> SUFFICES ASSUME Overdue(m)' PROVE Overdue(m)
      BY DEF KeepsUp
    <2>1. UNCHANGED <<clarification, quotation>>
      BY <1>1 DEF DeskStep, papers
    <2>2. Live(m)' /\ row'[m].workflow_status \in Awaited
      BY DEF Overdue, Awaited
    <2>3. Live(m) /\ row'[m].workflow_status = row[m].workflow_status
      BY <1>1, <2>2, DeskKeepsStatus DEF ProcTypeOK
    <2> QED
      BY <2>1, <2>3, StaysOverdue
  <1>2. ASSUME NEW c \in Calls,
               \/ \E op \in ClarificationCalls, k \in Clarifications :
                     BeginOnClarification(c, op, k)
               \/ \E op \in QuotationCalls, q \in Quotations : BeginOnQuotation(c, op, q)
               \/ Fail(c)
        PROVE  KeepsUp(m)
    BY <1>2 DEF BeginOnClarification, BeginOnQuotation, Fail, vars, KeepsUp, Overdue, Live
  <1>3. ASSUME NEW c \in Calls,
               \/ SubmitResponse(c)
               \/ ForwardOrFollowUp(c, "forward")
               \/ ForwardOrFollowUp(c, "follow up")
        PROVE  KeepsUp(m)
    BY <1>3, StatusKeepsUp DEF SubmitResponse, ForwardOrFollowUp, vars
  <1>4. CASE PaperStep
    BY <1>2, <1>3, <1>4, RecordKeepsUp, CreateKeepsUp, ResolveKeepsUp, UploadKeepsUp,
       ShelvingKeepsUp
    DEF PaperStep
  <1>5. CASE UNCHANGED procVars
    BY <1>5 DEF procVars, papers, vars, KeepsUp, Overdue, Live
  <1> QED
    BY <1>1, <1>4, <1>5 DEF ProcNext

\* Only archiving, restoring or deleting a quotation makes a transition overdue.
THEOREM WorkflowKeepsUp == ProcSpec => OverdueOnlyByShelving
  <1> DEFINE A == \A m \in Requests :
                     (~Overdue(m) /\ Overdue(m)')
                     => \E q \in Quotations :
                           /\ quotation[q].mr = m
                           /\ quotation'[q].state # quotation[q].state
  <1>1. ProcTypeOK /\ [ProcNext]_procVars => [A]_procVars
    BY StepKeepsUp DEF KeepsUp, Shelved
  <1>2. OverdueOnlyByShelving <=> [][A]_procVars
    BY DEF OverdueOnlyByShelving
  <1> HIDE DEF A
  <1> QED
    BY <1>1, <1>2, ProcTypeCorrect, PTL DEF ProcSpec
=================================================================================
