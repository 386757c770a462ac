------------------------------ MODULE Procurement ------------------------------
(***************************************************************************)
(* What the Purchasing Officers collect for a Material Request: supplier   *)
(* clarifications and supplier quotations with their files, and how they   *)
(* drive the workflow status.  RequestDesk leaves open what the workflow   *)
(* service reads in these tables; here it is read.                         *)
(*                                                                         *)
(* Granularity.  A service call reads a clarification or a quotation before *)
(* it takes the row lock of the request, or takes no lock at all, and then *)
(* updates WHERE id = ... only.  Such a call is two steps: a Begin that    *)
(* reads and decides, and the rest, which commits.  A file copy to the     *)
(* share may last minutes in between, with the request row locked.         *)
(*                                                                         *)
(* The papers of a deleted request are gone with it: no operation touches  *)
(* a clarification or a quotation whose request is not live.               *)
(***************************************************************************)
EXTENDS RequestDesk

CONSTANTS
    Clarifications,      \* ids of quotation.clarifications rows
    Quotations,          \* ids of quotation.supplier_quotations rows
    Calls,               \* service calls that may be under way
    Caller,              \* the signed-in user of each call
    Requester,           \* requested_by_user_id of each request
    MaxFiles             \* bound of the checked instance on file rows

ASSUME CallsAssumption ==
    /\ Caller \in [Calls -> Users]
    /\ Requester \in [Requests -> Users]
    /\ MaxFiles \in Nat

VARIABLES
    clarification,   \* the clarifications
    quotation,       \* the quotations; files counts supplier_quotation_files
    call             \* what each call under way has read and is about to do

papers == <<clarification, quotation, call>>

procVars == <<vars, papers>>

\* BLOCKING_CLARIFICATION_STATUSES
BlockingStatuses ==
    {"Awaiting Engineering Response", "Response Ready", "Forwarded to Supplier"}

ClarificationRows == [mr     : Requests \union {Null},
                      status : BlockingStatuses \union {"none", "Resolved"}]

QuotationRows == [mr    : Requests \union {Null},
                  state : {"none", "active", "archived", "deleted"},
                  files : 0 .. MaxFiles]

NoCall == [op |-> "none", on |-> Null]

ClarificationCalls == {"respond", "forward", "follow up", "resolve"}

QuotationCalls == {"upload", "delete file", "archive", "restore", "delete"}

ProcTypeOK ==
    /\ TypeOK
    /\ clarification \in [Clarifications -> ClarificationRows]
    /\ quotation \in [Quotations -> QuotationRows]
    /\ call \in [Calls -> {NoCall}
                          \union [op : ClarificationCalls, on : Clarifications]
                          \union [op : QuotationCalls, on : Quotations]]
    /\ \A k \in Clarifications :
          clarification[k].status # "none" => clarification[k].mr \in Requests
    /\ \A q \in Quotations :
          quotation[q].state # "none" => quotation[q].mr \in Requests
    /\ \A c \in Calls :
          /\ call[c].op \in ClarificationCalls => clarification[call[c].on].status # "none"
          /\ call[c].op \in QuotationCalls => quotation[call[c].on].state # "none"

ProcInit ==
    /\ Init
    /\ clarification = [k \in Clarifications |-> [mr |-> Null, status |-> "none"]]
    /\ quotation = [q \in Quotations |-> [mr |-> Null, state |-> "none", files |-> 0]]
    /\ call = [c \in Calls |-> NoCall]

-----------------------------------------------------------------------------
(* What MaterialRequestWorkflowService reads, in given tables.             *)

ActiveQuotations(quotes, m) ==
    {q \in Quotations : quotes[q].mr = m /\ quotes[q].state = "active"}

\* _has_active_supplier_quotation
HasQuotation(quotes, m) == ActiveQuotations(quotes, m) # {}

\* _all_active_quotations_have_files
AllHaveFiles(quotes, m) ==
    /\ HasQuotation(quotes, m)
    /\ \A q \in ActiveQuotations(quotes, m) : quotes[q].files > 0

\* _has_blocking_clarification
Blocked(clarifs, m) ==
    \E k \in Clarifications :
        clarifs[k].mr = m /\ clarifs[k].status \in BlockingStatuses

-----------------------------------------------------------------------------
(* Operations that read nothing before the row lock.                       *)

\* record_supplier_clarification
RecordSupplierClarification(u, k, m) ==
    /\ RecordClarification(u, m)
    /\ clarification[k].status = "none"
    /\ clarification' = [clarification EXCEPT ![k] =
                            [mr |-> m, status |-> "Awaiting Engineering Response"]]
    /\ UNCHANGED <<quotation, call>>

\* Mutant: completion is evaluated before the file rows are registered.
CompletesTooEarly(u, q, m, n) ==
    /\ ByAssignee(u, m)
    /\ quotation[q].state = "none"
    /\ quotation' = [quotation EXCEPT ![q] =
                        [mr |-> m, state |-> "active", files |-> n]]
    /\ Write(m, EvaluateWaitingSupplierQuote(
                    StartPurchasingWork(row[m]), TRUE,
                    Blocked(clarification, m), FALSE))
    /\ UNCHANGED <<presence, assignment, view, clock, clarification, call>>

\* SupplierQuotationProcess.create with n files.  The new quotation has no
\* file row yet when the waiting state is evaluated.
CreateQuotation(u, q, m, n) ==
    LET started == StartPurchasingWork(row[m])
        waiting == EvaluateWaitingSupplierQuote(
                       started, TRUE, Blocked(clarification, m), FALSE)
    IN
    /\ ByAssignee(u, m)
    /\ quotation[q].state = "none"
    /\ quotation' = [quotation EXCEPT ![q] =
                        [mr |-> m, state |-> "active", files |-> n]]
    /\ Write(m, IF n > 0
                  THEN EvaluateCompleted(waiting, AllHaveFiles(quotation', m))
                  ELSE waiting)
    /\ UNCHANGED <<presence, assignment, view, clock, clarification, call>>

-----------------------------------------------------------------------------
(* The calls that read first.                                              *)

\* The status that a clarification call wants to see, and the one it leaves.
WantedStatus == [op \in ClarificationCalls |->
    CASE op = "respond" -> "Awaiting Engineering Response"
      [] op = "forward" -> "Response Ready"
      [] op \in {"follow up", "resolve"} -> "Forwarded to Supplier"]

NewStatus == [op \in ClarificationCalls |->
    CASE op = "respond"   -> "Response Ready"
      [] op = "forward"   -> "Forwarded to Supplier"
      [] op = "follow up" -> "Awaiting Engineering Response"
      [] op = "resolve"   -> "Resolved"]

\* get_clarification_by_id, and what the call checks of it.
BeginOnClarification(c, op, k) ==
    /\ call[c] = NoCall
    /\ clarification[k].status = WantedStatus[op]
    /\ Live(clarification[k].mr)
    /\ call' = [call EXCEPT ![c] = [op |-> op, on |-> k]]
    /\ UNCHANGED <<vars, clarification, quotation>>

\* Restoring and deleting want an archived quotation, the others an active one.
WantedState(op) == IF op \in {"restore", "delete"} THEN "archived" ELSE "active"

\* The quotation and the request are read; _require_manage_permission and
\* _require_not_archived decide on what was read.
BeginOnQuotation(c, op, q) ==
    /\ call[c] = NoCall
    /\ quotation[q].state = WantedState(op)
    /\ ByAssignee(Caller[c], quotation[q].mr)
    /\ (op = "delete file" => quotation[q].files > 0)
    /\ call' = [call EXCEPT ![c] = [op |-> op, on |-> q]]
    /\ UNCHANGED <<vars, clarification, quotation>>

\* The call raises and rolls back: a participant or permission check under the
\* lock, a row that is gone, a deadlock, a lost connection.
Fail(c) ==
    /\ call[c] # NoCall
    /\ call' = [call EXCEPT ![c] = NoCall]
    /\ UNCHANGED <<vars, clarification, quotation>>

Done(c) == call' = [call EXCEPT ![c] = NoCall]

\* UPDATE quotation.clarifications SET status = ... WHERE id = ...
SetClarification(k, op) ==
    clarification' = [clarification EXCEPT ![k].status = NewStatus[op]]

\* submit_engineering_response
SubmitResponse(c) ==
    LET k == call[c].on IN
    /\ call[c].op = "respond"
    /\ Live(clarification[k].mr)
    /\ Requester[clarification[k].mr] = Caller[c]
    /\ SetClarification(k, "respond")
    /\ Done(c)
    /\ UNCHANGED <<vars, quotation>>

\* mark_forwarded_to_supplier, record_supplier_follow_up
ForwardOrFollowUp(c, op) ==
    LET k == call[c].on IN
    /\ call[c].op = op
    /\ ByAssignee(Caller[c], clarification[k].mr)
    /\ SetClarification(k, op)
    /\ Done(c)
    /\ UNCHANGED <<vars, quotation>>

\* resolve_clarification
Resolve(c) ==
    LET k == call[c].on
        m == clarification[k].mr
    IN
    /\ call[c].op = "resolve"
    /\ ByAssignee(Caller[c], m)
    /\ SetClarification(k, "resolve")
    /\ Write(m, EvaluateWaitingSupplierQuote(
                    row[m], HasQuotation(quotation, m),
                    Blocked(clarification', m), AllHaveFiles(quotation, m)))
    /\ Done(c)
    /\ UNCHANGED <<presence, assignment, view, clock, quotation>>

\* Mutant: the upload completes the request whatever its status is.
UploadCompletes(c) ==
    LET q == call[c].on
        m == quotation[q].mr
    IN
    /\ call[c].op = "upload"
    /\ ByAssignee(Caller[c], m)
    /\ quotation[q].state \in {"active", "archived"}
    /\ quotation[q].files < MaxFiles
    /\ quotation' = [quotation EXCEPT ![q].files = @ + 1]
    /\ Write(m, IF AllHaveFiles(quotation', m)
                  THEN WithStatus(row[m], "Completed")
                  ELSE row[m])
    /\ Done(c)
    /\ UNCHANGED <<presence, assignment, view, clock, clarification>>

\* SupplierQuotationProcess.upload_files: the quotation may be archived by now,
\* but evaluate_completed raises for anybody but the assignee of the moment.
UploadFiles(c) ==
    LET q == call[c].on
        m == quotation[q].mr
    IN
    /\ call[c].op = "upload"
    /\ ByAssignee(Caller[c], m)
    /\ quotation[q].state \in {"active", "archived"}
    /\ quotation[q].files < MaxFiles
    /\ quotation' = [quotation EXCEPT ![q].files = @ + 1]
    /\ Write(m, EvaluateCompleted(row[m], AllHaveFiles(quotation', m)))
    /\ Done(c)
    /\ UNCHANGED <<presence, assignment, view, clock, clarification>>

\* The row of quotation q exists.
Kept(q) == quotation[q].state \in {"active", "archived"} /\ Live(quotation[q].mr)

\* Mutant: that the file row was still there to delete is not checked.
DeleteFileUnchecked(c) ==
    LET q == call[c].on IN
    /\ call[c].op = "delete file"
    /\ Kept(q)
    /\ quotation' = [quotation EXCEPT ![q].files = @ - 1]
    /\ Done(c)
    /\ UNCHANGED <<vars, clarification>>

\* delete_file: no lock and no evaluation.
DeleteFile(c) ==
    LET q == call[c].on IN
    /\ call[c].op = "delete file"
    /\ Kept(q)
    /\ quotation[q].files > 0
    /\ quotation' = [quotation EXCEPT ![q].files = @ - 1]
    /\ Done(c)
    /\ UNCHANGED <<vars, clarification>>

\* archive, restore: no lock and no evaluation.
SetArchived(c, op, state) ==
    LET q == call[c].on IN
    /\ call[c].op = op
    /\ Kept(q)
    /\ quotation' = [quotation EXCEPT ![q].state = state]
    /\ Done(c)
    /\ UNCHANGED <<vars, clarification>>

\* delete: DELETE WHERE id, whatever the state is by now; the files cascade.
DeleteQuotation(c) ==
    LET q == call[c].on IN
    /\ call[c].op = "delete"
    /\ Kept(q)
    /\ quotation' = [quotation EXCEPT ![q].state = "deleted", ![q].files = 0]
    /\ Done(c)
    /\ UNCHANGED <<vars, clarification>>

-----------------------------------------------------------------------------

PaperStep ==
    \/ \E u \in Users, m \in Requests :
          \/ \E k \in Clarifications : RecordSupplierClarification(u, k, m)
          \/ \E q \in Quotations, n \in 0 .. MaxFiles : CreateQuotation(u, q, m, n)
    \/ \E c \in Calls :
          \/ \E op \in ClarificationCalls, k \in Clarifications :
                BeginOnClarification(c, op, k)
          \/ \E op \in QuotationCalls, q \in Quotations : BeginOnQuotation(c, op, q)
          \/ Fail(c)
          \/ SubmitResponse(c)
          \/ ForwardOrFollowUp(c, "forward")
          \/ ForwardOrFollowUp(c, "follow up")
          \/ Resolve(c)
          \/ UploadFiles(c)
          \/ DeleteFile(c)
          \/ SetArchived(c, "archive", "archived")
          \/ SetArchived(c, "restore", "active")
          \/ DeleteQuotation(c)

\* The desk, less the purchasing work that PaperStep details.
DeskStep ==
    /\ \/ \E m \in Requests : CreateRequest(m)
       \/ ViewStep
       \/ \E u \in Users, m \in Requests : RefreshBanner(u, m)
       \/ AssignmentStep
       \/ AdministrationStep
       \/ Tick
    /\ UNCHANGED papers

ProcNext ==
    \/ PaperStep
    \/ DeskStep

ProcSpec == ProcInit /\ [][ProcNext]_procVars

-----------------------------------------------------------------------------

\* With the papers in place every step is one the desk allows: the tables the
\* workflow service reads only settle what RequestDesk left open, and so what
\* holds of the desk holds here.
DeskImplemented == Spec

\* The next transition of the workflow is overdue: its condition holds, and no
\* call is left that would evaluate it.
Overdue(m) ==
    /\ Live(m)
    /\ \/ /\ row[m].workflow_status = "In Progress"
          /\ HasQuotation(quotation, m)
          /\ ~Blocked(clarification, m)
       \/ /\ row[m].workflow_status = "Waiting Supplier Quote"
          /\ AllHaveFiles(quotation, m)

\* However the calls of several clients interleave, the workflow keeps up with
\* the papers: concurrent uploads, resolutions and new quotations never leave a
\* request in a status it should have left.  Only archiving, restoring or
\* deleting a quotation, which evaluate nothing, can make a transition overdue.
OverdueOnlyByShelving ==
    [][\A m \in Requests :
          (~Overdue(m) /\ Overdue(m)')
          => \E q \in Quotations :
                /\ quotation[q].mr = m
                /\ quotation'[q].state # quotation[q].state]_procVars

\* "Resolved clarifications are fully read-only."
ResolvedReadOnly ==
    [][\A k \in Clarifications :
          (clarification[k].status = "Resolved" /\ Live(clarification[k].mr))
          => clarification'[k] = clarification[k]]_procVars

=============================================================================
