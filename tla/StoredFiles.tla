------------------------------ MODULE StoredFiles ------------------------------
(***************************************************************************)
(* The files of one Material Request: attachments and supplier quotation   *)
(* files, which lie on a network share, and the rows that register them,   *)
(* which lie in the database.  Nothing commits both.  An upload copies     *)
(* first and removes its copies when the transaction fails; a deletion     *)
(* renames the file into quarantine first, and puts it back or unlinks it  *)
(* once the transaction is over; a deleted request loses its folder after  *)
(* the commit.                                                             *)
(*                                                                         *)
(* Granularity.  Choosing a free name and copying to it are two steps, as  *)
(* are the file operations and the commit of one call.  The quotations are *)
(* of one supplier and so share a folder, which is the interesting case.   *)
(* The name of a folder holds the name of the project, which may change.   *)
(***************************************************************************)
EXTENDS Integers, FiniteSets, Sequences

CONSTANTS
    Quotations,       \* supplier quotations of the request
    Calls,            \* service calls, each made once
    Names,            \* stored filenames
    Candidates,       \* per call: the names it tries, "x.pdf", "x (1).pdf", ...
    MaxCopies,        \* most files of one upload
    MaxRenames,       \* bound of the checked instance on project renames
    Overlap,          \* whether calls of several clients overlap
    Failures,         \* whether transactions and file operations fail
    Crashes,          \* whether clients die
    LostAnswers,      \* whether a commit may succeed and yet raise
    Null

FilesAssumption ==
    /\ Candidates \in [Calls -> Seq(Names)]
    /\ MaxCopies \in Nat \ {0}
    /\ MaxRenames \in Nat
    /\ Null \notin Names \union [call : Calls, file : 1 .. MaxCopies]
    /\ "request" \notin Quotations

VARIABLES
    presence,     \* of the request: absent, live or deleted
    quotation,    \* of each quotation: absent, active, archived or deleted
    rows,         \* committed rows of both tables of files
    share,        \* what lies under each path of the share
    project,      \* version of the project's name
    call          \* what each call is about

vars == <<presence, quotation, rows, share, project, call>>

Owners == Quotations \union {"request"}

Projects == 0 .. MaxRenames

Paths == [place : {"attachments", "supplier"}, project : Projects, name : Names]

\* A file is told by the upload that brought it: its call and its position.
Contents == [call : Calls, file : 1 .. MaxCopies]

\* Attachment rows keep no folder; it is 0 there.
FileRows == [owner : Owners, content : Contents, folder : Projects, name : Names]

Place(owner) == IF owner = "request" THEN "attachments" ELSE "supplier"

\* The path of a registered file: folder_path is stored with a quotation file;
\* that of an attachment is made from the project's name of the moment.
PathOf(r, now) ==
    [place   |-> Place(r.owner),
     project |-> IF r.owner = "request" THEN now ELSE r.folder,
     name    |-> r.name]

Uploads == {"create", "save", "upload attachments", "new quotation", "upload files"}

FileDeletions == {"delete attachment", "delete file", "delete quotation"}

\* until its commit, a call that updates the request row keeps it locked
HoldsRequest == {"save", "new quotation"}

CallStates ==
    [op     : Uploads \union FileDeletions \union {"none", "delete request"},
     owner  : Owners,
     step   : {"idle", "copying", "hiding", "checked", "committed", "raised",
               "over", "failed", "dead"},
     folder : Projects,
     left   : 0 .. MaxCopies,                    \* files still to copy
     name   : Names \union {Null},               \* free a moment ago
     copied : SUBSET FileRows,                   \* copies, as rows to be
     target : SUBSET FileRows,                   \* rows to be deleted
     hidden : SUBSET (Paths \X Contents)]        \* files in quarantine

Idle == [op |-> "none", owner |-> "request", step |-> "idle", folder |-> 0,
         left |-> 0, name |-> Null, copied |-> {}, target |-> {}, hidden |-> {}]

TypeOK ==
    /\ presence \in {"absent", "live", "deleted"}
    /\ quotation \in [Quotations -> {"absent", "active", "archived", "deleted"}]
    /\ rows \subseteq FileRows
    /\ share \in [Paths -> Contents \union {Null}]
    /\ project \in Projects
    /\ call \in [Calls -> CallStates]

Init ==
    /\ presence = "absent"
    /\ quotation = [q \in Quotations |-> "absent"]
    /\ rows = {}
    /\ share = [p \in Paths |-> Null]
    /\ project = 0
    /\ call = [c \in Calls |-> Idle]

Underway(c) == call[c].step \notin {"idle", "over", "failed", "dead"}

MayBegin(c) ==
    /\ call[c].step = "idle"
    /\ Overlap \/ \A d \in Calls : ~Underway(d)

\* SELECT ... FOR UPDATE of the request would wait for another call.
RequestLocked(c) ==
    \E d \in Calls \ {c} :
        call[d].op \in HoldsRequest /\ call[d].step = "copying"

Becomes(c, s) == call' = [call EXCEPT ![c] = s]

-----------------------------------------------------------------------------
(* Uploads.                                                                *)

\* create_material_request copies before it inserts anything.
BeginCreate(c, n) ==
    /\ MayBegin(c)
    /\ presence = "absent"
    /\ \A d \in Calls : call[d].op # "create"
    /\ Becomes(c, [Idle EXCEPT !.op = "create", !.step = "copying", !.left = n,
                               !.folder = project])
    /\ UNCHANGED <<presence, quotation, rows, share, project>>

\* update_material_request with new attachments, which locks and updates the
\* row first, and MaterialRequestAttachmentProcess.upload_files, which does not.
BeginAttach(c, op, n) ==
    /\ MayBegin(c)
    /\ presence = "live"
    /\ op \in {"save", "upload attachments"}
    /\ op = "save" => ~RequestLocked(c)
    /\ n > 0
    /\ Becomes(c, [Idle EXCEPT !.op = op, !.step = "copying", !.left = n,
                               !.folder = project])
    /\ UNCHANGED <<presence, quotation, rows, share, project>>

\* SupplierQuotationProcess.create: the row lock comes with
\* start_purchasing_work, before the files are copied.
BeginQuotation(c, q, n) ==
    /\ MayBegin(c)
    /\ presence = "live"
    /\ quotation[q] = "absent"
    /\ ~RequestLocked(c)
    /\ \A d \in Calls : call[d].op = "new quotation" => call[d].owner # q
    /\ Becomes(c, [Idle EXCEPT !.op = "new quotation", !.owner = q,
                               !.step = "copying", !.left = n, !.folder = project])
    /\ UNCHANGED <<presence, quotation, rows, share, project>>

\* SupplierQuotationProcess.upload_files.
BeginUpload(c, q, n) ==
    /\ MayBegin(c)
    /\ presence = "live"
    /\ quotation[q] \in {"active", "archived"}
    /\ n > 0
    /\ Becomes(c, [Idle EXCEPT !.op = "upload files", !.owner = q,
                               !.step = "copying", !.left = n, !.folder = project])
    /\ UNCHANGED <<presence, quotation, rows, share, project>>

\* The folder of the deleted request is gone, and the request stays deleted.
FolderGone(f) ==
    \E d \in Calls :
        call[d].op = "delete request" /\ call[d].step = "over" /\ call[d].folder = f

PathFor(c, n) ==
    [place |-> Place(call[c].owner), project |-> call[c].folder, name |-> n]

\* _build_unique_destination: the first candidate that is free.
UniqueName(c, n) ==
    \E i \in 1 .. Len(Candidates[c]) :
        /\ n = Candidates[c][i]
        /\ share[PathFor(c, n)] = Null
        /\ \A j \in 1 .. i - 1 : share[PathFor(c, Candidates[c][j])] # Null

ChooseName(c) ==
    /\ call[c].step = "copying" /\ call[c].left > 0 /\ call[c].name = Null
    /\ ~FolderGone(call[c].folder)
    /\ \E n \in Names :
          UniqueName(c, n) /\ Becomes(c, [call[c] EXCEPT !.name = n])
    /\ UNCHANGED <<presence, quotation, rows, share, project>>

\* shutil.copy2: what lies there by now is overwritten.
CopyFile(c) ==
    LET content == [call |-> c, file |-> call[c].left]
        name == call[c].name
    IN
    /\ call[c].step = "copying" /\ name # Null
    /\ ~FolderGone(call[c].folder)
    /\ share' = [share EXCEPT ![PathFor(c, name)] = content]
    /\ Becomes(c, [call[c] EXCEPT
          !.left = @ - 1, !.name = Null,
          !.copied = @ \union {[owner |-> call[c].owner, content |-> content,
                                folder |-> IF call[c].owner = "request"
                                             THEN 0 ELSE call[c].folder,
                                name |-> name]}])
    /\ UNCHANGED <<presence, quotation, rows, project>>

\* A source that is gone, a full disk, a broken connection: _copy_files raises,
\* and what it had copied is not in the caller's copied_files.
CopyFails(c) ==
    /\ call[c].step = "copying" /\ call[c].left > 0
    /\ Failures \/ FolderGone(call[c].folder)
    /\ Becomes(c, [call[c] EXCEPT !.step = "raised", !.copied = {}])
    /\ UNCHANGED <<presence, quotation, rows, share, project>>

\* What register_file or register_attachment, the keys of the tables and the
\* evaluation of the workflow want to see when the rows are written.
Accepts(c) ==
    CASE call[c].op = "create"        -> TRUE
      [] call[c].op = "new quotation" -> presence = "live"
      [] call[c].owner = "request"    -> presence = "live"
      [] call[c].op = "upload files"  ->
            /\ presence = "live"
            /\ quotation[call[c].owner] = "active"
            /\ \A r \in rows : r.owner = call[c].owner =>
                  \A s \in call[c].copied : r.name # s.name
      [] OTHER -> FALSE

\* Two files of one upload that got one name violate the key of the table of
\* quotation files; that of attachments has none.
Distinct(c) ==
    call[c].owner # "request" =>
        \A r, s \in call[c].copied : r.name = s.name => r = s

\* upload_files of a quotation evaluates completion under the row lock.
CommitCopies(c) ==
    /\ call[c].step = "copying" /\ call[c].left = 0
    /\ call[c].op = "upload files" => ~RequestLocked(c)
    /\ Accepts(c)
    /\ Distinct(c)
    /\ rows' = rows \union call[c].copied
    /\ presence' = IF call[c].op = "create" THEN "live" ELSE presence
    /\ quotation' = IF call[c].op = "new quotation"
                      THEN [quotation EXCEPT ![call[c].owner] = "active"]
                      ELSE quotation
    /\ \/ Becomes(c, [call[c] EXCEPT !.step = "over"])
       \/ LostAnswers /\ Becomes(c, [call[c] EXCEPT !.step = "raised"])
    /\ UNCHANGED <<share, project>>

\* The rows are refused, or the transaction fails for any other reason.
RefuseCopies(c) ==
    /\ call[c].step = "copying" /\ call[c].left = 0
    /\ Failures \/ ~Accepts(c) \/ ~Distinct(c)
    /\ Becomes(c, [call[c] EXCEPT !.step = "raised"])
    /\ UNCHANGED <<presence, quotation, rows, share, project>>

\* create_material_request and update_material_request have no compensation.
Compensated(c) == call[c].op \notin {"create", "save"}

\* Mutant: nothing is cleaned up.
CleanUpNothing(c) ==
    /\ call[c].op \in Uploads /\ call[c].step = "raised"
    /\ Becomes(c, [call[c] EXCEPT !.step = "failed"])
    /\ UNCHANGED <<presence, quotation, rows, share, project>>

\* _cleanup_copied_files: whatever lies under the names it copied to.
CleanUp(c) ==
    /\ call[c].op \in Uploads /\ call[c].step = "raised"
    /\ share' = IF Compensated(c)
                  THEN [p \in Paths |->
                          IF \E r \in call[c].copied : p = PathFor(c, r.name)
                            THEN Null ELSE share[p]]
                  ELSE share
    /\ Becomes(c, [call[c] EXCEPT !.step = "failed"])
    /\ UNCHANGED <<presence, quotation, rows, project>>

-----------------------------------------------------------------------------
(* Deletions.                                                              *)

\* The row of one file, or the rows that list_files returns, are read.
BeginDeletion(c, op, owner, target) ==
    /\ MayBegin(c)
    /\ presence = "live"
    /\ target \subseteq {r \in rows : r.owner = owner}
    /\ CASE op = "delete quotation" ->
              /\ owner # "request" /\ quotation[owner] \in {"active", "archived"}
              /\ target = {r \in rows : r.owner = owner}
         [] op = "delete file"       -> owner # "request" /\ Cardinality(target) = 1
         [] op = "delete attachment" -> owner = "request" /\ Cardinality(target) = 1
    /\ Becomes(c, [Idle EXCEPT !.op = op, !.owner = owner, !.step = "hiding",
                               !.folder = project, !.target = target])
    /\ UNCHANGED <<presence, quotation, rows, share, project>>

HiddenFrom(c) == {h[1] : h \in call[c].hidden}

TargetPath(c, r) == PathOf(r, call[c].folder)

\* Mutant: the file is unlinked instead of renamed.
UnlinkFile(c, r) ==
    LET p == TargetPath(c, r) IN
    /\ call[c].step = "hiding"
    /\ r \in call[c].target
    /\ share[p] # Null
    /\ share' = [share EXCEPT ![p] = Null]
    /\ Becomes(c, call[c])
    /\ UNCHANGED <<presence, quotation, rows, project>>

\* _quarantine_file: os.replace to a name with a fresh uuid.  A file that is
\* not there is passed over.
HideFile(c, r) ==
    LET p == TargetPath(c, r) IN
    /\ call[c].step = "hiding"
    /\ r \in call[c].target
    /\ share[p] # Null
    /\ p \notin HiddenFrom(c)
    /\ share' = [share EXCEPT ![p] = Null]
    /\ Becomes(c, [call[c] EXCEPT !.hidden = @ \union {<<p, share[p]>>}])
    /\ UNCHANGED <<presence, quotation, rows, project>>

AllHidden(c) ==
    \A r \in call[c].target :
        share[TargetPath(c, r)] = Null \/ TargetPath(c, r) \in HiddenFrom(c)

\* The row that the DELETE names is still there.
TargetExists(c) ==
    IF call[c].op = "delete quotation"
      THEN quotation[call[c].owner] \in {"active", "archived"}
      ELSE call[c].target \subseteq rows

\* delete_file_metadata wants an active quotation, delete an archived one;
\* attachments have no such state.
MayDelete(c) ==
    /\ TargetExists(c)
    /\ call[c].op = "delete file" => quotation[call[c].owner] = "active"
    /\ call[c].op = "delete quotation" => quotation[call[c].owner] = "archived"

\* The service reads the row again and checks its state, without locking it.
CheckDeletion(c) ==
    /\ call[c].step = "hiding"
    /\ AllHidden(c)
    /\ MayDelete(c)
    /\ Becomes(c, [call[c] EXCEPT !.step = "checked"])
    /\ UNCHANGED <<presence, quotation, rows, share, project>>

\* DELETE ... WHERE id = ...: the rows go, those of a deleted quotation by
\* cascade, whatever the quotation's state is by now.
CommitDeletion(c) ==
    /\ call[c].step = "checked"
    /\ TargetExists(c)
    /\ rows' = IF call[c].op = "delete quotation"
                 THEN {r \in rows : r.owner # call[c].owner}
                 ELSE rows \ call[c].target
    /\ quotation' = IF call[c].op = "delete quotation"
                      THEN [quotation EXCEPT ![call[c].owner] = "deleted"]
                      ELSE quotation
    /\ \/ Becomes(c, [call[c] EXCEPT !.step = "committed"])
       \/ LostAnswers /\ Becomes(c, [call[c] EXCEPT !.step = "raised"])
    /\ UNCHANGED <<presence, share, project>>

\* The row or the quotation is gone or in the wrong state, no permission, a
\* rename that failed, a lost connection.
RefuseDeletion(c) ==
    /\ \/ call[c].step = "hiding" /\ (Failures \/ (AllHidden(c) /\ ~MayDelete(c)))
       \/ call[c].step = "checked" /\ (Failures \/ ~TargetExists(c))
    /\ Becomes(c, [call[c] EXCEPT !.step = "raised"])
    /\ UNCHANGED <<presence, quotation, rows, share, project>>

\* _delete_quarantined_file
Purge(c) ==
    /\ call[c].op \in FileDeletions /\ call[c].step = "committed"
    /\ Becomes(c, [call[c] EXCEPT !.step = "over", !.hidden = {}])
    /\ UNCHANGED <<presence, quotation, rows, share, project>>

\* unlink raises (the file is open somewhere), inside the same try: the files
\* not yet unlinked are put back although their rows are gone.
PurgeFails(c) ==
    /\ Failures
    /\ call[c].op \in FileDeletions /\ call[c].step = "committed"
    /\ \E left \in SUBSET call[c].hidden :
          /\ left # {}
          /\ Becomes(c, [call[c] EXCEPT !.step = "raised", !.hidden = left])
    /\ UNCHANGED <<presence, quotation, rows, share, project>>

\* Mutant: the quarantined files are not put back.
LeaveHidden(c) ==
    /\ call[c].op \in FileDeletions /\ call[c].step = "raised"
    /\ Becomes(c, [call[c] EXCEPT !.step = "failed"])
    /\ UNCHANGED <<presence, quotation, rows, share, project>>

\* _restore_quarantined_file: os.replace overwrites what lies there by now.
RestoreHidden(c) ==
    /\ call[c].op \in FileDeletions /\ call[c].step = "raised"
    /\ share' = [p \in Paths |->
                    IF \E h \in call[c].hidden : h[1] = p
                      THEN (CHOOSE h \in call[c].hidden : h[1] = p)[2]
                      ELSE share[p]]
    /\ Becomes(c, [call[c] EXCEPT !.step = "failed", !.hidden = {}])
    /\ UNCHANGED <<presence, quotation, rows, project>>

\* delete_material_request: the rows of everything, in one commit.
DeleteRequest(c) ==
    /\ MayBegin(c)
    /\ presence = "live"
    /\ ~RequestLocked(c)
    /\ presence' = "deleted"
    /\ quotation' = [q \in Quotations |->
                       IF quotation[q] = "absent" THEN "absent" ELSE "deleted"]
    /\ rows' = {}
    /\ \E s \in {"committed"} \union (IF LostAnswers THEN {"failed"} ELSE {}) :
          Becomes(c, [Idle EXCEPT !.op = "delete request", !.step = s,
                                  !.folder = project])
    /\ UNCHANGED <<share, project>>

\* delete_material_request_folder, after the commit: shutil.rmtree of the
\* folder under the project's present name, quarantined files included.
RemoveFolder(c) ==
    /\ call[c].op = "delete request" /\ call[c].step = "committed"
    /\ share' = [p \in Paths |->
                    IF p.project = call[c].folder THEN Null ELSE share[p]]
    /\ call' = [d \in Calls |->
                  IF d = c THEN [call[c] EXCEPT !.step = "over"]
                  ELSE [call[d] EXCEPT
                          !.hidden = {h \in @ : h[1].project # call[c].folder}]]
    /\ UNCHANGED <<presence, quotation, rows, project>>

\* MaterialRequestStorageCleanupError: the folder stays.
RemoveFolderFails(c) ==
    /\ Failures
    /\ call[c].op = "delete request" /\ call[c].step = "committed"
    /\ Becomes(c, [call[c] EXCEPT !.step = "failed"])
    /\ UNCHANGED <<presence, quotation, rows, share, project>>

-----------------------------------------------------------------------------

\* The client dies.  The server rolls back; nothing looks after the share.
Crash(c) ==
    /\ Crashes
    /\ Underway(c)
    /\ Becomes(c, [call[c] EXCEPT !.step = "dead"])
    /\ UNCHANGED <<presence, quotation, rows, share, project>>

\* SupplierQuotationProcess.archive and restore.
ToggleArchived(q) ==
    /\ presence = "live"
    /\ quotation[q] \in {"active", "archived"}
    /\ quotation' = [quotation EXCEPT ![q] =
                        IF @ = "active" THEN "archived" ELSE "active"]
    /\ UNCHANGED <<presence, rows, share, project, call>>

\* ProjectService.update_project; a save locks the project with the request.
RenameProject ==
    /\ project < MaxRenames
    /\ \A c \in Calls : ~(call[c].op = "save" /\ call[c].step = "copying")
    /\ project' = project + 1
    /\ UNCHANGED <<presence, quotation, rows, share, call>>

Begin(c) ==
    \/ \E n \in 0 .. MaxCopies :
          \/ BeginCreate(c, n)
          \/ \E op \in {"save", "upload attachments"} : BeginAttach(c, op, n)
          \/ \E q \in Quotations : BeginQuotation(c, q, n) \/ BeginUpload(c, q, n)
    \/ \E op \in FileDeletions, owner \in Owners :
          \E target \in SUBSET {r \in rows : r.owner = owner} :
              BeginDeletion(c, op, owner, target)
    \/ DeleteRequest(c)

Next ==
    \/ \E c \in Calls :
          \/ Begin(c)
          \/ ChooseName(c) \/ CopyFile(c) \/ CopyFails(c)
          \/ CommitCopies(c) \/ RefuseCopies(c) \/ CleanUp(c)
          \/ \E r \in call[c].target : HideFile(c, r)
          \/ CheckDeletion(c) \/ CommitDeletion(c) \/ RefuseDeletion(c)
          \/ Purge(c) \/ PurgeFails(c) \/ RestoreHidden(c)
          \/ RemoveFolder(c) \/ RemoveFolderFails(c)
          \/ Crash(c)
    \/ \E q \in Quotations : ToggleArchived(q)
    \/ RenameProject

Spec == Init /\ [][Next]_vars

-----------------------------------------------------------------------------

\* While files are copied, hidden, restored and removed by calls that overlap,
\* fail at any step and die, what a committed row stands for is never lost: it
\* lies under some name on the share or in some call's quarantine
\* (_quarantine_file before the DELETE, unlink only after the commit).
ContentKept ==
    \A r \in rows :
        \/ \E p \in Paths : share[p] = r.content
        \/ \E c \in Calls : \E h \in call[c].hidden : h[2] = r.content

BeingDeleted(r) ==
    \E c \in Calls : Underway(c) /\ r \in call[c].target

\* Whoever opens a registered file finds it where the row says, and finds that
\* file and no other, unless a deletion of it is under way: failed uploads,
\* refused deletions and other calls' compensations leave it alone
\* (_cleanup_copied_files, _restore_quarantined_file, rmtree).
RowsHaveTheirFiles ==
    \A r \in rows : BeingDeleted(r) \/ share[PathOf(r, project)] = r.content

\* What the code does not clean up: the copies of a failed create or save, of
\* an upload whose next copy failed, the files put back after their rows went,
\* and the folder of a deleted request.
KnownLeftover(content) ==
    \/ LET d == call[content.call] IN
         d.step = "failed" /\ (d.op \in {"create", "save"} \/ d.left > 0)
    \/ \E c \in Calls :
          /\ call[c].op \in FileDeletions /\ call[c].step = "failed"
          /\ \E r \in call[c].target : r.content = content
    \/ \E c \in Calls : call[c].op = "delete request" /\ call[c].step = "failed"

\* Once all calls are over, a file on the share is registered, or it is one of
\* the known leftovers: nothing else survives its failed upload, its deleted
\* row or its deleted request.
OnlyKnownLeftovers ==
    (\A c \in Calls : ~Underway(c)) =>
        \A p \in Paths :
            \/ share[p] = Null
            \/ \E r \in rows : r.content = share[p] /\ PathOf(r, project) = p
            \/ KnownLeftover(share[p])
=============================================================================
