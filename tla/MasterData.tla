------------------------------ MODULE MasterData ------------------------------
(***************************************************************************)
(* Master data: clients, their projects and their sites (ClientService,    *)
(* ProjectService, SiteService with their repositories, management views   *)
(* and dialogs), and the Material Requests that are created for a project  *)
(* and a site.                                                             *)
(*                                                                         *)
(* The user picks a row of a list that was loaded some time ago, or opens a*)
(* dialog with the active parents of that time; the service then checks in *)
(* a READ COMMITTED transaction, without a lock, and writes the row later  *)
(* in that transaction.  The three services are one design, told apart by  *)
(* Owners: a record whose Owners is empty is a client.  Names stand for    *)
(* LOWER(BTRIM(name)); codes stand for their number.                       *)
(***************************************************************************)
EXTENDS Integers, FiniteSets, FiniteSetsExt

CONSTANTS
  Clients, Projects, Sites, \* identities of records
  Existing,                 \* the records that are there from the start
  Names, Callers,
  Requests,                 \* identities of Material Requests
  None,
  Overlap,                  \* may two transactions of the services overlap?
  MaxCalls                  \* bound: dialogs and confirmations

Records == Clients \cup Projects \cup Sites

Steps == {"picked", "checked", "locked", "coded"}

\* A row, the fields of a dialog, a confirmed change of the status, and the
\* form of a Material Request.
RowRecords == [code : Nat \ {0}, name : Names, owner : Records \cup {None},
               active : BOOLEAN]
Dialogs == [op : {"create", "update"}, record : Records, name : Names,
            owner : Records \cup {None}, code : Nat, step : Steps]
Confirmations == [op : {"deactivate", "restore"}, record : Records,
                  code : Nat, step : {"picked", "checked"}]
Forms == [op : {"request"}, record : Requests, site : Sites,
          project : Projects, step : {"picked", "checked"}]

ASSUME MasterDataAssumption ==
  /\ Clients \cap Projects = {} /\ (Clients \cup Projects) \cap Sites = {}
  /\ Existing \subseteq Records /\ IsFiniteSet(Records)
  /\ Overlap \in BOOLEAN /\ MaxCalls \in Nat
  /\ None \notin Records \cup Names
  /\ None \notin RowRecords \cup Dialogs \cup Confirmations \cup Forms

VARIABLES
  row,     \* master.clients, master.projects, master.sites
  call,    \* what each caller is doing
  request, \* project and site of quotation.material_requests
  calls

vars == <<row, call, request, calls>>

Level(r) == CASE r \in Clients -> Clients [] r \in Projects -> Projects
              [] OTHER -> Sites
Owners(r) == CASE r \in Clients -> {} [] r \in Projects -> Clients
               [] OTHER -> Projects

Rows == {r \in Records : row[r] # None}
ActiveRows == {r \in Rows : row[r].active}

\* Owners, projects and sites are rows: the foreign keys.
TypeOK ==
  /\ row \in [Records -> RowRecords \cup {None}]
  /\ \A r \in Rows : row[r].owner \in IF Owners(r) = {} THEN {None}
                                      ELSE Owners(r) \cap Rows
  /\ call \in [Callers -> Dialogs \cup Confirmations \cup Forms \cup {None}]
  /\ \A c \in Callers : call[c] # None /\ call[c].step \in {"locked", "coded"} =>
       call[c].op = "create"
  /\ request \in [Requests -> [project : Projects \cap Rows, site : Sites \cap Rows]
                              \cup {None}]
  /\ calls \in 0..MaxCalls

-----------------------------------------------------------------------------
(* The tables: what is unique in them.                                     *)

SameLevel(r) == Rows \cap Level(r)

\* active_project_name_exists, name_exists: another active row has the name.
NameTaken(r, name, owner) ==
  \E s \in (SameLevel(r) \cap ActiveRows) \ {r} :
    row[s].name = name /\ row[s].owner = owner

CodeTaken(r, code) == \E s \in SameLevel(r) \ {r} : row[s].code = code

\* Mutant: no partial unique index over the names of active rows.
CodeIndexOnly(r, new) == CodeTaken(r, new.code)

\* uq_master_*_active_*name and uq_master_*_code.
Violates(r, new) ==
  \/ CodeTaken(r, new.code)
  \/ new.active /\ NameTaken(r, new.name, new.owner)

HighestCode(r) == Max({row[s].code : s \in SameLevel(r)} \cup {0})

Numbered(code) ==
  \A r \in Existing :
    {code[s] : s \in Existing \cap Level(r)} = 1..Cardinality(Existing \cap Level(r))

\* Some records; a row may be active under an inactive owner.
Init ==
  /\ \E code \in [Existing -> 1..Cardinality(Existing)] : Numbered(code) /\
     \E owner \in [Existing -> Existing \cup {None}] :
       /\ \A r \in Existing : IF Owners(r) = {} THEN owner[r] = None
                              ELSE owner[r] \in Owners(r)
       /\ \E name \in [Existing -> Names], active \in [Existing -> BOOLEAN] :
            row = [r \in Records |-> IF r \notin Existing THEN None
                     ELSE [code |-> code[r], name |-> name[r],
                           owner |-> owner[r], active |-> active[r]]]
  /\ \A r \in ActiveRows : ~NameTaken(r, row[r].name, row[r].owner)
  /\ call = [c \in Callers |-> None] /\ request = [q \in Requests |-> None]
  /\ calls = 0

-----------------------------------------------------------------------------
(* The user: a row of a list, an owner of a drop-down.                     *)

MayPick(c) == call[c] = None /\ calls < MaxCalls

Pick(c, picked) ==
  /\ MayPick(c) /\ calls' = calls + 1
  /\ call' = [call EXCEPT ![c] = picked]
  /\ UNCHANGED <<row, request>>

\* The owners a dialog offers: the active ones, and the one the row has.
Offered(r) ==
  IF Owners(r) = {} THEN {None}
  ELSE Owners(r) \cap (ActiveRows \cup IF r \in Rows THEN {row[r].owner} ELSE {})

PickCreate(c) == \E r \in Records \ Rows, name \in Names :
  \E owner \in Offered(r) :
    /\ \A d \in Callers : call[d] # None => call[d].record # r
    /\ Pick(c, [op |-> "create", record |-> r, name |-> name, owner |-> owner,
                code |-> 0, step |-> "picked"])

\* The management views refuse to edit a row that the list shows as inactive.
PickUpdate(c) == \E r \in ActiveRows, name \in Names :
  \E owner \in Offered(r) :
    Pick(c, [op |-> "update", record |-> r, name |-> name, owner |-> owner,
             code |-> row[r].code, step |-> "picked"])

PickStatus(c) == \E r \in Rows :
  Pick(c, [op |-> IF row[r].active THEN "deactivate" ELSE "restore",
           record |-> r, code |-> row[r].code, step |-> "picked"])

\* The form of a new request: an active project, and an active site of it.
PickRequest(c) == \E q \in Requests, s \in Sites \cap ActiveRows :
  /\ request[q] = None
  /\ \A d \in Callers : call[d] # None => call[d].record # q
  /\ row[s].owner \in ActiveRows
  /\ Pick(c, [op |-> "request", record |-> q, site |-> s,
              project |-> row[s].owner, step |-> "picked"])

-----------------------------------------------------------------------------
(* The services: the checks at the start of the transaction ...            *)

InTransaction(c) == call[c] # None /\ call[c].step # "picked"

MayStart(c) ==
  /\ call[c] # None /\ call[c].step = "picked"
  /\ Overlap \/ \A d \in Callers : ~InTransaction(d)

\* _require_active_client, _require_active_project
OwnerActive(owner) == owner = None \/ owner \in ActiveRows

\* Mutant: only the name is checked when a record is restored.
RestoreByName(r) ==
  ~row[r].active /\ ~NameTaken(r, row[r].name, row[r].owner)

CheckRestore(r) ==
  /\ ~row[r].active /\ OwnerActive(row[r].owner)
  /\ ~NameTaken(r, row[r].name, row[r].owner)

\* Mutant: the services trust the view about inactive records.
CheckNewNameOnly(r, name, owner) ==
  OwnerActive(owner) /\ ~NameTaken(r, name, owner)

\* update_client alone does not look at is_active.
CheckUpdate(r, name, owner) ==
  /\ r \in Clients \/ row[r].active
  /\ OwnerActive(owner) /\ ~NameTaken(r, name, owner)

CheckRequest(site, project) ==
  /\ {site, project} \subseteq ActiveRows /\ row[site].owner = project

Accepted(k) ==
  CASE k.op = "create" -> OwnerActive(k.owner) /\ ~NameTaken(k.record, k.name, k.owner)
    [] k.op = "update" -> CheckUpdate(k.record, k.name, k.owner)
    [] k.op = "deactivate" -> row[k.record].active
    [] k.op = "restore" -> CheckRestore(k.record)
    [] k.op = "request" -> CheckRequest(k.site, k.project)

Check(c) ==
  /\ MayStart(c)
  /\ call' = [call EXCEPT ![c] = IF Accepted(call[c])
                                 THEN [call[c] EXCEPT !.step = "checked"] ELSE None]
  /\ UNCHANGED <<row, request, calls>>

-----------------------------------------------------------------------------
(* ... the code of a new record, under an advisory lock of its table ...   *)

\* Mutant: every caller generates its code at once.
NoLock(r) == TRUE

LockFree(r) == \A d \in Callers :
  call[d] # None /\ call[d].step \in {"locked", "coded"} =>
    Level(call[d].record) # Level(r)

Lock(c) ==
  /\ call[c] # None /\ call[c].op = "create" /\ call[c].step = "checked"
  /\ LockFree(call[c].record)
  /\ call' = [call EXCEPT ![c].step = "locked"]
  /\ UNCHANGED <<row, request, calls>>

\* Mutant: the search for a free code starts at the highest one, which is 0, and
\* free, in an empty table.
GenerateCodeFromHighest(c) ==
  /\ call[c] # None /\ call[c].step = "locked"
  /\ LET r == call[c].record
         free == IF CodeTaken(r, HighestCode(r)) THEN HighestCode(r) + 1 ELSE HighestCode(r)
     IN  call' = [call EXCEPT ![c].step = "coded", ![c].code = free]
  /\ UNCHANGED <<row, request, calls>>

\* _generate_next_code; the code above the highest one is never taken.
GenerateCode(c) ==
  /\ call[c] # None /\ call[c].step = "locked"
  /\ call' = [call EXCEPT ![c].step = "coded",
                          ![c].code = HighestCode(call[c].record) + 1]
  /\ UNCHANGED <<row, request, calls>>

-----------------------------------------------------------------------------
(* ... and the write with the commit.                                      *)

\* INSERT, or UPDATE of the columns that the operation is about.
NewRow(k) ==
  CASE k.op = "create" -> [code |-> k.code, name |-> k.name, owner |-> k.owner,
                           active |-> TRUE]
    [] k.op = "update" -> [row[k.record] EXCEPT !.name = k.name, !.owner = k.owner]
    [] k.op = "deactivate" -> [row[k.record] EXCEPT !.active = FALSE]
    [] k.op = "restore" -> [row[k.record] EXCEPT !.active = TRUE]

\* A unique index fails the statement: the transaction is rolled back.
Write(c) ==
  /\ InTransaction(c) /\ call[c].op # "request"
  /\ call[c].op = "create" => call[c].step = "coded"
  /\ LET r == call[c].record
         new == NewRow(call[c])
     IN  row' = IF Violates(r, new) THEN row ELSE [row EXCEPT ![r] = new]
  /\ call' = [call EXCEPT ![c] = None]
  /\ UNCHANGED <<request, calls>>

\* create_material_request inserts after the attachments are copied.
InsertRequest(c) ==
  /\ InTransaction(c) /\ call[c].op = "request"
  /\ request' = [request EXCEPT ![call[c].record] =
                   [project |-> call[c].project, site |-> call[c].site]]
  /\ call' = [call EXCEPT ![c] = None]
  /\ UNCHANGED <<row, calls>>

\* The connection is lost: nothing is written.
Abort(c) ==
  /\ InTransaction(c)
  /\ call' = [call EXCEPT ![c] = None]
  /\ UNCHANGED <<row, request, calls>>

Next == \E c \in Callers :
  \/ PickCreate(c) \/ PickUpdate(c) \/ PickStatus(c) \/ PickRequest(c)
  \/ Check(c) \/ Lock(c) \/ GenerateCode(c)
  \/ Write(c) \/ InsertRequest(c) \/ Abort(c)

Spec == Init /\ [][Next]_vars

-----------------------------------------------------------------------------
(* Properties                                                              *)

\* However checks and writes of different users interleave, no two active
\* records of one owner have the same name, and a restored record does not
\* bring a second one back: "Only one active project with the same name may
\* exist for the same client" (create_master_projects.sql).
ActiveNamesDistinct ==
  \A r \in ActiveRows : ~NameTaken(r, row[r].name, row[r].owner)

\* "Generate sequential client codes": the codes of a table are 1, 2, ...
\* without a gap, and a code that a caller has generated and not yet written is
\* the next one, so that no index refuses it.
CodesSequential ==
  /\ \A r \in Rows : \A n \in 1..row[r].code :
       \E s \in SameLevel(r) : row[s].code = n
  /\ \A c \in Callers : call[c] # None /\ call[c].step = "coded" =>
       call[c].code = HighestCode(call[c].record) + 1

\* When calls overlap, active names stay distinct and codes are given out one
\* after the other.
RecordsDistinct == ActiveNamesDistinct /\ CodesSequential

\* A record that is created, restored or moved has an active owner at that
\* moment: "Restore the client first." (_require_active_client).
Placed(r) ==
  /\ row'[r] # None /\ row'[r].active
  /\ row[r] = None \/ ~row[r].active \/ row[r].owner # row'[r].owner
PlacedUnderActive ==
  \A r \in Records : Placed(r) => OwnerActive(row'[r].owner)

\* "Inactive Project Master records cannot be edited.": whatever the list of a
\* user shows, the columns of an archived project or site stay as they are.
Frozen(S) == \A r \in S \cap Rows :
  ~row[r].active => /\ row'[r].name = row[r].name
                    /\ row'[r].owner = row[r].owner
ArchivedStaysAsItIs == Frozen(Projects \cup Sites)
===============================================================================
