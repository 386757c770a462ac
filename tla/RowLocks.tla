------------------------------ MODULE RowLocks ------------------------------
(***************************************************************************)
(* The row locks that the transactions of the quotation module take on one *)
(* material request and its supplier quotations, statement by statement.   *)
(*                                                                         *)
(* Every operation of the services is one transaction.  Its SELECT ... FOR *)
(* UPDATE, UPDATE, DELETE and INSERT statements lock rows until it ends;   *)
(* an INSERT locks the row that its foreign key names against deletion     *)
(* (FOR KEY SHARE).  A statement waits for the transactions whose locks    *)
(* conflict, and PostgreSQL aborts one of a circle of waiting transactions.*)
(*                                                                         *)
(* The order in which an operation takes its locks is the only thing the   *)
(* model keeps of it.  Rows that only one transaction can see (those it    *)
(* has inserted) and locks on rows of other tables are left out.           *)
(***************************************************************************)
EXTENDS Integers, Sequences

CONSTANTS
  Clients,      \* sessions of the database
  Quotations,   \* 1..n: quotation rows, in the order a DELETE finds them
  NoCall,       \* the client has no transaction
  Kinds,        \* the operations the clients call
  MaxCalls      \* bound: transactions

Request == 0    \* the row of quotation.material_requests
Rows == {Request} \cup Quotations

Transactions == [kind : Kinds, of : Quotations, at : 1..3]

ASSUME LocksAssumption ==
  /\ Quotations \subseteq Nat \ {Request}
  /\ MaxCalls \in Nat
  /\ NoCall \notin Transactions
  /\ Kinds \subseteq {"create", "upload", "change_quotation", "delete_quotation",
                      "delete_request", "request", "clarify", "attach", "claim"}

VARIABLES
  there,   \* the committed rows
  call,    \* per client: the operation, its quotation, the statement it is at
  locks,   \* per client: the locks its transaction holds, <<row, mode>>
  calls

vars == <<there, call, locks, calls>>

Modes == {"key share", "no key update", "update"}

TypeOK ==
  /\ there \subseteq Rows
  /\ call \in [Clients -> {NoCall} \cup Transactions]
  /\ locks \in [Clients -> SUBSET (Rows \X Modes)]
  /\ \A c \in Clients : call[c] = NoCall => locks[c] = {}
  /\ calls \in 0..MaxCalls

Init ==
  /\ there \in {{Request} \cup S : S \in SUBSET Quotations}
  /\ call = [c \in Clients |-> NoCall]
  /\ locks = [c \in Clients |-> {}]
  /\ calls = 0

-----------------------------------------------------------------------------
(* The statements of the operations.                                       *)

Statement(rows, mode) == [rows |-> rows, mode |-> mode]

\* create of a quotation: the INSERT comes first, and only start_purchasing_work
\* asks for the request.
Create == <<Statement({Request}, "key share"), Statement({Request}, "update")>>

\* upload_files: INSERTs of file rows, then evaluate_completed.
Upload(q) == <<Statement({q}, "key share"), Statement({Request}, "update")>>

\* update, update_status, archive, restore of a quotation; delete_file and the
\* files of a deleted quotation touch no other row.
ChangeQuotation(q) == <<Statement({q}, "no key update")>>
DeleteQuotation(q) == <<Statement({q}, "update")>>

\* delete_material_request: the request, then its quotations.
DeleteRequest ==
  <<Statement({Request}, "update"), Statement(there \cap Quotations, "update")>>

\* Lock, unlock, edit, archive, restore, assign and reassign begin with the
\* request's row, FOR UPDATE, and write rows under it.
OnRequest == <<Statement({Request}, "update"), Statement({Request}, "no key update")>>

\* Mutant: the message is stored before the request is locked.
ClarifyLate == <<Statement({Request}, "key share"), Statement({Request}, "update")>>

\* A clarification is recorded or moved: the request's row, then INSERTs.
Clarify == <<Statement({Request}, "update"), Statement({Request}, "key share")>>

\* Files of the request: INSERTs only.
Attach == <<Statement({Request}, "key share")>>

Script(kind, q) ==
  CASE kind = "create" -> Create
    [] kind = "upload" -> Upload(q)
    [] kind = "change_quotation" -> ChangeQuotation(q)
    [] kind = "delete_quotation" -> DeleteQuotation(q)
    [] kind = "delete_request" -> DeleteRequest
    [] kind \in {"request", "claim"} -> OnRequest
    [] kind = "clarify" -> Clarify
    [] kind = "attach" -> Attach

-----------------------------------------------------------------------------
(* The locks.                                                              *)

Conflict(m, n) ==
  \/ "update" \in {m, n}
  \/ m = "no key update" /\ n = "no key update"

Active == {c \in Clients : call[c] # NoCall}
ScriptOf(c) == Script(call[c].kind, call[c].of)
AtEnd(c) == call[c].at > Len(ScriptOf(c))
Now(c) == ScriptOf(c)[call[c].at]

\* The rows of the present statement that are not locked yet.
Missing(c) == {r \in Now(c).rows : <<r, Now(c).mode>> \notin locks[c]}
NextRow(c) == CHOOSE r \in Missing(c) : \A s \in Missing(c) : r <= s

\* c's present statement waits for the end of d.
WaitsFor(c, d) ==
  /\ c # d /\ {c, d} \subseteq Active
  /\ ~AtEnd(c) /\ Missing(c) # {}
  /\ \E l \in locks[d] : l[1] = NextRow(c) /\ Conflict(l[2], Now(c).mode)

Waits(c) == \E d \in Clients : WaitsFor(c, d)

\* Everybody in S waits for somebody in S.
Circle(S) == S # {} /\ \A c \in S : \E d \in S : WaitsFor(c, d)

-----------------------------------------------------------------------------
(* Steps.                                                                  *)

\* The operation reads the rows it is about and finds them.
Begin(c, kind, q) ==
  /\ call[c] = NoCall /\ calls < MaxCalls
  /\ Request \in there
  /\ kind \in {"upload", "change_quotation", "delete_quotation"} => q \in there
  /\ kind = "create" => /\ q \notin there
                        /\ \A d \in Active : ~(call[d].kind = "create" /\ call[d].of = q)
  /\ call' = [call EXCEPT ![c] = [kind |-> kind, of |-> q, at |-> 1]]
  /\ calls' = calls + 1
  /\ UNCHANGED <<there, locks>>

\* One row is locked, or the statement is over.
Advance(c) ==
  /\ c \in Active /\ ~AtEnd(c) /\ ~Waits(c)
  /\ IF Missing(c) = {}
     THEN call' = [call EXCEPT ![c].at = @ + 1] /\ UNCHANGED locks
     ELSE /\ NextRow(c) \in there
          /\ locks' = [locks EXCEPT ![c] = @ \cup {<<NextRow(c), Now(c).mode>>}]
          /\ UNCHANGED call
  /\ UNCHANGED <<there, calls>>

\* Mutants: an operation that fails keeps its transaction; it only forgets it.
KeepTransaction(c) ==
  call' = [call EXCEPT ![c].at = Len(ScriptOf(c))] /\ UNCHANGED locks
KeepLocks(c) == call' = [call EXCEPT ![c] = NoCall] /\ UNCHANGED locks

\* The transaction factory and the services roll back and close.
EndTransaction(c) ==
  /\ call' = [call EXCEPT ![c] = NoCall]
  /\ locks' = [locks EXCEPT ![c] = {}]

\* What the statements have made of the rows.
Written(c) ==
  CASE call[c].kind = "create" -> there \cup {call[c].of}
    [] call[c].kind = "delete_quotation" -> there \ {call[c].of}
    [] call[c].kind = "delete_request" -> {}
    [] OTHER -> there

Commit(c) ==
  /\ c \in Active /\ AtEnd(c)
  /\ there' = Written(c)
  /\ call' = [call EXCEPT ![c] = NoCall]
  /\ locks' = [locks EXCEPT ![c] = {}]
  /\ UNCHANGED calls

\* A row was deleted meanwhile: the foreign key refuses the INSERT, a query
\* finds nothing, and the operation fails.
Fail(c) ==
  /\ c \in Active /\ ~AtEnd(c) /\ ~Waits(c)
  /\ Missing(c) # {} /\ NextRow(c) \notin there
  /\ EndTransaction(c)
  /\ UNCHANGED <<there, calls>>

\* FOR UPDATE SKIP LOCKED: the worker passes over a request it would wait for.
SkipLocked(c) ==
  /\ c \in Active /\ call[c].kind = "claim" /\ call[c].at = 1 /\ Waits(c)
  /\ EndTransaction(c)
  /\ UNCHANGED <<there, calls>>

\* PostgreSQL finds a circle and aborts a transaction of it.
AbortVictim(c) ==
  /\ \E S \in SUBSET Clients : c \in S /\ Circle(S)
  /\ EndTransaction(c)
  /\ UNCHANGED <<there, calls>>

\* A client dies or loses its connection: the server rolls back.
LoseConnection(c) ==
  /\ c \in Active
  /\ EndTransaction(c)
  /\ UNCHANGED <<there, calls>>

Next ==
  \E c \in Clients :
    \/ \E kind \in Kinds, q \in Quotations : Begin(c, kind, q)
    \/ Advance(c) \/ Commit(c) \/ Fail(c) \/ SkipLocked(c)
    \/ AbortVictim(c) \/ LoseConnection(c)

Spec == Init /\ [][Next]_vars

-----------------------------------------------------------------------------
(* Properties.                                                             *)

\* Transactions wait for each other in a circle in two cases only: quotations
\* created for the same request (each INSERT shares the request's row that the
\* other's start_purchasing_work wants for itself), and files uploaded to a
\* quotation whose request is deleted.  No other pair, no longer chain.
KnownCircles ==
  \A S \in SUBSET Clients :
    Circle(S) =>
      \E c, d \in S :
        \/ c # d /\ call[c].kind = "create" /\ call[d].kind = "create"
        \/ call[c].kind = "upload" /\ call[d].kind = "delete_request"

\* Every transaction ends, committed or rolled back, whoever it waits for.
EveryCallEnds == \A c \in Clients : c \in Active ~> c \notin Active
=============================================================================
