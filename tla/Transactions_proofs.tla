------------------------- MODULE Transactions_proofs --------------------------
(***************************************************************************)
(* What the transactions of the quotation module do to each other and whom *)
(* they tell.                                                              *)
(*                                                                         *)
(* Transactions of the quotation module wait for each other in two known   *)
(* combinations only, for any number of clients and quotations and in any  *)
(* chain of waiting.                                                       *)
(*                                                                         *)
(* That follows from what a transaction holds when it waits: the locks of  *)
(* the statements before (HoldsItsStatements), which are compatible with   *)
(* everybody else's (LocksCompatible).                                     *)
(*                                                                         *)
(* Their notices (module Notifications) reach whoever a request waits for, *)
(* whatever else overlaps, and are gone with the request.                  *)
(***************************************************************************)
EXTENDS RowLocks, FiniteSetTheorems, SequenceTheorems, WellFoundedInduction, TLAPS

-----------------------------------------------------------------------------
(* The scripts.                                                            *)

\* The row and the mode of the first statement of a transaction.
FirstRow(k) ==
  IF k.kind \in {"upload", "change_quotation", "delete_quotation"}
  THEN k.of ELSE Request
FirstMode(k) ==
  CASE k.kind \in {"create", "upload", "attach"} -> "key share"
    [] k.kind = "change_quotation" -> "no key update"
    [] OTHER -> "update"

\* The operations of one statement, and the mode of the others' second one.
Short == {"change_quotation", "delete_quotation", "attach"}
SecondMode(k) ==
  CASE k.kind \in {"create", "upload", "delete_request"} -> "update"
    [] k.kind = "clarify" -> "key share"
    [] OTHER -> "no key update"

First(k) == <<FirstRow(k), FirstMode(k)>>
Second(k) == <<Request, SecondMode(k)>>

\* Every operation starts with one row; the second statement is about the
\* request, except for the quotations of a request that is deleted.
LEMMA Scripts ==
  ASSUME NEW k \in Transactions
  PROVE  /\ Len(Script(k.kind, k.of)) = IF k.kind \in Short THEN 1 ELSE 2
         /\ Script(k.kind, k.of)[1] = Statement({FirstRow(k)}, FirstMode(k))
         /\ k.kind \notin Short =>
              Script(k.kind, k.of)[2] =
                Statement(IF k.kind = "delete_request" THEN there \cap Quotations
                          ELSE {Request}, SecondMode(k))
  <1>1. k.kind \in {"create", "upload", "change_quotation", "delete_quotation",
                    "delete_request", "request", "clarify", "attach", "claim"}
    BY LocksAssumption DEF Transactions
  <1> USE DEF Script, FirstRow, FirstMode, SecondMode, Short
  <1>2. CASE k.kind \in {"create", "upload"}
    BY <1>2 DEF Create, Upload
  <1>3. CASE k.kind \in Short
    BY <1>3 DEF ChangeQuotation, DeleteQuotation, Attach
  <1>4. CASE k.kind = "delete_request"
    BY <1>4 DEF DeleteRequest
  <1>5. CASE k.kind \in {"request", "clarify", "claim"}
    BY <1>5 DEF OnRequest, Clarify
  <1> QED
    BY <1>1, <1>2, <1>3, <1>4, <1>5

\* Some number of a set of natural numbers is its smallest.
LEMMA SmallestExists ==
  ASSUME NEW S \in SUBSET Nat, S # {}
  PROVE  \E r \in S : \A s \in S : r <= s
  <1>1. PICK r \in S : \A s \in S : <<s, r>> \notin OpToRel(<, Nat)
    BY WFMin, NatLessThanWellFounded, Zenon
  <1>2. \A s \in S : ~(s < r)
    BY <1>1 DEF OpToRel
  <1> QED
    BY <1>2

-----------------------------------------------------------------------------
(* The inductive invariant.                                                *)

\* L has the lock of the first statement of k when k is at a later one, and no
\* lock that the statements of k so far do not ask for.
Holds(k, L) ==
  /\ k.at > 1 => First(k) \in L
  /\ \A l \in L :
       \/ l = First(k)
       \/ /\ k.at > 1
          /\ IF k.kind = "delete_request"
             THEN l \in Quotations \X {"update"} ELSE l = Second(k)
HoldsItsStatements == \A c \in Clients : call[c] # NoCall => Holds(call[c], locks[c])

Clash(l, m) == l[1] = m[1] /\ Conflict(l[2], m[2])

\* No two transactions hold locks that conflict.
LocksCompatible ==
  \A c, d \in Clients : c # d =>
    \A l \in locks[c], m \in locks[d] : ~Clash(l, m)

LocksInv == TypeOK /\ HoldsItsStatements /\ LocksCompatible

-----------------------------------------------------------------------------
(* What an active transaction asks for.                                    *)

LEMMA ActiveIsTransaction ==
  ASSUME TypeOK, NEW c \in Active
  PROVE  c \in Clients /\ call[c] \in Transactions /\ call[c].at \in 1..3
  BY DEF TypeOK, Active, Transactions

\* The statement it is at.
LEMMA PresentStatement ==
  ASSUME TypeOK, NEW c \in Active, ~AtEnd(c)
  PROVE  \/ /\ call[c].at = 1
            /\ Now(c) = Statement({FirstRow(call[c])}, FirstMode(call[c]))
         \/ /\ call[c].at = 2 /\ call[c].kind \notin Short
            /\ Now(c) = Statement(IF call[c].kind = "delete_request"
                                  THEN there \cap Quotations ELSE {Request},
                                  SecondMode(call[c]))
  <1>1. call[c] \in Transactions /\ call[c].at \in 1..3
    BY ActiveIsTransaction
  <1>2. Len(ScriptOf(c)) = IF call[c].kind \in Short THEN 1 ELSE 2
    BY <1>1, Scripts DEF ScriptOf
  <1>3. call[c].at = 1 \/ (call[c].at = 2 /\ call[c].kind \notin Short)
    BY <1>1, <1>2 DEF AtEnd
  <1> QED
    BY <1>1, <1>3, Scripts DEF Now, ScriptOf

\* The row it locks next is one of those it misses.
LEMMA NextIsMissing ==
  ASSUME TypeOK, NEW c \in Active, ~AtEnd(c), Missing(c) # {}
  PROVE  NextRow(c) \in Missing(c)
  <1>1. Now(c).rows \subseteq Nat
    <2>1. FirstRow(call[c]) \in Nat /\ there \cap Quotations \subseteq Nat
          /\ Request \in Nat
      BY ActiveIsTransaction, LocksAssumption DEF FirstRow, Request, Transactions
    <2>2. \/ Now(c).rows = {FirstRow(call[c])}
          \/ Now(c).rows = there \cap Quotations
          \/ Now(c).rows = {Request}
      BY PresentStatement DEF Statement
    <2> QED
      BY <2>1, <2>2
  <1>2. Missing(c) \in SUBSET Nat
    BY <1>1 DEF Missing
  <1>3. \E r \in Missing(c) : \A s \in Missing(c) : r <= s
    BY <1>2, SmallestExists
  <1> QED
    BY <1>3 DEF NextRow

\* It locks rows of the present statement, in its mode.
LEMMA NextLock ==
  ASSUME TypeOK, NEW c \in Active, ~AtEnd(c), Missing(c) # {}
  PROVE  LET l == <<NextRow(c), Now(c).mode>> IN
         /\ l \notin locks[c]
         /\ l \in Rows \X Modes
         /\ \/ call[c].at = 1 /\ l = First(call[c])
            \/ /\ call[c].at = 2
               /\ IF call[c].kind = "delete_request"
                  THEN l \in Quotations \X {"update"} ELSE l = Second(call[c])
  <1>1. NextRow(c) \in Now(c).rows /\ <<NextRow(c), Now(c).mode>> \notin locks[c]
    BY NextIsMissing DEF Missing
  <1>2. call[c] \in Transactions
    BY ActiveIsTransaction
  <1>3. /\ FirstRow(call[c]) \in Rows
        /\ {FirstMode(call[c]), SecondMode(call[c])} \subseteq Modes
    BY <1>2 DEF FirstRow, FirstMode, SecondMode, Transactions, Rows, Modes
  <1>4. CASE /\ call[c].at = 1
             /\ Now(c) = Statement({FirstRow(call[c])}, FirstMode(call[c]))
    BY <1>1, <1>3, <1>4 DEF Statement, First
  <1>5. CASE /\ call[c].at = 2 /\ call[c].kind \notin Short
             /\ Now(c) = Statement(IF call[c].kind = "delete_request"
                                   THEN there \cap Quotations ELSE {Request},
                                   SecondMode(call[c]))
    <2>1. CASE call[c].kind = "delete_request"
      <3>1. Now(c).rows \subseteq Quotations /\ Now(c).mode = "update"
        BY <1>5, <2>1 DEF Statement, SecondMode
      <3> QED
        BY <1>1, <1>5, <2>1, <3>1 DEF Rows, Modes
    <2>2. CASE call[c].kind # "delete_request"
      BY <1>1, <1>3, <1>5, <2>2 DEF Statement, Second, Rows
    <2> QED
      BY <2>1, <2>2
  <1> QED
    BY <1>4, <1>5, PresentStatement

-----------------------------------------------------------------------------
(* The invariant holds.                                                    *)

LEMMA LocksInit == Init => LocksInv
  <1> SUFFICES ASSUME Init PROVE LocksInv
    OBVIOUS
  <1>1. there \subseteq Rows
    BY DEF Init, Rows
  <1> QED
    BY <1>1, LocksAssumption
       DEF Init, LocksInv, TypeOK, HoldsItsStatements, LocksCompatible, Active

\* It holds when each transaction keeps to it and no lock is added that
\* clashes.
LEMMA StepKeeps ==
  ASSUME LocksInv, TypeOK',
         NEW c \in Clients, NEW k, NEW L,
         \A d \in Clients : call'[d] = IF d = c THEN k ELSE call[d],
         \A d \in Clients : locks'[d] = IF d = c THEN L ELSE locks[d],
         k # NoCall => Holds(k, L),
         \A d \in Clients \ {c} : \A l \in L, m \in locks[d] :
            ~Clash(l, m) /\ ~Clash(m, l)
  PROVE  LocksInv'
  <1>1. HoldsItsStatements'
    BY DEF LocksInv, HoldsItsStatements
  <1>2. LocksCompatible'
    <2> SUFFICES ASSUME NEW d \in Clients, NEW e \in Clients, d # e,
                        NEW l \in locks'[d], NEW m \in locks'[e]
                 PROVE  ~Clash(l, m)
      BY DEF LocksCompatible
    <2>1. CASE d = c
      BY <2>1
    <2>2. CASE e = c
      BY <2>2
    <2>3. CASE d # c /\ e # c
      BY <2>3 DEF LocksInv, LocksCompatible
    <2> QED
      BY <2>1, <2>2, <2>3
  <1> QED
    BY <1>1, <1>2 DEF LocksInv

\* Locks that were held before do not clash.
LEMMA HeldDoNotClash ==
  ASSUME LocksInv, NEW c \in Clients
  PROVE  \A d \in Clients \ {c} : \A l \in locks[c], m \in locks[d] :
            ~Clash(l, m) /\ ~Clash(m, l)
  BY DEF LocksInv, LocksCompatible

\* A transaction that ends takes its locks with it.
LEMMA EndKeeps ==
  ASSUME LocksInv, NEW c \in Clients, EndTransaction(c), there' \subseteq Rows,
         UNCHANGED calls
  PROVE  LocksInv'
  <1>1. /\ \A d \in Clients : call'[d] = IF d = c THEN NoCall ELSE call[d]
        /\ \A d \in Clients : locks'[d] = IF d = c THEN {} ELSE locks[d]
    BY DEF LocksInv, TypeOK, EndTransaction
  <1>2. TypeOK'
    BY <1>1 DEF LocksInv, TypeOK, EndTransaction
  <1> QED
    BY <1>1, <1>2, StepKeeps

LEMMA BeginKeeps ==
  ASSUME LocksInv, NEW c \in Clients, NEW kind \in Kinds, NEW q \in Quotations,
         Begin(c, kind, q)
  PROVE  LocksInv'
  <1> DEFINE k == [kind |-> kind, of |-> q, at |-> 1]
  <1>1. /\ call[c] = NoCall /\ locks[c] = {}
        /\ calls \in 0..MaxCalls /\ calls < MaxCalls
        /\ k \in Transactions
    BY DEF LocksInv, TypeOK, Begin, Transactions
  <1>2. /\ \A d \in Clients : call'[d] = IF d = c THEN k ELSE call[d]
        /\ \A d \in Clients : locks'[d] = IF d = c THEN {} ELSE locks[d]
    BY <1>1 DEF LocksInv, TypeOK, Begin
  <1>3. TypeOK'
    BY <1>1, <1>2, LocksAssumption DEF LocksInv, TypeOK, Begin
  <1>4. Holds(k, {})
    BY DEF Holds
  <1> QED
    BY <1>2, <1>3, <1>4, StepKeeps

\* The next statement begins when the present one has its locks.
LEMMA NextStatementKeeps ==
  ASSUME LocksInv, NEW c \in Active, ~AtEnd(c), Missing(c) = {},
         call' = [call EXCEPT ![c].at = @ + 1], UNCHANGED <<there, locks, calls>>
  PROVE  LocksInv'
  <1> DEFINE k == [call[c] EXCEPT !.at = @ + 1]
  <1>0. call[c].at = 1 \/ call[c].at = 2
    BY PresentStatement DEF LocksInv
  <1>1. c \in Clients /\ call[c] \in Transactions /\ call[c].at \in 1..2
    BY <1>0, ActiveIsTransaction DEF LocksInv
  <1>2. /\ k \in Transactions /\ k.kind = call[c].kind /\ k.of = call[c].of
        /\ k.at = call[c].at + 1 /\ k # NoCall
    BY <1>1, LocksAssumption DEF Transactions
  <1>3. /\ \A d \in Clients : call'[d] = IF d = c THEN k ELSE call[d]
        /\ \A d \in Clients : locks'[d] = IF d = c THEN locks[c] ELSE locks[d]
    BY DEF LocksInv, TypeOK
  <1>4. TypeOK'
    BY <1>1, <1>2, <1>3 DEF LocksInv, TypeOK
  <1>5. First(k) = First(call[c]) /\ Second(k) = Second(call[c])
    BY <1>2 DEF First, FirstRow, FirstMode, Second, SecondMode
  <1>6. Holds(call[c], locks[c])
    BY <1>1, LocksAssumption DEF LocksInv, HoldsItsStatements
  <1>7. First(call[c]) \in locks[c]
    <2>1. CASE call[c].at = 1
      <3>1. Now(c) = Statement({FirstRow(call[c])}, FirstMode(call[c]))
        BY <2>1, PresentStatement DEF LocksInv
      <3> QED
        BY <3>1 DEF Missing, Statement, First
    <2>2. CASE call[c].at # 1
      BY <1>1, <1>6, <2>2 DEF Holds
    <2> QED
      BY <2>1, <2>2
  <1>8. Holds(k, locks[c])
    BY <1>1, <1>2, <1>5, <1>6, <1>7 DEF Holds
  <1> QED
    BY <1>1, <1>3, <1>4, <1>8, HeldDoNotClash, StepKeeps

\* A row is locked when no lock on it conflicts.
LEMMA LockKeeps ==
  ASSUME LocksInv, NEW c \in Active, ~AtEnd(c), ~Waits(c), Missing(c) # {},
         locks' = [locks EXCEPT ![c] = @ \cup {<<NextRow(c), Now(c).mode>>}],
         UNCHANGED <<there, call, calls>>
  PROVE  LocksInv'
  <1> DEFINE l == <<NextRow(c), Now(c).mode>>
  <1>1. c \in Clients /\ call[c] # NoCall
    BY ActiveIsTransaction DEF LocksInv, Active
  <1>2. /\ \A d \in Clients : call'[d] = IF d = c THEN call[c] ELSE call[d]
        /\ \A d \in Clients :
             locks'[d] = IF d = c THEN locks[c] \cup {l} ELSE locks[d]
    BY DEF LocksInv, TypeOK
  <1>3. /\ l \in Rows \X Modes
        /\ \/ call[c].at = 1 /\ l = First(call[c])
           \/ /\ call[c].at = 2
              /\ IF call[c].kind = "delete_request"
                 THEN l \in Quotations \X {"update"} ELSE l = Second(call[c])
    BY NextLock DEF LocksInv
  <1>4. TypeOK'
    BY <1>1, <1>2, <1>3 DEF LocksInv, TypeOK
  <1>5. Holds(call[c], locks[c])
    BY <1>1 DEF LocksInv, HoldsItsStatements
  <1>6. Holds(call[c], locks[c] \cup {l})
    BY <1>3, <1>5 DEF Holds
  <1>7. ASSUME NEW d \in Clients \ {c}, NEW m \in locks[d]
        PROVE  ~Clash(l, m) /\ ~Clash(m, l)
    <2>1. d \in Active
      BY <1>7 DEF LocksInv, TypeOK, Active
    <2>2. ~(m[1] = NextRow(c) /\ Conflict(m[2], Now(c).mode))
      BY <1>1, <2>1 DEF Waits, WaitsFor
    <2> QED
      BY <2>2 DEF Clash, Conflict
  <1>8. \A d \in Clients \ {c} : \A n \in locks[c] \cup {l}, m \in locks[d] :
           ~Clash(n, m) /\ ~Clash(m, n)
    BY <1>1, <1>7, HeldDoNotClash
  <1> QED
    BY <1>1, <1>2, <1>4, <1>6, <1>8, StepKeeps

LEMMA LocksStep == LocksInv /\ [Next]_vars => LocksInv'
  <1> SUFFICES ASSUME LocksInv, [Next]_vars PROVE LocksInv'
    OBVIOUS
  <1>1. CASE UNCHANGED vars
    BY <1>1 DEF vars, LocksInv, TypeOK, HoldsItsStatements, LocksCompatible
  <1>2. ASSUME NEW c \in Clients, NEW kind \in Kinds, NEW q \in Quotations,
               Begin(c, kind, q)
        PROVE  LocksInv'
    BY <1>2, BeginKeeps
  <1>3. ASSUME NEW c \in Clients, Advance(c) PROVE LocksInv'
    BY <1>3, NextStatementKeeps, LockKeeps DEF Advance
  <1>4. ASSUME NEW c \in Clients, Commit(c) PROVE LocksInv'
    <2>1. call[c] \in Transactions
      BY <1>4, ActiveIsTransaction DEF Commit, LocksInv
    <2>2. there' \subseteq Rows
      BY <1>4, <2>1 DEF Commit, Written, LocksInv, TypeOK, Rows, Transactions
    <2> QED
      BY <1>4, <2>2, EndKeeps DEF Commit, EndTransaction
  <1>5. ASSUME NEW c \in Clients,
               Fail(c) \/ SkipLocked(c) \/ AbortVictim(c) \/ LoseConnection(c)
        PROVE  LocksInv'
    <2>1. EndTransaction(c) /\ UNCHANGED <<there, calls>>
      BY <1>5 DEF Fail, SkipLocked, AbortVictim, LoseConnection
    <2>2. there' \subseteq Rows
      BY <2>1 DEF LocksInv, TypeOK
    <2> QED
      BY <2>1, <2>2, EndKeeps
  <1> QED
    BY <1>1, <1>2, <1>3, <1>4, <1>5 DEF Next

\* Every client has no transaction and no lock, or a transaction of the listed
\* kinds with locks on rows of the request and its quotations.
THEOREM LocksTypeCorrect == Spec => []TypeOK
  <1>1. LocksInv => TypeOK
    BY DEF LocksInv
  <1> QED
    BY LocksInit, LocksStep, <1>1, PTL DEF Spec

-----------------------------------------------------------------------------
(* Circles.                                                                *)

\* Who waits while it holds a lock has made a quotation or uploaded a file and
\* wants the request, or deletes the request and wants a quotation.  Whoever
\* began with the request, FOR UPDATE, and asks for it again has it already.
LEMMA WaitsAndHolds ==
  ASSUME LocksInv, NEW c \in Clients, NEW d \in Clients, WaitsFor(c, d),
         NEW l \in locks[c]
  PROVE  \/ /\ call[c].kind = "create"
            /\ l = <<Request, "key share">> /\ NextRow(c) = Request
         \/ /\ call[c].kind = "upload"
            /\ l = <<call[c].of, "key share">> /\ NextRow(c) = Request
         \/ /\ call[c].kind = "delete_request"
            /\ <<Request, "update">> \in locks[c] /\ NextRow(c) \in Quotations
            /\ l[2] = "update"
  <1> DEFINE n == <<NextRow(c), Now(c).mode>>
  <1>1. /\ c \in Active /\ c # d /\ call[c] \in Transactions
        /\ ~AtEnd(c) /\ Missing(c) # {}
    BY ActiveIsTransaction DEF WaitsFor, LocksInv
  <1>0. Holds(call[c], locks[c])
    BY <1>1 DEF LocksInv, HoldsItsStatements, Active
  <1>2. /\ n \notin locks[c]
        /\ call[c].at = 1 => n = First(call[c])
        /\ call[c].at = 2 =>
             IF call[c].kind = "delete_request"
             THEN n \in Quotations \X {"update"} ELSE n = Second(call[c])
    BY <1>1, NextLock DEF LocksInv
  <1>3. call[c].at = 2 /\ call[c].kind \notin Short
    <2> SUFFICES ASSUME call[c].at = 1 PROVE FALSE
      BY <1>1, PresentStatement DEF LocksInv
    <2>1. n = First(call[c])
      BY <1>2
    <2>2. l = First(call[c])
      BY <1>0 DEF Holds
    <2> QED
      BY <1>2, <2>1, <2>2
  <1>4. First(call[c]) \in locks[c]
    BY <1>0, <1>3 DEF Holds
  <1>5. CASE call[c].kind = "delete_request"
    <2>1. First(call[c]) = <<Request, "update">>
      BY <1>5 DEF First, FirstRow, FirstMode
    <2>2. NextRow(c) \in Quotations
      <3>1. n \in Quotations \X {"update"}
        BY <1>2, <1>3, <1>5
      <3> QED
        BY <3>1
    <2>3. l = First(call[c]) \/ l \in Quotations \X {"update"}
      BY <1>0, <1>5 DEF Holds
    <2> QED
      BY <1>4, <1>5, <2>1, <2>2, <2>3
  <1>6. CASE call[c].kind # "delete_request"
    <2>1. n = Second(call[c])
      BY <1>2, <1>3, <1>6
    <2>2. l = First(call[c])
      BY <1>0, <1>2, <1>6, <2>1 DEF Holds
    <2>3. CASE call[c].kind \in {"create", "upload"}
      BY <2>1, <2>2, <2>3 DEF First, FirstRow, FirstMode, Second
    <2>4. CASE call[c].kind \notin {"create", "upload"}
      <3>1. call[c].kind \in {"request", "clarify", "claim"}
        BY <1>1, <1>3, <1>6, <2>4, LocksAssumption DEF Transactions, Short
      <3>2. First(call[c]) = <<Request, "update">>
        BY <3>1 DEF First, FirstRow, FirstMode
      <3>3. PICK m \in locks[d] : m[1] = Request
        BY <2>1 DEF WaitsFor, Second
      <3>4. ~Conflict("update", m[2])
        BY <1>1, <1>4, <3>2, <3>3 DEF LocksInv, LocksCompatible, Clash
      <3> QED
        BY <3>4 DEF Conflict
    <2> QED
      BY <2>3, <2>4
  <1> QED
    BY <1>5, <1>6

\* Transactions wait for each other in a circle in two cases only: two create
\* quotations, or one uploads a file while another deletes the request.
THEOREM OnlyKnownCircles == Spec => []KnownCircles
  <1>1. LocksInv => KnownCircles
    <2> SUFFICES ASSUME LocksInv, NEW S \in SUBSET Clients, Circle(S),
                        ~\E c, d \in S : call[c].kind = "upload" /\
                                         call[d].kind = "delete_request"
                 PROVE  \E c, d \in S : c # d /\ call[c].kind = "create"
                                              /\ call[d].kind = "create"
      BY DEF KnownCircles
    <2> DEFINE Blocks(c, d) == /\ d \in S /\ c # d /\ WaitsFor(c, d)
                               /\ \E l \in locks[d] : l[1] = NextRow(c)
    \* Everybody waits for somebody of the circle.
    <2>1. \A c \in S : \E d \in S : Blocks(c, d)
      BY DEF Circle, WaitsFor
    <2>2. ASSUME NEW c \in S, NEW d \in S, Blocks(c, d)
          PROVE  \/ /\ call[d].kind \in {"create", "upload"} /\ NextRow(d) = Request
                    /\ NextRow(c) = Request => call[d].kind = "create"
                 \/ /\ call[d].kind = "delete_request" /\ NextRow(d) \in Quotations
                    /\ <<Request, "update">> \in locks[d]
      <3>1. PICK e \in S : WaitsFor(d, e)
        BY DEF Circle
      <3>2. PICK l \in locks[d] : l[1] = NextRow(c)
        BY <2>2
      <3>3. d \in Active
        BY <3>1 DEF WaitsFor
      <3>4. call[d].of # Request
        BY <3>3, ActiveIsTransaction, LocksAssumption DEF Transactions, LocksInv
      <3>5. CASE call[d].kind = "create"
        BY <3>1, <3>2, <3>5, WaitsAndHolds
      <3>6. CASE call[d].kind = "upload"
        <4>1. l = <<call[d].of, "key share">> /\ NextRow(d) = Request
          BY <3>1, <3>6, WaitsAndHolds
        <4>2. l[1] # Request
          BY <3>4, <4>1
        <4> QED
          BY <3>2, <3>6, <4>1, <4>2
      <3>7. CASE call[d].kind \notin {"create", "upload"}
        BY <3>1, <3>2, <3>7, WaitsAndHolds
      <3> QED
        BY <3>5, <3>6, <3>7
    \* Whoever deletes the request waits for a quotation that an upload holds.
    <2>3. ASSUME NEW c \in S, NEW d \in S, Blocks(c, d)
          PROVE  call[d].kind # "delete_request"
      <3> SUFFICES ASSUME call[d].kind = "delete_request" PROVE FALSE
        OBVIOUS
      <3>1. NextRow(d) \in Quotations /\ <<Request, "update">> \in locks[d]
        BY <2>2, <2>3
      <3>2. PICK e \in S : Blocks(d, e)
        BY <2>1
      <3>3. PICK f \in S : WaitsFor(e, f)
        BY DEF Circle
      <3>4. PICK l \in locks[e] : l[1] = NextRow(d)
        BY <3>2
      <3>5. l[1] # Request
        BY <3>1, <3>4, LocksAssumption
      <3>6. call[e].kind # "create"
        <4>1. CASE l = <<Request, "key share">>
          BY <3>5, <4>1
        <4>2. CASE l # <<Request, "key share">>
          BY <3>3, <4>2, WaitsAndHolds
        <4> QED
          BY <4>1, <4>2
      <3>7. call[e].kind # "upload"
        OBVIOUS
      <3>8. <<Request, "update">> \in locks[e]
        BY <3>3, <3>6, <3>7, WaitsAndHolds
      <3>9. ~Conflict("update", "update")
        BY <3>1, <3>2, <3>8 DEF LocksInv, LocksCompatible, Clash
      <3> QED
        BY <3>9 DEF Conflict
    \* So a chain comes to the request, which creators share.
    <2>4. PICK c \in S, d \in S : Blocks(c, d)
      BY <2>1 DEF Circle
    <2>5. NextRow(d) = Request
      BY <2>2, <2>3, <2>4
    <2>6. PICK e \in S : Blocks(d, e)
      BY <2>1
    <2>7. call[e].kind = "create" /\ NextRow(e) = Request
      BY <2>2, <2>3, <2>5, <2>6
    <2>8. PICK f \in S : Blocks(e, f)
      BY <2>1
    <2>9. call[f].kind = "create" /\ f # e
      BY <2>2, <2>3, <2>7, <2>8
    <2> QED
      BY <2>7, <2>9
  <1> QED
    BY LocksInit, LocksStep, <1>1, PTL DEF Spec
-----------------------------------------------------------------------------
(* What the services tell.  A notice is written by the transaction of the  *)
(* operation it tells of, so that the notices of a request go along with   *)
(* what becomes of it: RequestTold.  The managers are read before that, on *)
(* another connection: ManagersListed.                                     *)

CONSTANTS Managers, Officers, Engineers, Requests, Calls, Windows, UserOf, MayDelete, Limit,
          None, MaxFlips, MaxClicks
VARIABLES since, request, question, notices, telling, panel, screen, chosen, clock, flips,
          clicks

News == INSTANCE Notifications WITH call <- telling

TellingTransactions == [start : Nat, told : SUBSET Managers]
RequestColumns == [state : {"none", "new", "assigned", "deleted"},
                   by : Engineers \cup {None}, officer : Officers \cup {None}, read : Nat]
QuestionColumns == [status : {"none", "awaiting", "ready", "forwarded", "resolved"}, at : Nat]

NewsTypes ==
  /\ since \in [Managers -> Nat] /\ clock \in Nat
  /\ request \in [Requests -> RequestColumns] /\ question \in [Requests -> QuestionColumns]
  /\ notices \in Seq(News!Notice)
  /\ telling \in [Calls -> TellingTransactions \cup {None}]

\* A transaction has listed the managers who have been active since before it.
ManagersListed ==
  \A c \in Calls : telling[c] # None =>
    /\ telling[c].start <= clock
    /\ \A m \in Managers : since[m] # 0 /\ since[m] < telling[c].start => m \in telling[c].told

IsTold(list, user, types, r, after) ==
  \E k \in DOMAIN list : /\ k > after /\ ~list[k].gone
                         /\ list[k].to = user /\ list[k].type \in types /\ list[k].id = r

TellsFirst(notice, r) == notice.id = r /\ notice.type \in {"assigned", "auto-assigned"}

\* What the notices of a request have to do with it.
RequestTold(r) ==
  /\ question[r].status # "none" => request[r].state = "assigned" /\ request[r].by # None
  /\ request[r].state = "assigned" => request[r].officer # None
  /\ request[r].state # "none" => request[r].read <= clock
  /\ question[r].status = "awaiting" =>
       IsTold(notices, request[r].by, {"question recorded", "follow-up recorded"}, r,
              question[r].at)
  /\ question[r].status = "ready" =>
       IsTold(notices, request[r].officer, {"response submitted", "reassigned"}, r,
              question[r].at)
  /\ \A m \in Managers : request[r].state = "new" /\ since[m] # 0 /\ since[m] < request[r].read =>
       IsTold(notices, m, News!CreatedTypes, r, 0)
  /\ request[r].state \in {"none", "new"} => \A k \in DOMAIN notices : ~TellsFirst(notices[k], r)
  /\ \A k, l \in DOMAIN notices : TellsFirst(notices[k], r) /\ TellsFirst(notices[l], r) => k = l
  /\ \A k \in DOMAIN notices : notices[k].id = r =>
       /\ notices[k].gone => request[r].state = "deleted"
       /\ request[r].state = "deleted" /\ notices[k].entity = "MATERIAL_REQUEST" => notices[k].gone

NewsInv == NewsTypes /\ ManagersListed /\ \A r \in Requests : RequestTold(r)

\* A notice as it was, but for its read_at.
Same(a, b) == a.to = b.to /\ a.type = b.type /\ a.entity = b.entity /\ a.id = b.id /\ a.gone = b.gone

\* The notices of a request are as before.
KeptFor(r) ==
  /\ \A k \in DOMAIN notices' : notices'[k].id = r => k \in DOMAIN notices
  /\ \A k \in DOMAIN notices : k \in DOMAIN notices'
       /\ (notices[k].id = r \/ notices'[k].id = r => Same(notices'[k], notices[k]))

\* A step that neither changes a request nor, but for read_at, its notices.
LEMMA RequestUntouched ==
  ASSUME NewsTypes, clock' \in Nat, clock <= clock', NEW r \in Requests, RequestTold(r),
         request'[r] = request[r], question'[r] = question[r], KeptFor(r),
         \A m \in Managers : since'[m] \in Nat /\ (since'[m] \in {since[m], 0} \/ since'[m] > clock)
  PROVE  RequestTold(r)'
  <1>1. request[r].read \in Nat /\ clock \in Nat /\ \A m \in Managers : since[m] \in Nat
    BY DEF NewsTypes, RequestColumns
  <1>2. ASSUME NEW user, NEW types, NEW after, IsTold(notices, user, types, r, after)
        PROVE  IsTold(notices', user, types, r, after)
    BY <1>2 DEF IsTold, KeptFor, Same
  <1>3. \A k \in DOMAIN notices' : TellsFirst(notices'[k], r) =>
          k \in DOMAIN notices /\ TellsFirst(notices[k], r)
    BY DEF TellsFirst, KeptFor, Same
  <1>4. \A k \in DOMAIN notices' : notices'[k].id = r =>
          k \in DOMAIN notices /\ Same(notices'[k], notices[k])
    BY DEF KeptFor
  <1>5. ASSUME NEW m \in Managers, request[r].state = "new", since'[m] # 0,
               since'[m] < request[r].read
        PROVE  IsTold(notices', m, News!CreatedTypes, r, 0)
    <2>1. request[r].read <= clock
      BY <1>5 DEF RequestTold
    <2>2. since'[m] = since[m]
      BY <1>1, <1>5, <2>1
    <2> QED
      BY <1>2, <1>5, <2>2 DEF RequestTold
  <1> SUFFICES /\ question[r].status # "none" => request[r].state = "assigned" /\ request[r].by # None
               /\ request[r].state = "assigned" => request[r].officer # None
               /\ request[r].state # "none" => request[r].read <= clock'
               /\ question[r].status = "awaiting" =>
                    IsTold(notices', request[r].by, {"question recorded", "follow-up recorded"}, r,
                           question[r].at)
               /\ question[r].status = "ready" =>
                    IsTold(notices', request[r].officer, {"response submitted", "reassigned"}, r,
                           question[r].at)
               /\ request[r].state \in {"none", "new"} =>
                    \A k \in DOMAIN notices' : ~TellsFirst(notices'[k], r)
               /\ \A k, l \in DOMAIN notices' :
                    TellsFirst(notices'[k], r) /\ TellsFirst(notices'[l], r) => k = l
               /\ \A k \in DOMAIN notices' : notices'[k].id = r =>
                    /\ notices'[k].gone => request[r].state = "deleted"
                    /\ request[r].state = "deleted" /\ notices'[k].entity = "MATERIAL_REQUEST"
                         => notices'[k].gone
    BY <1>5 DEF RequestTold, IsTold, TellsFirst
  <1>6. request[r].state # "none" => request[r].read <= clock'
    <2>1. request[r].state # "none" => request[r].read <= clock
      BY DEF RequestTold
    <2> QED
      BY <1>1, <2>1
  <1>7. \A k \in DOMAIN notices' : notices'[k].id = r =>
                    /\ notices'[k].gone => request[r].state = "deleted"
                    /\ request[r].state = "deleted" /\ notices'[k].entity = "MATERIAL_REQUEST"
                         => notices'[k].gone
    BY <1>4 DEF Same, RequestTold
  <1> QED
    BY <1>2, <1>3, <1>6, <1>7 DEF RequestTold

\* A step that leaves the requests alone.
LEMMA RequestsUntouched ==
  ASSUME NewsInv, clock' \in Nat, clock <= clock', UNCHANGED <<request, question>>,
         \A r \in Requests : KeptFor(r),
         since' \in [Managers -> Nat], \A m \in Managers : since'[m] \in {since[m], 0} \/ since'[m] > clock,
         telling' \in [Calls -> TellingTransactions \cup {None}], notices' \in Seq(News!Notice)
  PROVE  NewsTypes' /\ \A r \in Requests : RequestTold(r)'
  <1>1. NewsTypes'
    BY DEF NewsTypes, NewsInv
  <1>2. ASSUME NEW r \in Requests
        PROVE  RequestTold(r)'
    BY <1>2, RequestUntouched DEF NewsInv
  <1> QED
    BY <1>1, <1>2

\* No notice is added or marked.
LEMMA NothingNew ==
  ASSUME notices \in Seq(News!Notice), UNCHANGED notices, NEW r
  PROVE  KeptFor(r)
  BY DEF KeptFor, Same

\* A transaction begins with the managers who are active then.
LEMMA BeginStep ==
  ASSUME NewsInv, NEW c \in Calls, News!Begin(c)
  PROVE  NewsInv'
  <1> DEFINE t == [start |-> clock + 1, told |-> News!ActiveManagers]
  <1>1. /\ clock' = clock + 1 /\ telling' = [telling EXCEPT ![c] = t]
        /\ UNCHANGED <<since, request, question, notices>>
    BY DEF News!Begin
  <1>2. clock \in Nat /\ notices \in Seq(News!Notice) /\ since \in [Managers -> Nat]
        /\ telling \in [Calls -> TellingTransactions \cup {None}]
    BY DEF NewsInv, NewsTypes
  <1>3. t \in TellingTransactions /\ t.start = clock + 1
        /\ \A m \in Managers : since[m] # 0 => m \in t.told
    BY <1>2 DEF TellingTransactions, News!ActiveManagers
  <1> HIDE DEF t
  <1>4. telling' \in [Calls -> TellingTransactions \cup {None}]
        /\ \A d \in Calls : telling'[d] = IF d = c THEN t ELSE telling[d]
    BY <1>1, <1>2, <1>3
  <1>5. NewsTypes' /\ \A r \in Requests : RequestTold(r)'
    BY <1>1, <1>2, <1>4, NothingNew, RequestsUntouched
  <1>6. ASSUME NEW d \in Calls, telling'[d] # None
        PROVE  /\ telling'[d].start <= clock'
               /\ \A m \in Managers : since'[m] # 0 /\ since'[m] < telling'[d].start
                                        => m \in telling'[d].told
    <2>1. CASE d = c
      BY <1>1, <1>2, <1>3, <1>4, <2>1
    <2>2. CASE d # c
      <3>1. telling'[d] = telling[d] /\ telling[d] \in TellingTransactions
        BY <1>2, <1>4, <1>6, <2>2
      <3>2. telling[d].start \in Nat
        BY <3>1 DEF TellingTransactions
      <3> QED
        BY <1>1, <1>2, <1>6, <3>1, <3>2 DEF NewsInv, ManagersListed
    <2> QED
      BY <2>1, <2>2
  <1>7. ManagersListed'
    BY <1>6 DEF ManagersListed
  <1> QED
    BY <1>5, <1>7 DEF NewsInv

\* A manager who is enabled now was not active before any open transaction.
LEMMA FlipStep ==
  ASSUME NewsInv, NEW m \in Managers, News!Flip(m)
  PROVE  NewsInv'
  <1>1. /\ clock' = clock + 1 /\ UNCHANGED <<request, question, notices, telling>>
        /\ since' = [since EXCEPT ![m] = IF since[m] = 0 THEN clock + 1 ELSE 0]
    BY DEF News!Flip
  <1>2. clock \in Nat /\ notices \in Seq(News!Notice) /\ since \in [Managers -> Nat]
        /\ telling \in [Calls -> TellingTransactions \cup {None}]
    BY DEF NewsInv, NewsTypes
  <1>3. since' \in [Managers -> Nat]
        /\ \A n \in Managers : since'[n] \in {since[n], 0} \/ since'[n] > clock
    BY <1>1, <1>2
  <1>4. NewsTypes' /\ \A r \in Requests : RequestTold(r)'
    BY <1>1, <1>2, <1>3, NothingNew, RequestsUntouched
  <1>5. ASSUME NEW d \in Calls, telling[d] # None
        PROVE  /\ telling[d].start <= clock'
               /\ \A n \in Managers : since'[n] # 0 /\ since'[n] < telling[d].start
                                        => n \in telling[d].told
    <2>1. telling[d].start \in Nat
      BY <1>2, <1>5 DEF TellingTransactions
    <2>2. telling[d].start <= clock
          /\ \A n \in Managers : since[n] # 0 /\ since[n] < telling[d].start
                                   => n \in telling[d].told
      BY <1>5 DEF NewsInv, ManagersListed
    <2> QED
      BY <1>1, <1>2, <1>3, <2>1, <2>2
  <1>6. ManagersListed'
    BY <1>1, <1>5 DEF ManagersListed
  <1> QED
    BY <1>4, <1>6 DEF NewsInv

\* A step after which no transaction is there that was not there before.
LEMMA ListedStays ==
  ASSUME NewsInv, since' = since, clock' \in Nat, clock <= clock',
         \A c \in Calls : telling'[c] \in {telling[c], None}
  PROVE  ManagersListed'
  <1>1. clock \in Nat /\ since \in [Managers -> Nat]
        /\ telling \in [Calls -> TellingTransactions \cup {None}]
    BY DEF NewsInv, NewsTypes
  <1>2. ASSUME NEW d \in Calls, telling'[d] # None
        PROVE  /\ telling'[d].start <= clock'
               /\ \A m \in Managers : since[m] # 0 /\ since[m] < telling'[d].start
                                        => m \in telling'[d].told
    <2>1. telling'[d] = telling[d] /\ telling[d].start \in Nat
      BY <1>1, <1>2 DEF TellingTransactions
    <2> QED
      BY <1>1, <1>2, <2>1 DEF NewsInv, ManagersListed
  <1> QED
    BY <1>2 DEF ManagersListed

\* Rollbacks and what the user does at a panel: a notice may be read.
LEMMA PanelStep ==
  ASSUME NewsInv,
         \/ \E c \in Calls : News!Rollback(c)
         \/ \E w \in Windows : \/ News!LoadPanel(w) \/ News!ClosePanel(w)
                               \/ \E k \in 1..Limit : News!Select(w, k) \/ News!SelectFails(w, k)
  PROVE  NewsInv'
  <1>1. clock \in Nat /\ notices \in Seq(News!Notice) /\ since \in [Managers -> Nat]
        /\ telling \in [Calls -> TellingTransactions \cup {None}]
    BY DEF NewsInv, NewsTypes
  <1>2. UNCHANGED <<since, request, question>> /\ clock' \in {clock, clock + 1}
        /\ \/ UNCHANGED telling
           \/ \E c \in Calls : telling' = [telling EXCEPT ![c] = None]
        /\ \/ UNCHANGED notices
           \/ \E k, user : News!MarkAsRead(k, user)
    BY DEF News!Rollback, News!LoadPanel, News!ClosePanel, News!Select, News!SelectFails,
           News!tables
  <1>3. telling' \in [Calls -> TellingTransactions \cup {None}]
        /\ \A c \in Calls : telling'[c] \in {telling[c], None}
    BY <1>1, <1>2
  <1>4. notices' \in Seq(News!Notice) /\ \A r \in Requests : KeptFor(r)
    <2>1. CASE UNCHANGED notices
      BY <1>1, <2>1, NothingNew
    <2>2. ASSUME NEW k, NEW user, News!MarkAsRead(k, user)
          PROVE  notices' \in Seq(News!Notice) /\ \A r \in Requests : KeptFor(r)
      <3> DEFINE n == notices[k]
                 x == IF n.to = user /\ ~n.gone /\ n.read = 0 THEN [n EXCEPT !.read = clock] ELSE n
      <3>1. notices' = [notices EXCEPT ![k] = x]
        BY <2>2 DEF News!MarkAsRead
      <3>2. CASE k \in DOMAIN notices
        <4>1. n \in News!Notice
          BY <1>1, <3>2
        <4>2. x \in News!Notice /\ Same(x, n)
          BY <1>1, <4>1 DEF News!Notice, Same
        <4> HIDE DEF x, n
        <4>3. notices' \in Seq(News!Notice) /\ DOMAIN notices' = DOMAIN notices
              /\ \A j \in DOMAIN notices : notices'[j] = IF j = k THEN x ELSE notices[j]
          BY <1>1, <3>1, <3>2, <4>2
        <4> QED
          BY <4>2, <4>3 DEF KeptFor, Same, n
      <3>3. CASE k \notin DOMAIN notices
        <4> HIDE DEF x
        <4>1. notices' = notices
          BY <1>1, <3>1, <3>3
        <4> QED
          BY <1>1, <4>1, NothingNew
      <3> QED
        BY <3>2, <3>3
    <2> QED
      BY <1>2, <2>1, <2>2
  <1>5. clock' \in Nat /\ clock <= clock'
    BY <1>1, <1>2
  <1>6. \A m \in Managers : since'[m] \in {since[m], 0}
    BY <1>2
  <1>7. NewsTypes' /\ \A r \in Requests : RequestTold(r)'
    BY <1>1, <1>2, <1>3, <1>4, <1>5, <1>6, RequestsUntouched
  <1>8. ManagersListed'
    BY <1>2, <1>3, <1>5, ListedStays
  <1> QED
    BY <1>7, <1>8 DEF NewsInv

-----------------------------------------------------------------------------
(* TellingTransactions that add notices.                                          *)

\* The notices after those that were there.
LEMMA Appended ==
  ASSUME NEW told \in Seq(News!Notice), notices \in Seq(News!Notice), notices' = notices \o told
  PROVE  /\ notices' \in Seq(News!Notice) /\ Len(notices) \in Nat
         /\ \A k \in DOMAIN notices :
              k <= Len(notices) /\ k \in DOMAIN notices' /\ notices'[k] = notices[k]
         /\ \A l \in DOMAIN told :
              /\ Len(notices) + l \in DOMAIN notices' /\ Len(notices) + l > Len(notices)
              /\ Len(notices) + l \notin DOMAIN notices
              /\ notices'[Len(notices) + l] = told[l]
         /\ \A k \in DOMAIN notices' :
              \/ k \in DOMAIN notices
              \/ \E l \in DOMAIN told : k = Len(notices) + l /\ notices'[k] = told[l]
  <1>1. /\ notices' \in Seq(News!Notice) /\ Len(notices) \in Nat /\ Len(told) \in Nat
        /\ Len(notices') = Len(notices) + Len(told)
        /\ DOMAIN notices = 1..Len(notices) /\ DOMAIN told = 1..Len(told)
        /\ DOMAIN notices' = 1..(Len(notices) + Len(told))
    OBVIOUS
  <1>2. \A k \in 1..(Len(notices) + Len(told)) :
          notices'[k] = IF k <= Len(notices) THEN notices[k] ELSE told[k - Len(notices)]
    OBVIOUS
  <1>3. ASSUME NEW k \in DOMAIN notices', k \notin DOMAIN notices
        PROVE  \E l \in DOMAIN told : k = Len(notices) + l /\ notices'[k] = told[l]
    <2>1. k - Len(notices) \in DOMAIN told /\ k = Len(notices) + (k - Len(notices))
      BY <1>1, <1>3
    <2> QED
      BY <1>1, <1>2, <1>3, <2>1
  <1>4. ASSUME NEW l \in DOMAIN told
        PROVE  /\ Len(notices) + l \in DOMAIN notices' /\ Len(notices) + l > Len(notices)
               /\ Len(notices) + l \notin DOMAIN notices
               /\ notices'[Len(notices) + l] = told[l]
    <2>1. /\ Len(notices) + l \in 1..(Len(notices) + Len(told)) /\ Len(notices) + l > Len(notices)
          /\ (Len(notices) + l) - Len(notices) = l /\ ~(Len(notices) + l <= Len(notices))
      BY <1>1
    <2> QED
      BY <1>1, <1>2, <2>1
  <1> QED
    BY <1>1, <1>2, <1>3, <1>4

\* A notice is one of before or one that is told.
LEMMA OldOrTold ==
  ASSUME NEW told \in Seq(News!Notice), notices \in Seq(News!Notice), notices' = notices \o told
  PROVE  \A k \in DOMAIN notices' :
           \/ k \in DOMAIN notices /\ notices'[k] = notices[k]
           \/ k \notin DOMAIN notices /\ \E l \in DOMAIN told : k = Len(notices) + l /\ notices'[k] = told[l]
  <1>1. /\ \A k \in DOMAIN notices : notices'[k] = notices[k]
        /\ \A l \in DOMAIN told : Len(notices) + l \notin DOMAIN notices
        /\ \A k \in DOMAIN notices' :
             \/ k \in DOMAIN notices
             \/ \E l \in DOMAIN told : k = Len(notices) + l /\ notices'[k] = told[l]
    BY Appended
  <1> QED
    BY <1>1

\* What is told is told.
LEMMA NowTold ==
  ASSUME NEW told \in Seq(News!Notice), notices \in Seq(News!Notice), notices' = notices \o told,
         NEW l \in DOMAIN told, ~told[l].gone, NEW types, told[l].type \in types,
         NEW after \in 0..Len(notices)
  PROVE  IsTold(notices', told[l].to, types, told[l].id, after)
  <1>1. /\ Len(notices) + l \in DOMAIN notices' /\ notices'[Len(notices) + l] = told[l]
        /\ Len(notices) \in Nat /\ Len(notices) + l > Len(notices) /\ l \in Nat
    BY Appended
  <1>2. Len(notices) + l > after
    BY <1>1
  <1> QED
    BY <1>1, <1>2 DEF IsTold

\* What was told before still is.
LEMMA StillTold ==
  ASSUME NEW told \in Seq(News!Notice), notices \in Seq(News!Notice), notices' = notices \o told,
         NEW user, NEW types, NEW r, NEW after, IsTold(notices, user, types, r, after)
  PROVE  IsTold(notices', user, types, r, after)
  BY Appended DEF IsTold

Says(notice, to, type, r) ==
  notice.to = to /\ notice.type = type /\ notice.id = r /\ ~notice.gone

\* A notice that _create makes.
LEMMA Created ==
  ASSUME NEW c \in Calls, telling[c] \in TellingTransactions, NEW type \in News!Types,
         NEW to \in News!Users \cup {None}, None \notin News!Users, NEW r \in Requests
  PROVE  /\ News!Create(c, to, type, r) \in Seq(News!Notice)
         /\ \A k \in DOMAIN News!Create(c, to, type, r) :
              k = 1 /\ Says(News!Create(c, to, type, r)[k], to, type, r)
         /\ to # None => /\ 1 \in DOMAIN News!Create(c, to, type, r)
                         /\ News!Create(c, to, type, r)[1] \in News!Notice
  <1> DEFINE n == [to |-> to, type |-> type, entity |-> News!Entity(type), id |-> r,
                   created |-> telling[c].start, read |-> 0, gone |-> FALSE]
  <1>1. CASE to = None
    BY <1>1 DEF News!Create
  <1>2. CASE to # None
    <2>1. News!Create(c, to, type, r) = <<n>>
      BY <1>2 DEF News!Create
    <2>2. telling[c].start \in Nat
      BY DEF TellingTransactions
    <2>3. n \in News!Notice
      BY <1>2, <2>2 DEF News!Notice
    <2>4. Says(n, to, type, r)
      BY DEF Says
    <2> HIDE DEF n
    <2> QED
      BY <2>1, <2>3, <2>4
  <1> QED
    BY <1>1, <1>2

\* The end of a transaction on r that tells of r only.
LEMMA CommitStep ==
  ASSUME NewsInv, NEW c \in Calls, NEW r \in Requests, NEW told \in Seq(News!Notice),
         News!Commit(c, told), \A k \in DOMAIN told : told[k].id = r,
         request' \in [Requests -> RequestColumns], question' \in [Requests -> QuestionColumns],
         \A s \in Requests : s # r => request'[s] = request[s] /\ question'[s] = question[s],
         RequestTold(r)'
  PROVE  NewsInv'
  <1>1. /\ clock \in Nat /\ notices \in Seq(News!Notice) /\ since \in [Managers -> Nat]
        /\ telling \in [Calls -> TellingTransactions \cup {None}]
        /\ notices' = notices \o told /\ telling' = [telling EXCEPT ![c] = None]
        /\ UNCHANGED <<since, clock>>
    BY DEF NewsInv, NewsTypes, News!Commit
  <1>2. telling' \in [Calls -> TellingTransactions \cup {None}]
        /\ \A d \in Calls : telling'[d] \in {telling[d], None}
    BY <1>1
  <1>3. NewsTypes'
    BY <1>1, <1>2, Appended DEF NewsTypes
  <1>4. ManagersListed'
    BY <1>1, <1>2, ListedStays
  <1>5. ASSUME NEW s \in Requests, s # r
        PROVE  RequestTold(s)'
    <2>1. KeptFor(s)
      BY <1>1, <1>5, Appended DEF KeptFor, Same
    <2>2. clock' \in Nat /\ clock <= clock' /\ \A m \in Managers : since'[m] \in Nat /\ since'[m] = since[m]
      BY <1>1
    <2> QED
      BY <1>5, <2>1, <2>2, RequestUntouched DEF NewsInv
  <1> QED
    BY <1>3, <1>4, <1>5 DEF NewsInv

\* The instance has its own copy of Cardinality.
LEMMA SameCardinality ==
  ASSUME NEW S
  PROVE  News!Cardinality(S) = Cardinality(S)
  BY DEF News!Cardinality, Cardinality

\* SetToSeq lists every element of a finite set.
LEMMA Enumerated ==
  ASSUME NEW S, IsFiniteSet(S)
  PROVE  News!SetToSeq(S) \in Seq(S) /\ \A x \in S : \E k \in DOMAIN News!SetToSeq(S) : News!SetToSeq(S)[k] = x
  <1> DEFINE n == Cardinality(S)
             P(f) == f \in [1..n -> S] /\ News!IsInjective(f)
             q == News!SetToSeq(S)
  <1>1. n \in Nat /\ ExistsBijection(1..n, S)
    BY FS_CardinalityType
  <1>2. \E f : P(f)
    <2>1. PICK f : f \in Bijection(1..n, S)
      BY <1>1 DEF ExistsBijection
    <2>2. P(f)
      BY <2>1 DEF Bijection, Injection, IsInjective, News!IsInjective
    <2> QED
      BY <2>2
  <1>3. q = CHOOSE f \in [1..n -> S] : News!IsInjective(f)
    BY SameCardinality DEF News!SetToSeq
  <1>4. P(q)
    BY <1>2, <1>3
  <1>5. IsFiniteSet(1..n) /\ Cardinality(1..n) = n
    <2>1. n \in Int /\ 1 \in Int
      BY <1>1
    <2>2. IsFiniteSet(1..n) /\ Cardinality(1..n) = IF 1 > n THEN 0 ELSE n - 1 + 1
      BY <2>1, FS_Interval
    <2> QED
      BY <1>1, <2>2
  <1>6. q \in Injection(1..n, S)
    BY <1>4 DEF Injection, IsInjective, News!IsInjective
  <1>7. q \in Surjection(1..n, S)
    BY <1>5, <1>6, FS_Injection
  <1>8. \A x \in S : \E k \in 1..n : q[k] = x
    BY <1>7 DEF Surjection
  <1> HIDE DEF q, n
  <1>9. q \in [1..n -> S]
    BY <1>4
  <1>10. DOMAIN q = 1..n /\ q \in Seq(S)
    BY <1>1, <1>9
  <1>11. q \in Seq(S) /\ \A x \in S : \E k \in DOMAIN q : q[k] = x
    BY <1>8, <1>10
  <1> QED
    BY <1>11 DEF q

\* notify_material_request_created tells each manager of the list, of that
\* request only.
LEMMA ManagersTold ==
  ASSUME NEW c \in Calls, telling[c] \in TellingTransactions, NEW r \in Requests, IsFiniteSet(Managers),
         None \notin News!Users
  PROVE  /\ News!TellManagers(c, r) \in Seq(News!Notice)
         /\ \A k \in DOMAIN News!TellManagers(c, r) :
              Says(News!TellManagers(c, r)[k], News!TellManagers(c, r)[k].to, "request created", r)
         /\ \A m \in telling[c].told :
              \E k \in DOMAIN News!TellManagers(c, r) : News!TellManagers(c, r)[k].to = m
  <1> DEFINE S == telling[c].told
             q == News!SetToSeq(S)
             Note(m) == News!Create(c, m, "request created", r)
             t == [k \in DOMAIN q |-> Note(q[k])[1]]
  <1>1. S \subseteq Managers
    BY DEF TellingTransactions
  <1>2. q \in Seq(S) /\ \A m \in S : \E k \in DOMAIN q : q[k] = m
    BY <1>1, FS_Subset, Enumerated
  <1>3. ASSUME NEW m \in S
        PROVE  /\ Note(m)[1] \in News!Notice /\ Says(Note(m)[1], m, "request created", r)
    <2>1. m \in News!Users /\ m # None /\ "request created" \in News!Types
      BY <1>1, <1>3 DEF News!Users, News!Types, News!CreatedTypes
    <2>2. /\ 1 \in DOMAIN Note(m) /\ Note(m)[1] \in News!Notice
          /\ \A k \in DOMAIN Note(m) : Says(Note(m)[k], m, "request created", r)
      BY <2>1, Created
    <2> HIDE DEF Note
    <2> QED
      BY <2>2
  <1>4. News!TellManagers(c, r) = t
    BY DEF News!TellManagers
  <1> HIDE DEF Note, q
  <1>5. DOMAIN q = 1..Len(q) /\ Len(q) \in Nat /\ \A k \in DOMAIN q : q[k] \in S
    BY <1>2
  <1>6. \A k \in DOMAIN q : Note(q[k])[1] \in News!Notice
    BY <1>3, <1>5
  <1>7. t \in Seq(News!Notice) /\ DOMAIN t = DOMAIN q
    BY <1>5, <1>6
  <1>8. \A k \in DOMAIN t : t[k].to = q[k] /\ Says(t[k], t[k].to, "request created", r)
    BY <1>3, <1>5 DEF Says
  <1> HIDE DEF t
  <1> QED
    BY <1>2, <1>4, <1>7, <1>8

\* Requests: those whose columns change.
LEMMA ColumnsChanged ==
  ASSUME NewsInv, NEW r \in Requests, NEW new \in RequestColumns,
         request' = [request EXCEPT ![r] = new]
  PROVE  /\ request' \in [Requests -> RequestColumns] /\ request'[r] = new
         /\ \A s \in Requests : s # r => request'[s] = request[s]
  BY DEF NewsInv, NewsTypes

\* A new request: the managers of the list are told.
LEMMA CreateRequestStep ==
  ASSUME NewsInv, NEW c \in Calls, NEW r \in Requests, NEW by \in Engineers \cup {None},
         News!CreateRequest(c, r, by), IsFiniteSet(Managers), None \notin News!Users
  PROVE  NewsInv'
  <1> DEFINE told == News!TellManagers(c, r)
             new == [state |-> "new", by |-> by, officer |-> None, read |-> telling[c].start]
  <1>1. /\ telling[c] # None /\ request[r].state = "none" /\ question' = question
        /\ request' = [request EXCEPT ![r] = new] /\ News!Commit(c, told)
    BY DEF News!CreateRequest
  <1>2. /\ telling[c] \in TellingTransactions /\ telling[c].start \in Nat /\ telling[c].start <= clock
        /\ clock \in Nat /\ notices \in Seq(News!Notice) /\ since \in [Managers -> Nat]
        /\ question \in [Requests -> QuestionColumns]
    BY <1>1 DEF NewsInv, NewsTypes, TellingTransactions, ManagersListed
  <1>3. new \in RequestColumns
    BY <1>2 DEF RequestColumns
  <1>4. /\ request' \in [Requests -> RequestColumns] /\ request'[r] = new
        /\ \A s \in Requests : s # r => request'[s] = request[s]
    BY <1>1, <1>3, ColumnsChanged
  <1>5. new.state = "new" /\ new.read = telling[c].start
    OBVIOUS
  <1> HIDE DEF new
  <1>6. /\ told \in Seq(News!Notice)
        /\ \A k \in DOMAIN told : /\ told[k].id = r /\ told[k].type = "request created"
                                  /\ ~told[k].gone
        /\ \A m \in telling[c].told : \E k \in DOMAIN told : told[k].to = m
    <2>1. /\ told \in Seq(News!Notice)
          /\ \A k \in DOMAIN told : Says(told[k], told[k].to, "request created", r)
          /\ \A m \in telling[c].told : \E k \in DOMAIN told : told[k].to = m
      BY <1>2, ManagersTold
    <2> HIDE DEF told
    <2> QED
      BY <2>1 DEF Says
  <1>7. notices' = notices \o told /\ UNCHANGED <<since, clock>>
    BY <1>1 DEF News!Commit
  <1> HIDE DEF told
  <1>8. question[r].status = "none"
    BY <1>1, <1>2 DEF NewsInv, RequestTold, QuestionColumns
  <1>9. ASSUME NEW m \in Managers, since[m] # 0, since[m] < telling[c].start
        PROVE  IsTold(notices', m, News!CreatedTypes, r, 0)
    <2>1. PICK k \in DOMAIN told : told[k].to = m
      BY <1>1, <1>6, <1>9 DEF NewsInv, ManagersListed
    <2>2. told[k].id = r /\ told[k].type \in News!CreatedTypes /\ ~told[k].gone
      BY <1>6 DEF News!CreatedTypes
    <2>3. 0 \in 0..Len(notices)
      BY <1>2
    <2> QED
      BY <1>2, <1>6, <1>7, <2>1, <2>2, <2>3, NowTold
  <1>10. /\ \A k \in DOMAIN notices' : ~TellsFirst(notices'[k], r)
         /\ \A k \in DOMAIN notices' : notices'[k].id = r => ~notices'[k].gone
    <2>1. /\ \A k \in DOMAIN notices : ~TellsFirst(notices[k], r)
          /\ \A k \in DOMAIN notices : notices[k].id = r => ~notices[k].gone
      BY <1>1 DEF NewsInv, RequestTold
    <2>2. \A k \in DOMAIN notices' :
            \/ k \in DOMAIN notices /\ notices'[k] = notices[k]
            \/ \E l \in DOMAIN told : notices'[k] = told[l]
      <3>1. told \in Seq(News!Notice) /\ notices \in Seq(News!Notice) /\ notices' = notices \o told
        BY <1>2, <1>6, <1>7
      <3> QED
        BY <3>1, OldOrTold
    <2>3. \A l \in DOMAIN told : ~TellsFirst(told[l], r) /\ ~told[l].gone
      BY <1>6 DEF TellsFirst
    <2> QED
      BY <2>1, <2>2, <2>3
  <1>11. RequestTold(r)'
    <2>1. ASSUME NEW m \in Managers, since'[m] # 0, since'[m] < request'[r].read
          PROVE  IsTold(notices', m, News!CreatedTypes, r, 0)
      BY <1>4, <1>5, <1>7, <1>9, <2>1
    <2> SUFFICES /\ request'[r].state # "none" => request'[r].read <= clock'
                 /\ request'[r].state = "new" /\ question'[r].status = "none"
      BY <1>10, <2>1 DEF RequestTold, IsTold, TellsFirst
    <2> QED
      BY <1>1, <1>2, <1>4, <1>5, <1>7, <1>8
  <1> QED
    BY <1>1, <1>2, <1>4, <1>6, <1>11, CommitStep

\* An operation on a request that is there and then has its officer.
LEMMA OperationStep ==
  ASSUME NewsInv, NEW c \in Calls, NEW r \in Requests, NEW told \in Seq(News!Notice),
         News!Commit(c, told), \A k \in DOMAIN told : told[k].id = r /\ ~told[k].gone,
         request' \in [Requests -> RequestColumns], question' \in [Requests -> QuestionColumns],
         \A s \in Requests : s # r => request'[s] = request[s] /\ question'[s] = question[s],
         request[r].state \in {"new", "assigned"}, request'[r].state = "assigned",
         request'[r].officer # None, request'[r].read = request[r].read,
         question'[r].status # "none" => request'[r].by # None,
         question'[r].status = "awaiting" =>
           IsTold(notices', request'[r].by, {"question recorded", "follow-up recorded"}, r,
                  question'[r].at),
         question'[r].status = "ready" =>
           IsTold(notices', request'[r].officer, {"response submitted", "reassigned"}, r,
                  question'[r].at),
         \A k, l \in DOMAIN told : TellsFirst(told[k], r) /\ TellsFirst(told[l], r) => k = l,
         request[r].state = "new" \/ \A k \in DOMAIN told : ~TellsFirst(told[k], r)
  PROVE  NewsInv'
  <1>1. /\ clock \in Nat /\ notices \in Seq(News!Notice) /\ notices' = notices \o told
        /\ clock' = clock
    BY DEF NewsInv, NewsTypes, News!Commit
  <1>2. \A k \in DOMAIN notices' :
           \/ k \in DOMAIN notices /\ notices'[k] = notices[k]
           \/ k \notin DOMAIN notices /\ \E l \in DOMAIN told : k = Len(notices) + l /\ notices'[k] = told[l]
    BY <1>1, OldOrTold
  <1>3. /\ request[r].state = "new" => \A k \in DOMAIN notices : ~TellsFirst(notices[k], r)
        /\ \A k, l \in DOMAIN notices : TellsFirst(notices[k], r) /\ TellsFirst(notices[l], r) => k = l
        /\ \A k \in DOMAIN notices : notices[k].id = r => ~notices[k].gone
        /\ request[r].read <= clock
    BY DEF NewsInv, RequestTold
  <1>4. ASSUME NEW k \in DOMAIN notices', notices'[k].id = r
        PROVE  ~notices'[k].gone
    <2>1. CASE k \in DOMAIN notices /\ notices'[k] = notices[k]
      BY <1>3, <1>4, <2>1
    <2>2. ASSUME NEW l \in DOMAIN told, notices'[k] = told[l]
          PROVE  ~notices'[k].gone
      <3>1. ~told[l].gone
        OBVIOUS
      <3> QED
        BY <2>2, <3>1
    <2> QED
      BY <1>2, <2>1, <2>2
  <1>5. ASSUME NEW k \in DOMAIN notices', NEW l \in DOMAIN notices',
               TellsFirst(notices'[k], r), TellsFirst(notices'[l], r)
        PROVE  k = l
    <2>1. CASE request[r].state = "new"
      <3>1. PICK i \in DOMAIN told : k = Len(notices) + i /\ notices'[k] = told[i]
        BY <1>2, <1>3, <1>5, <2>1
      <3>2. PICK j \in DOMAIN told : l = Len(notices) + j /\ notices'[l] = told[j]
        BY <1>2, <1>3, <1>5, <2>1
      <3>3. i = j
        BY <1>5, <3>1, <3>2
      <3> QED
        BY <3>1, <3>2, <3>3
    <2>2. CASE \A j \in DOMAIN told : ~TellsFirst(told[j], r)
      <3>1. k \in DOMAIN notices /\ notices'[k] = notices[k]
        BY <1>2, <1>5, <2>2
      <3>2. l \in DOMAIN notices /\ notices'[l] = notices[l]
        BY <1>2, <1>5, <2>2
      <3> QED
        BY <1>3, <1>5, <3>1, <3>2
    <2> QED
      BY <2>1, <2>2
  <1>6. RequestTold(r)'
    <2> SUFFICES /\ request'[r].read <= clock'
                 /\ question'[r].status # "none" => request'[r].by # None
                 /\ question'[r].status = "awaiting" =>
                      IsTold(notices', request'[r].by, {"question recorded", "follow-up recorded"}, r,
                             question'[r].at)
                 /\ question'[r].status = "ready" =>
                      IsTold(notices', request'[r].officer, {"response submitted", "reassigned"}, r,
                             question'[r].at)
                 /\ \A k, l \in DOMAIN notices' :
                      TellsFirst(notices'[k], r) /\ TellsFirst(notices'[l], r) => k = l
                 /\ \A k \in DOMAIN notices' : notices'[k].id = r => ~notices'[k].gone
      BY DEF RequestTold, IsTold, TellsFirst
    <2> QED
      BY <1>1, <1>3, <1>4, <1>5
  <1> QED
    BY <1>6, CommitStep

\* The two notices of an assignment.
BothSay(told, r, officer, type, other) ==
  /\ told \in Seq(News!Notice) /\ 1 \in DOMAIN told /\ Says(told[1], officer, type, r)
  /\ \A k \in DOMAIN told : told[k].id = r /\ ~told[k].gone /\ (k # 1 => told[k].type = other)

LEMMA BothTold ==
  ASSUME NEW c \in Calls, telling[c] \in TellingTransactions, None \notin News!Users, NEW r \in Requests,
         NEW officer \in Officers, request[r].by \in Engineers \cup {None},
         NEW type \in News!OfficerTypes, NEW other \in News!RequesterTypes
  PROVE  BothSay(News!TellBoth(c, r, officer, type, other), r, officer, type, other)
  <1> DEFINE by == request[r].by
             told == News!TellBoth(c, r, officer, type, other)
  <1> DEFINE a == News!Create(c, officer, type, r)
             b == News!Create(c, by, other, r)
  <1>1. /\ type \in News!Types /\ other \in News!Types
        /\ officer \in News!Users \cup {None} /\ by \in News!Users \cup {None}
        /\ officer # None
    BY DEF News!Types, News!Users
  <1>2. /\ a \in Seq(News!Notice) /\ 1 \in DOMAIN a
        /\ \A k \in DOMAIN a : k = 1 /\ Says(a[k], officer, type, r)
    BY <1>1, Created
  <1>3. /\ b \in Seq(News!Notice) /\ \A k \in DOMAIN b : Says(b[k], by, other, r)
    BY <1>1, Created
  <1>4. told = a \o b
    BY DEF News!TellBoth
  <1> HIDE DEF a, b, by, told
  <1>5. Len(a) = 1
    <2>1. Len(a) \in Nat /\ DOMAIN a = 1..Len(a)
      BY <1>2
    <2>2. \A k \in 1..Len(a) : k = 1
      BY <1>2, <2>1
    <2> QED
      BY <1>2, <2>1, <2>2
  <1>6. /\ told \in Seq(News!Notice) /\ DOMAIN told = 1..(1 + Len(b)) /\ Len(b) \in Nat
        /\ DOMAIN b = 1..Len(b) /\ told[1] = a[1]
        /\ \A k \in 2..(1 + Len(b)) : told[k] = b[k - 1] /\ k - 1 \in 1..Len(b)
    <2>1. a \in Seq(News!Notice) /\ b \in Seq(News!Notice) /\ Len(a) = 1
      BY <1>2, <1>3, <1>5
    <2>2. /\ told \in Seq(News!Notice) /\ Len(told) = Len(a) + Len(b)
          /\ \A k \in 1..(Len(a) + Len(b)) :
               told[k] = IF k <= Len(a) THEN a[k] ELSE b[k - Len(a)]
      <3>1. /\ a \o b \in Seq(News!Notice) /\ Len(a \o b) = Len(a) + Len(b)
            /\ \A k \in 1..(Len(a) + Len(b)) :
                 (a \o b)[k] = IF k <= Len(a) THEN a[k] ELSE b[k - Len(a)]
        BY <2>1, ConcatProperties
      <3> QED
        BY <1>4, <3>1, Zenon
    <2>3. Len(b) \in Nat /\ DOMAIN b = 1..Len(b) /\ DOMAIN told = 1..Len(told)
      BY <2>1, <2>2
    <2>4. \A k \in 2..(1 + Len(b)) : told[k] = b[k - 1] /\ k - 1 \in 1..Len(b)
      BY <2>1, <2>2, <2>3
    <2> QED
      BY <2>1, <2>2, <2>3, <2>4
  <1>7. Says(told[1], officer, type, r)
    BY <1>2, <1>6
  <1>8. \A k \in DOMAIN told : k = 1 \/ Says(told[k], by, other, r)
    <2>1. \A k \in DOMAIN told : k = 1 \/ k \in 2..(1 + Len(b))
      BY <1>6
    <2> QED
      BY <1>3, <1>6, <2>1
  <1>9. 1 \in DOMAIN told
    BY <1>6
  <1> QED
    BY <1>6, <1>7, <1>8, <1>9 DEF Says, BothSay, told

\* Two facts about numbers.
LEMMA Between ==
  ASSUME NEW n \in Nat, NEW a \in Nat, NEW k \in 1..n, k > a
  PROVE  a \in 0..n
  OBVIOUS

LEMMA UpTo ==
  ASSUME NEW n \in Nat
  PROVE  n \in 0..n
  OBVIOUS

\* The first assignment, by a manager or by the automatic assignment, and later ones.
LEMMA AssignedStep ==
  ASSUME NewsInv, NEW c \in Calls, NEW r \in Requests, NEW officer \in Officers,
         None \notin News!Users,
         \/ News!Assign(c, r, officer, "assigned", "requester assigned")
         \/ News!Assign(c, r, officer, "auto-assigned", "requester auto-assigned")
         \/ News!Reassign(c, r, officer)
  PROVE  NewsInv'
  <1>1. PICK type \in News!OfficerTypes, other \in News!RequesterTypes :
          /\ News!Commit(c, News!TellBoth(c, r, officer, type, other))
          /\ telling[c] # None /\ News!Assigned(r, officer) /\ question' = question
          /\ \/ request[r].state = "new"
             \/ request[r].state = "assigned" /\ type = "reassigned"
    BY DEF News!Assign, News!Reassign, News!OfficerTypes, News!RequesterTypes
  <1> DEFINE told == News!TellBoth(c, r, officer, type, other)
             new == [request[r] EXCEPT !.state = "assigned", !.officer = officer]
  <1>2. /\ telling[c] \in TellingTransactions /\ notices \in Seq(News!Notice)
        /\ request \in [Requests -> RequestColumns] /\ question \in [Requests -> QuestionColumns]
        /\ request[r] \in RequestColumns /\ request[r].by \in Engineers \cup {None}
    BY <1>1 DEF NewsInv, NewsTypes, RequestColumns
  <1>3. /\ new \in RequestColumns /\ new.state = "assigned" /\ new.officer = officer
        /\ new.by = request[r].by /\ new.read = request[r].read
    BY <1>2 DEF RequestColumns
  <1>4. request' = [request EXCEPT ![r] = new]
    BY <1>1, <1>2 DEF News!Assigned
  <1> HIDE DEF new
  <1>5. /\ request' \in [Requests -> RequestColumns] /\ request'[r] = new
        /\ \A s \in Requests : s # r => request'[s] = request[s]
    BY <1>3, <1>4, ColumnsChanged
  <1>7. notices' = notices \o told
    BY <1>1 DEF News!Commit
  <1> HIDE DEF told
  <1>8. /\ told \in Seq(News!Notice) /\ 1 \in DOMAIN told /\ Says(told[1], officer, type, r)
        /\ \A k \in DOMAIN told : told[k].id = r /\ ~told[k].gone /\ (k # 1 => told[k].type = other)
    <2>1. BothSay(told, r, officer, type, other)
      BY <1>2, BothTold DEF told
    <2> QED
      BY <2>1 DEF BothSay
  <1>9. /\ \A k, l \in DOMAIN told : TellsFirst(told[k], r) /\ TellsFirst(told[l], r) => k = l
        /\ request[r].state = "new" \/ \A k \in DOMAIN told : ~TellsFirst(told[k], r)
    BY <1>1, <1>8 DEF TellsFirst, Says, News!RequesterTypes
  <1>10. officer # None
    BY DEF News!Users
  <1>11. question'[r].status # "none" => request'[r].by # None
    BY <1>1, <1>3, <1>5 DEF NewsInv, RequestTold
  <1>12. question'[r].status = "awaiting" =>
           IsTold(notices', request'[r].by, {"question recorded", "follow-up recorded"}, r,
                  question'[r].at)
    <2>1. question[r].status = "awaiting" =>
           IsTold(notices, request[r].by, {"question recorded", "follow-up recorded"}, r,
                  question[r].at)
      BY DEF NewsInv, RequestTold
    <2> QED
      BY <1>1, <1>2, <1>3, <1>5, <1>7, <1>8, <2>1, StillTold
  <1>13. question'[r].status = "ready" =>
           IsTold(notices', request'[r].officer, {"response submitted", "reassigned"}, r,
                  question'[r].at)
    <2> SUFFICES ASSUME question[r].status = "ready"
                 PROVE  IsTold(notices', officer, {"response submitted", "reassigned"}, r,
                               question[r].at)
      BY <1>1, <1>3, <1>5
    <2>1. IsTold(notices, request[r].officer, {"response submitted", "reassigned"}, r,
                 question[r].at)
          /\ request[r].state = "assigned"
      BY DEF NewsInv, RequestTold
    <2>2. PICK k \in DOMAIN notices : k > question[r].at
      BY <2>1 DEF IsTold
    <2>3. question[r].at \in 0..Len(notices)
      <3>1. question[r].at \in Nat
        BY <1>2 DEF QuestionColumns
      <3>2. Len(notices) \in Nat /\ k \in 1..Len(notices)
        BY <1>2, LenProperties
      <3> QED
        BY <2>2, <3>1, <3>2, Between
    <2>4. /\ told[1].to = officer /\ told[1].type \in {"response submitted", "reassigned"}
          /\ told[1].id = r /\ ~told[1].gone /\ 1 \in DOMAIN told /\ told \in Seq(News!Notice)
      BY <1>1, <1>8, <2>1 DEF Says
    <2> QED
      BY <1>2, <1>7, <2>3, <2>4, NowTold
  <1>14. question' \in [Requests -> QuestionColumns] /\ \A s \in Requests : question'[s] = question[s]
    BY <1>1, <1>2
  <1>15. request'[r].state = "assigned" /\ request'[r].officer # None /\ request'[r].read = request[r].read
    BY <1>3, <1>5, <1>10
  <1>16. News!Commit(c, told) /\ request[r].state \in {"new", "assigned"}
         /\ \A k \in DOMAIN told : told[k].id = r /\ ~told[k].gone
    BY <1>1, <1>8 DEF told
  <1> QED
    BY <1>5, <1>8, <1>9, <1>11, <1>12, <1>13, <1>14, <1>15, <1>16, OperationStep

\* The notice of one recipient, or none if there is no recipient.
Only(told, r, to, type) ==
  /\ told \in Seq(News!Notice) /\ \A k \in DOMAIN told : Says(told[k], to, type, r)
  /\ to # None => 1 \in DOMAIN told

LEMMA OneTold ==
  ASSUME NewsInv, None \notin News!Users, NEW c \in Calls, telling[c] # None, NEW r \in Requests,
         NEW type \in News!Types
  PROVE  /\ Only(News!Create(c, request[r].by, type, r), r, request[r].by, type)
         /\ Only(News!Create(c, request[r].officer, type, r), r, request[r].officer, type)
  <1>1. telling[c] \in TellingTransactions /\ request[r] \in RequestColumns
    BY DEF NewsInv, NewsTypes
  <1>2. PICK by \in News!Users \cup {None} : by = request[r].by
    BY <1>1 DEF RequestColumns, News!Users
  <1>3. PICK officer \in News!Users \cup {None} : officer = request[r].officer
    BY <1>1 DEF RequestColumns, News!Users
  <1>4. \A to \in News!Users \cup {None} : Only(News!Create(c, to, type, r), r, to, type)
    BY <1>1, Created DEF Only
  <1> QED
    BY <1>2, <1>3, <1>4

\* A quotation is told to the requester only.
LEMMA AddQuotationStep ==
  ASSUME NewsInv, NEW c \in Calls, NEW r \in Requests, NEW type \in News!QuotationTypes,
         None \notin News!Users, News!AddQuotation(c, r, type)
  PROVE  NewsInv'
  <1> DEFINE told == News!Create(c, request[r].by, type, r)
  <1>1. /\ telling[c] # None /\ request[r].state = "assigned" /\ News!Commit(c, told)
        /\ request' = request /\ question' = question
    BY DEF News!AddQuotation
  <1>2. Only(told, r, request[r].by, type)
    <2>1. type \in News!Types
      BY DEF News!Types
    <2> QED
      BY <1>1, <2>1, OneTold
  <1>3. notices' = notices \o told /\ notices \in Seq(News!Notice)
    BY <1>1 DEF News!Commit, NewsInv, NewsTypes
  <1> HIDE DEF told
  <1>4. /\ told \in Seq(News!Notice)
        /\ \A k \in DOMAIN told : told[k].id = r /\ ~told[k].gone /\ ~TellsFirst(told[k], r)
    BY <1>2 DEF Only, Says, TellsFirst, News!QuotationTypes
  <1>5. /\ request[r].officer # None
        /\ question[r].status # "none" => request[r].by # None
        /\ question[r].status = "awaiting" =>
             IsTold(notices, request[r].by, {"question recorded", "follow-up recorded"}, r,
                    question[r].at)
        /\ question[r].status = "ready" =>
             IsTold(notices, request[r].officer, {"response submitted", "reassigned"}, r,
                    question[r].at)
    BY <1>1 DEF NewsInv, RequestTold
  <1>6. /\ question[r].status = "awaiting" =>
             IsTold(notices', request[r].by, {"question recorded", "follow-up recorded"}, r,
                    question[r].at)
        /\ question[r].status = "ready" =>
             IsTold(notices', request[r].officer, {"response submitted", "reassigned"}, r,
                    question[r].at)
    BY <1>3, <1>4, <1>5, StillTold
  <1>7. /\ request' \in [Requests -> RequestColumns] /\ question' \in [Requests -> QuestionColumns]
    BY <1>1 DEF NewsInv, NewsTypes
  <1>8. /\ \A k \in DOMAIN told : told[k].id = r /\ ~told[k].gone
        /\ \A k, l \in DOMAIN told : TellsFirst(told[k], r) /\ TellsFirst(told[l], r) => k = l
        /\ \A k \in DOMAIN told : ~TellsFirst(told[k], r)
    BY <1>4
  <1>9. /\ \A s \in Requests : s # r => request'[s] = request[s] /\ question'[s] = question[s]
        /\ request[r].state \in {"new", "assigned"} /\ request'[r].state = "assigned"
        /\ request'[r].officer # None /\ request'[r].read = request[r].read
        /\ question'[r].status # "none" => request'[r].by # None
    BY <1>1, <1>5
  <1>10. /\ question'[r].status = "awaiting" =>
             IsTold(notices', request'[r].by, {"question recorded", "follow-up recorded"}, r,
                    question'[r].at)
         /\ question'[r].status = "ready" =>
             IsTold(notices', request'[r].officer, {"response submitted", "reassigned"}, r,
                    question'[r].at)
    BY <1>1, <1>6
  <1> QED
    BY <1>1, <1>4, <1>7, <1>8, <1>9, <1>10, OperationStep

\* A step of a clarification tells whom it then waits for.
TellsWaitedFor(told, r, status, to, type) ==
  /\ request[r].state = "assigned" /\ request[r].by # None
  /\ status \in {"awaiting", "ready", "forwarded", "resolved"}
  /\ Only(told, r, to, type) /\ type \notin {"assigned", "auto-assigned"}
  /\ status = "awaiting" =>
       to = request[r].by /\ type \in {"question recorded", "follow-up recorded"}
  /\ status = "ready" => to = request[r].officer /\ type = "response submitted"

LEMMA AskStep ==
  ASSUME NewsInv, NEW c \in Calls, NEW r \in Requests, NEW from, NEW status, NEW told, NEW to, NEW type,
         News!Ask(c, r, from, status, told), TellsWaitedFor(told, r, status, to, type)
  PROVE  NewsInv'
  <1>0. /\ request[r].state = "assigned" /\ request[r].by # None
        /\ status \in {"awaiting", "ready", "forwarded", "resolved"}
        /\ Only(told, r, to, type) /\ type \notin {"assigned", "auto-assigned"}
        /\ status = "awaiting" =>
             to = request[r].by /\ type \in {"question recorded", "follow-up recorded"}
        /\ status = "ready" => to = request[r].officer /\ type = "response submitted"
    BY DEF TellsWaitedFor
  <1> DEFINE new == [status |-> status, at |-> Len(notices)]
  <1>1. /\ notices \in Seq(News!Notice) /\ Len(notices) \in Nat /\ request' = request
        /\ News!Commit(c, told) /\ notices' = notices \o told
        /\ question' = [question EXCEPT ![r] = new]
        /\ question \in [Requests -> QuestionColumns] /\ request \in [Requests -> RequestColumns]
    BY LenProperties DEF NewsInv, NewsTypes, News!Ask, News!Commit
  <1>2. new \in QuestionColumns /\ new.status = status /\ new.at = Len(notices)
    BY <1>0, <1>1 DEF QuestionColumns
  <1> HIDE DEF new
  <1>3. /\ question' \in [Requests -> QuestionColumns] /\ question'[r] = new
        /\ \A s \in Requests : s # r => question'[s] = question[s]
    BY <1>1, <1>2
  <1>4. /\ told \in Seq(News!Notice)
        /\ \A k \in DOMAIN told : told[k].id = r /\ ~told[k].gone /\ ~TellsFirst(told[k], r)
    BY <1>0 DEF Only, Says, TellsFirst
  <1>5. request[r].officer # None
    BY <1>0 DEF NewsInv, RequestTold
  <1>6. ASSUME to # None, NEW types, type \in types
        PROVE  IsTold(notices', to, types, r, Len(notices))
    <2>1. 1 \in DOMAIN told /\ Says(told[1], to, type, r)
      BY <1>0, <1>6 DEF Only
    <2>2. ~told[1].gone /\ told[1].type \in types /\ told[1].to = to /\ told[1].id = r
      BY <1>6, <2>1 DEF Says
    <2>3. Len(notices) \in 0..Len(notices)
      BY <1>1, UpTo
    <2>4. notices \in Seq(News!Notice) /\ notices' = notices \o told /\ told \in Seq(News!Notice)
      BY <1>1, <1>4
    <2>5. IsTold(notices', told[1].to, types, told[1].id, Len(notices))
      BY <2>1, <2>2, <2>3, <2>4, NowTold
    <2> QED
      BY <2>2, <2>5
  <1>7. /\ status = "awaiting" =>
             IsTold(notices', request[r].by, {"question recorded", "follow-up recorded"}, r,
                    Len(notices))
        /\ status = "ready" =>
             IsTold(notices', request[r].officer, {"response submitted", "reassigned"}, r,
                    Len(notices))
    BY <1>0, <1>5, <1>6
  <1>8. /\ question'[r].status = "awaiting" =>
             IsTold(notices', request'[r].by, {"question recorded", "follow-up recorded"}, r,
                    question'[r].at)
        /\ question'[r].status = "ready" =>
             IsTold(notices', request'[r].officer, {"response submitted", "reassigned"}, r,
                    question'[r].at)
    BY <1>1, <1>2, <1>3, <1>7
  <1>9. /\ \A k \in DOMAIN told : told[k].id = r /\ ~told[k].gone
        /\ \A k, l \in DOMAIN told : TellsFirst(told[k], r) /\ TellsFirst(told[l], r) => k = l
        /\ \A k \in DOMAIN told : ~TellsFirst(told[k], r)
    BY <1>4
  <1>10. /\ request' \in [Requests -> RequestColumns]
         /\ \A s \in Requests : s # r => request'[s] = request[s] /\ question'[s] = question[s]
         /\ request[r].state \in {"new", "assigned"} /\ request'[r].state = "assigned"
         /\ request'[r].officer # None /\ request'[r].read = request[r].read
         /\ question'[r].status # "none" => request'[r].by # None
    BY <1>0, <1>1, <1>3, <1>5
  <1> QED
    BY <1>1, <1>3, <1>4, <1>8, <1>9, <1>10, OperationStep

\* The steps of a clarification.
LEMMA QuestionStep ==
  ASSUME NewsInv, NEW c \in Calls, NEW r \in Requests, None \notin News!Users,
         \/ News!RecordQuestion(c, r) \/ News!SubmitResponse(c, r) \/ News!Forward(c, r)
         \/ News!FollowUp(c, r) \/ News!Resolve(c, r)
  PROVE  NewsInv'
  <1>1. question[r].status # "none" => request[r].state = "assigned" /\ request[r].by # None
    BY DEF NewsInv, RequestTold
  <1> USE DEF News!QuestionTypes, News!Types
  <1>2. CASE News!RecordQuestion(c, r)
    <2> DEFINE told == News!Create(c, request[r].by, "question recorded", r)
    <2>1. /\ request[r].state = "assigned" /\ request[r].by # None /\ telling[c] # None
          /\ News!Ask(c, r, {"none", "resolved"}, "awaiting", told)
      BY <1>2 DEF News!RecordQuestion, News!Ask
    <2>2. Only(told, r, request[r].by, "question recorded")
      BY <2>1, OneTold
    <2> HIDE DEF told
    <2>3. TellsWaitedFor(told, r, "awaiting", request[r].by, "question recorded")
      BY <1>1, <2>1, <2>2 DEF TellsWaitedFor
    <2> QED
      BY <2>1, <2>3, AskStep
  <1>3. CASE News!SubmitResponse(c, r)
    <2> DEFINE told == News!Create(c, request[r].officer, "response submitted", r)
    <2>1. /\ telling[c] # None /\ News!Ask(c, r, {"awaiting"}, "ready", told)
          /\ question[r].status # "none"
      BY <1>3 DEF News!SubmitResponse, News!Ask
    <2>2. Only(told, r, request[r].officer, "response submitted")
      BY <2>1, OneTold
    <2> HIDE DEF told
    <2>3. TellsWaitedFor(told, r, "ready", request[r].officer, "response submitted")
      BY <1>1, <2>1, <2>2 DEF TellsWaitedFor
    <2> QED
      BY <2>1, <2>3, AskStep
  <1>4. CASE News!Forward(c, r)
    <2>1. News!Ask(c, r, {"ready"}, "forwarded", << >>) /\ question[r].status # "none"
      BY <1>4 DEF News!Forward, News!Ask
    <2>2. Only(<< >>, r, None, "question resolved")
      BY DEF Only
    <2>3. TellsWaitedFor(<< >>, r, "forwarded", None, "question resolved")
      BY <1>1, <2>1, <2>2 DEF TellsWaitedFor
    <2> QED
      BY <2>1, <2>3, AskStep
  <1>5. CASE News!FollowUp(c, r)
    <2> DEFINE told == News!Create(c, request[r].by, "follow-up recorded", r)
    <2>1. /\ telling[c] # None /\ News!Ask(c, r, {"forwarded"}, "awaiting", told)
          /\ question[r].status # "none"
      BY <1>5 DEF News!FollowUp, News!Ask
    <2>2. Only(told, r, request[r].by, "follow-up recorded")
      BY <2>1, OneTold
    <2> HIDE DEF told
    <2>3. TellsWaitedFor(told, r, "awaiting", request[r].by, "follow-up recorded")
      BY <1>1, <2>1, <2>2 DEF TellsWaitedFor
    <2> QED
      BY <2>1, <2>3, AskStep
  <1>6. CASE News!Resolve(c, r)
    <2> DEFINE told == News!Create(c, request[r].by, "question resolved", r)
    <2>1. /\ telling[c] # None /\ News!Ask(c, r, {"forwarded"}, "resolved", told)
          /\ question[r].status # "none"
      BY <1>6 DEF News!Resolve, News!Ask
    <2>2. Only(told, r, request[r].by, "question resolved")
      BY <2>1, OneTold
    <2> HIDE DEF told
    <2>3. TellsWaitedFor(told, r, "resolved", request[r].by, "question resolved")
      BY <1>1, <2>1, <2>2 DEF TellsWaitedFor
    <2> QED
      BY <2>1, <2>3, AskStep
  <1> QED
    BY <1>2, <1>3, <1>4, <1>5, <1>6

\* The notices of a request go with it.
LEMMA DeleteStep ==
  ASSUME NewsInv, NEW c \in Calls, NEW r \in Requests, News!DeleteRequest(c, r)
  PROVE  NewsInv'
  <1> DEFINE new == [request[r] EXCEPT !.state = "deleted"]
             open == [question[r] EXCEPT !.status = "none"]
             N(k) == IF notices[k].id = r /\ notices[k].entity = "MATERIAL_REQUEST"
                     THEN [notices[k] EXCEPT !.gone = TRUE] ELSE notices[k]
  <1>1. /\ notices \in Seq(News!Notice) /\ clock \in Nat /\ since \in [Managers -> Nat]
        /\ request \in [Requests -> RequestColumns] /\ question \in [Requests -> QuestionColumns]
        /\ telling \in [Calls -> TellingTransactions \cup {None}]
        /\ request[r].state \in {"new", "assigned"} /\ UNCHANGED <<since, clock>>
        /\ telling' = [telling EXCEPT ![c] = None]
    BY DEF NewsInv, NewsTypes, News!DeleteRequest
  <1>2. /\ request' = [request EXCEPT ![r] = new] /\ question' = [question EXCEPT ![r] = open]
        /\ notices' = [k \in DOMAIN notices |-> N(k)]
    BY <1>1 DEF News!DeleteRequest, News!DeleteNotifications
  <1>3. /\ new \in RequestColumns /\ new.state = "deleted" /\ new.read = request[r].read
        /\ open \in QuestionColumns /\ open.status = "none"
    BY <1>1 DEF RequestColumns, QuestionColumns
  <1>4. ASSUME NEW k \in DOMAIN notices
        PROVE  /\ N(k) \in News!Notice /\ N(k).id = notices[k].id
               /\ N(k).to = notices[k].to /\ N(k).type = notices[k].type
               /\ N(k).entity = notices[k].entity
               /\ N(k).id # r => N(k) = notices[k]
               /\ N(k).id = r /\ N(k).entity = "MATERIAL_REQUEST" => N(k).gone
    <2>1. notices[k] \in News!Notice
      BY <1>1
    <2> QED
      BY <2>1 DEF News!Notice
  <1> HIDE DEF new, open, N
  <1>5. /\ DOMAIN notices' = DOMAIN notices /\ \A k \in DOMAIN notices : notices'[k] = N(k)
    BY <1>2
  <1>6. notices' \in Seq(News!Notice)
    <2>1. DOMAIN notices = 1..Len(notices) /\ Len(notices) \in Nat
      BY <1>1, LenProperties
    <2>2. \A k \in 1..Len(notices) : N(k) \in News!Notice
      BY <1>4, <2>1
    <2>3. notices' = [k \in 1..Len(notices) |-> N(k)]
      BY <1>2, <2>1
    <2> QED
      BY <2>1, <2>2, <2>3
  <1>7. /\ request' \in [Requests -> RequestColumns] /\ request'[r] = new
        /\ \A s \in Requests : s # r => request'[s] = request[s]
    BY <1>2, <1>3, ColumnsChanged
  <1>8. /\ question' \in [Requests -> QuestionColumns] /\ question'[r] = open
        /\ \A s \in Requests : s # r => question'[s] = question[s]
    BY <1>1, <1>2, <1>3
  <1>9. telling' \in [Calls -> TellingTransactions \cup {None}]
        /\ \A d \in Calls : telling'[d] \in {telling[d], None}
    BY <1>1
  <1>10. ManagersListed'
    BY <1>1, <1>9, ListedStays
  <1>11. ASSUME NEW s \in Requests, s # r
         PROVE  RequestTold(s)'
    <2>1. KeptFor(s)
      BY <1>4, <1>5, <1>11 DEF KeptFor, Same
    <2>2. clock' \in Nat /\ clock <= clock' /\ \A m \in Managers : since'[m] \in Nat /\ since'[m] = since[m]
      BY <1>1
    <2> QED
      BY <1>7, <1>8, <1>11, <2>1, <2>2, RequestUntouched DEF NewsInv
  <1>12. RequestTold(r)'
    <2>1. /\ \A k, l \in DOMAIN notices : TellsFirst(notices[k], r) /\ TellsFirst(notices[l], r) => k = l
          /\ request[r].read <= clock
      BY <1>1 DEF NewsInv, RequestTold
    <2>2. \A k \in DOMAIN notices : TellsFirst(notices'[k], r) => TellsFirst(notices[k], r)
      BY <1>4, <1>5 DEF TellsFirst
    <2>3. \A k, l \in DOMAIN notices' :
            TellsFirst(notices'[k], r) /\ TellsFirst(notices'[l], r) => k = l
      BY <1>5, <2>1, <2>2
    <2>4. \A k \in DOMAIN notices' :
            notices'[k].id = r /\ notices'[k].entity = "MATERIAL_REQUEST" => notices'[k].gone
      BY <1>4, <1>5
    <2>5. /\ request'[r].state = "deleted" /\ question'[r].status = "none"
          /\ request'[r].read <= clock'
      BY <1>1, <1>3, <1>7, <1>8, <2>1
    <2> QED
      BY <2>3, <2>4, <2>5 DEF RequestTold, IsTold, TellsFirst
  <1>13. NewsTypes'
    BY <1>1, <1>6, <1>7, <1>8, <1>9 DEF NewsTypes
  <1> QED
    BY <1>10, <1>11, <1>12, <1>13 DEF NewsInv

-----------------------------------------------------------------------------
LEMMA NewsInit ==
  ASSUME News!Init
  PROVE  NewsInv
  <1>1. /\ clock = 1 /\ notices = << >> /\ telling = [c \in Calls |-> None]
        /\ since \in [Managers -> Nat]
        /\ request = [r \in Requests |-> [state |-> "none", by |-> None, officer |-> None, read |-> 0]]
        /\ question = [r \in Requests |-> [status |-> "none", at |-> 0]]
    BY DEF News!Init
  <1>2. request \in [Requests -> RequestColumns] /\ question \in [Requests -> QuestionColumns]
    BY <1>1 DEF RequestColumns, QuestionColumns
  <1>3. NewsTypes
    <2>1. notices \in Seq(News!Notice) /\ clock \in Nat /\ telling \in [Calls -> TellingTransactions \cup {None}]
      BY <1>1
    <2> QED
      BY <1>1, <1>2, <2>1 DEF NewsTypes
  <1>4. ManagersListed
    BY <1>1 DEF ManagersListed
  <1>5. ASSUME NEW r \in Requests
        PROVE  RequestTold(r)
    <2>1. request[r].state = "none" /\ question[r].status = "none" /\ DOMAIN notices = {}
      BY <1>1
    <2> QED
      BY <2>1 DEF RequestTold
  <1> QED
    BY <1>3, <1>4, <1>5 DEF NewsInv

LEMMA NewsNext ==
  ASSUME NewsInv, [News!Next]_News!vars, IsFiniteSet(Managers), None \notin News!Users
  PROVE  NewsInv'
  <1>1. CASE UNCHANGED News!vars
    <2>1. UNCHANGED <<since, request, question, notices, telling, clock>>
      BY <1>1 DEF News!vars, News!tables, News!window
    <2>2. /\ notices \in Seq(News!Notice) /\ clock \in Nat /\ since \in [Managers -> Nat]
          /\ telling \in [Calls -> TellingTransactions \cup {None}]
      BY DEF NewsInv, NewsTypes
    <2>3. NewsTypes' /\ \A r \in Requests : RequestTold(r)'
      BY <2>1, <2>2, NothingNew, RequestsUntouched
    <2>4. ManagersListed'
      BY <2>1, <2>2, ListedStays
    <2> QED
      BY <2>3, <2>4 DEF NewsInv
  <1>2. ASSUME NEW c \in Calls, News!Begin(c)
        PROVE  NewsInv'
    BY <1>2, BeginStep
  <1>3. ASSUME NEW m \in Managers, News!Flip(m)
        PROVE  NewsInv'
    BY <1>3, FlipStep
  <1>4. ASSUME \/ \E c \in Calls : News!Rollback(c)
               \/ \E w \in Windows : \/ News!LoadPanel(w) \/ News!ClosePanel(w)
                                     \/ \E k \in 1..Limit : News!Select(w, k) \/ News!SelectFails(w, k)
        PROVE  NewsInv'
    BY <1>4, PanelStep
  <1>5. ASSUME NEW c \in Calls, News!Work(c)
        PROVE  NewsInv'
    <2>1. PICK r \in Requests :
            \/ \E by \in Engineers \cup {None} : News!CreateRequest(c, r, by)
            \/ \E officer \in Officers :
                 \/ News!Assign(c, r, officer, "assigned", "requester assigned")
                 \/ News!Assign(c, r, officer, "auto-assigned", "requester auto-assigned")
                 \/ News!Reassign(c, r, officer)
            \/ \E type \in News!QuotationTypes : News!AddQuotation(c, r, type)
            \/ News!RecordQuestion(c, r) \/ News!SubmitResponse(c, r) \/ News!Forward(c, r)
            \/ News!FollowUp(c, r) \/ News!Resolve(c, r)
            \/ News!DeleteRequest(c, r)
      BY <1>5 DEF News!Work
    <2> QED
      BY <2>1, CreateRequestStep, AssignedStep, AddQuotationStep, QuestionStep, DeleteStep
  <1> QED
    BY <1>1, <1>2, <1>3, <1>4, <1>5 DEF News!Next

LEMMA NewsAlways ==
  ASSUME News!NotificationsAssumption
  PROVE  News!Spec => []NewsInv
  <1>1. IsFiniteSet(Managers) /\ None \notin News!Users
    BY DEF News!NotificationsAssumption, News!IsFiniteSet, IsFiniteSet
  <1>2. News!Init => NewsInv
    BY NewsInit
  <1>3. NewsInv /\ [News!Next]_News!vars => NewsInv'
    BY <1>1, NewsNext
  <1> QED
    BY <1>2, <1>3, PTL DEF News!Spec

\* Whoever a clarification waits for has been told of its last step.
THEOREM TheWaitedForAreTold ==
  ASSUME News!NotificationsAssumption
  PROVE  News!Spec => []News!WaitedForIsTold
  <1>1. NewsInv => News!WaitedForIsTold
    BY DEF NewsInv, RequestTold, IsTold, News!WaitedForIsTold, News!Told
  <1> QED
    BY <1>1, NewsAlways, PTL

\* A manager who has been active since before a request was created knows of it
\* as long as it waits for its first officer.
THEOREM ActiveManagersAreTold ==
  ASSUME News!NotificationsAssumption
  PROVE  News!Spec => []News!ManagersAreTold
  <1>1. NewsInv => News!ManagersAreTold
    BY DEF NewsInv, RequestTold, IsTold, News!ManagersAreTold, News!Told
  <1> QED
    BY <1>1, NewsAlways, PTL

\* The first assignment of a request is told once, however many transactions of
\* users and of the automatic assignment overlap.
THEOREM FirstAssignmentIsToldOnce ==
  ASSUME News!NotificationsAssumption
  PROVE  News!Spec => []News!FirstAssignmentToldOnce
  <1>1. ASSUME NewsInv, NEW r \in Requests
        PROVE  News!Cardinality({k \in DOMAIN notices :
                 notices[k].id = r /\ notices[k].type \in {"assigned", "auto-assigned"}}) <= 1
    <2> DEFINE S == {k \in DOMAIN notices :
                 notices[k].id = r /\ notices[k].type \in {"assigned", "auto-assigned"}}
    <2>1. \A k, l \in S : k = l
      BY <1>1 DEF NewsInv, RequestTold, TellsFirst
    <2> HIDE DEF S
    <2>2. Cardinality(S) <= 1
      <3>1. CASE S = {}
        <4>1. Cardinality(S) = 0
          BY <3>1, FS_EmptySet
        <4> QED
          BY <4>1
      <3>2. CASE S # {}
        <4>1. PICK k : S = {k}
          BY <2>1, <3>2
        <4>2. Cardinality({k}) = 1
          BY FS_Singleton
        <4> QED
          BY <4>1, <4>2
      <3> QED
        BY <3>1, <3>2
    <2> QED
      BY <2>2, SameCardinality DEF S
  <1>2. NewsInv => News!FirstAssignmentToldOnce
    BY <1>1 DEF News!FirstAssignmentToldOnce
  <1> QED
    BY <1>2, NewsAlways, PTL

\* No notice of a deleted request is left for a panel, also none of an operation
\* that was under way when it was deleted.
THEOREM DeletedRequestsAreForgotten ==
  ASSUME News!NotificationsAssumption
  PROVE  News!Spec => []News!DeletedIsForgotten
  <1>1. ASSUME NewsInv, NEW user \in News!Users, NEW k \in News!Of(user),
               notices[k].entity = "MATERIAL_REQUEST"
        PROVE  request[notices[k].id].state # "deleted"
    <2>1. k \in DOMAIN notices /\ ~notices[k].gone /\ notices[k] \in News!Notice
      BY <1>1 DEF News!Of, NewsInv, NewsTypes
    <2>2. notices[k].id \in Requests
      BY <2>1 DEF News!Notice
    <2> QED
      BY <1>1, <2>1, <2>2 DEF NewsInv, RequestTold
  <1>2. NewsInv => News!DeletedIsForgotten
    BY <1>1 DEF News!DeletedIsForgotten
  <1> QED
    BY <1>2, NewsAlways, PTL

\* A notice once read stays read at its first time.
THEOREM ReadOnce ==
  ASSUME News!NotificationsAssumption
  PROVE  News!Spec => [][News!FirstReadKept]_News!vars
  <1>1. ASSUME NewsInv, [News!Next]_News!vars
        PROVE  [News!FirstReadKept]_News!vars
    <2>1. notices \in Seq(News!Notice)
      BY <1>1 DEF NewsInv, NewsTypes
    <2>2. CASE UNCHANGED News!vars
      BY <2>2
    <2>3. ASSUME UNCHANGED notices
          PROVE  News!FirstReadKept
      BY <2>3 DEF News!FirstReadKept
    <2>4. ASSUME NEW k, NEW user, News!MarkAsRead(k, user)
          PROVE  News!FirstReadKept
      <3>1. ASSUME NEW j \in DOMAIN notices, notices[j].read # 0
            PROVE  notices'[j].read = notices[j].read
        BY <2>1, <2>4, <3>1 DEF News!MarkAsRead
      <3> QED
        BY <3>1 DEF News!FirstReadKept
    <2>5. ASSUME NEW r, notices' = News!DeleteNotifications(notices, r)
          PROVE  News!FirstReadKept
      <3>1. ASSUME NEW j \in DOMAIN notices
            PROVE  notices'[j].read = notices[j].read
        <4>1. notices[j] \in News!Notice
          BY <2>1
        <4>2. [notices[j] EXCEPT !.gone = TRUE].read = notices[j].read
          BY <4>1 DEF News!Notice
        <4>3. notices'[j] \in {[notices[j] EXCEPT !.gone = TRUE], notices[j]}
          BY <2>5 DEF News!DeleteNotifications
        <4> QED
          BY <4>2, <4>3
      <3> QED
        BY <3>1 DEF News!FirstReadKept
    <2>6. ASSUME NEW told \in Seq(News!Notice), notices' = notices \o told
          PROVE  News!FirstReadKept
      <3>1. \A j \in DOMAIN notices : notices'[j] = notices[j]
        BY <2>1, <2>6, Appended
      <3> QED
        BY <3>1 DEF News!FirstReadKept
    <2>7. None \notin News!Users /\ IsFiniteSet(Managers)
      BY DEF News!NotificationsAssumption, News!IsFiniteSet, IsFiniteSet
    <2>8. ASSUME NEW c \in Calls, NEW r \in Requests, telling[c] # None,
                 \/ News!Commit(c, News!TellManagers(c, r))
                 \/ \E type \in News!Types :
                      \/ News!Commit(c, News!Create(c, request[r].by, type, r))
                      \/ News!Commit(c, News!Create(c, request[r].officer, type, r))
                 \/ News!Commit(c, << >>)
                 \/ \E officer \in Officers, type \in News!OfficerTypes, other \in News!RequesterTypes :
                      News!Commit(c, News!TellBoth(c, r, officer, type, other))
          PROVE  News!FirstReadKept
      <3>1. telling[c] \in TellingTransactions /\ request[r].by \in Engineers \cup {None}
        BY <1>1, <2>8 DEF NewsInv, NewsTypes, RequestColumns
      <3>2. CASE News!Commit(c, News!TellManagers(c, r))
        <4>1. News!TellManagers(c, r) \in Seq(News!Notice)
          BY <2>7, <3>1, ManagersTold
        <4> QED
          BY <2>6, <3>2, <4>1 DEF News!Commit
      <3>3. ASSUME NEW type \in News!Types,
                   \/ News!Commit(c, News!Create(c, request[r].by, type, r))
                   \/ News!Commit(c, News!Create(c, request[r].officer, type, r))
            PROVE  News!FirstReadKept
        <4>1. /\ News!Create(c, request[r].by, type, r) \in Seq(News!Notice)
              /\ News!Create(c, request[r].officer, type, r) \in Seq(News!Notice)
          BY <1>1, <2>7, <2>8, OneTold DEF Only
        <4> QED
          BY <2>6, <3>3, <4>1 DEF News!Commit
      <3>4. CASE News!Commit(c, << >>)
        <4>1. << >> \in Seq(News!Notice)
          OBVIOUS
        <4> QED
          BY <2>6, <3>4, <4>1 DEF News!Commit
      <3>5. ASSUME NEW officer \in Officers, NEW type \in News!OfficerTypes,
                   NEW other \in News!RequesterTypes,
                   News!Commit(c, News!TellBoth(c, r, officer, type, other))
            PROVE  News!FirstReadKept
        <4>1. News!TellBoth(c, r, officer, type, other) \in Seq(News!Notice)
          BY <2>7, <3>1, BothTold DEF BothSay
        <4> QED
          BY <2>6, <3>5, <4>1 DEF News!Commit
      <3> QED
        BY <2>8, <3>2, <3>3, <3>4, <3>5
    <2>9. ASSUME NEW c \in Calls, News!Work(c)
          PROVE  News!FirstReadKept
      <3> USE DEF News!Types, News!QuestionTypes, News!OfficerTypes, News!RequesterTypes
      <3>1. PICK r \in Requests :
              \/ \E by \in Engineers \cup {None} : News!CreateRequest(c, r, by)
              \/ \E officer \in Officers :
                   \/ News!Assign(c, r, officer, "assigned", "requester assigned")
                   \/ News!Assign(c, r, officer, "auto-assigned", "requester auto-assigned")
                   \/ News!Reassign(c, r, officer)
              \/ \E type \in News!QuotationTypes : News!AddQuotation(c, r, type)
              \/ News!RecordQuestion(c, r) \/ News!SubmitResponse(c, r) \/ News!Forward(c, r)
              \/ News!FollowUp(c, r) \/ News!Resolve(c, r)
              \/ News!DeleteRequest(c, r)
        BY <2>9 DEF News!Work
      <3>2. CASE \E by \in Engineers \cup {None} : News!CreateRequest(c, r, by)
        BY <2>8, <3>2 DEF News!CreateRequest
      <3>3. ASSUME NEW officer \in Officers,
                   \/ News!Assign(c, r, officer, "assigned", "requester assigned")
                   \/ News!Assign(c, r, officer, "auto-assigned", "requester auto-assigned")
                   \/ News!Reassign(c, r, officer)
            PROVE  News!FirstReadKept
        BY <2>8, <3>3 DEF News!Assign, News!Reassign
      <3>4. ASSUME NEW type \in News!QuotationTypes, News!AddQuotation(c, r, type)
            PROVE  News!FirstReadKept
        BY <2>8, <3>4 DEF News!AddQuotation
      <3>5. CASE \/ News!RecordQuestion(c, r) \/ News!SubmitResponse(c, r) \/ News!Forward(c, r)
                 \/ News!FollowUp(c, r) \/ News!Resolve(c, r)
        BY <2>8, <3>5 DEF News!RecordQuestion, News!SubmitResponse, News!Forward, News!FollowUp,
                          News!Resolve, News!Ask
      <3>6. CASE News!DeleteRequest(c, r)
        BY <2>5, <3>6 DEF News!DeleteRequest
      <3> QED
        BY <3>1, <3>2, <3>3, <3>4, <3>5, <3>6
    <2>10. CASE News!Next
      <3>1. ASSUME NEW w \in Windows, NEW k \in 1..Limit, News!Select(w, k)
            PROVE  News!FirstReadKept
        <4>1. UNCHANGED notices \/ \E j, user : News!MarkAsRead(j, user)
          BY <3>1 DEF News!Select
        <4> QED
          BY <2>3, <2>4, <4>1
      <3>2. ASSUME \/ \E c \in Calls : News!Begin(c) \/ News!Rollback(c)
                   \/ \E m \in Managers : News!Flip(m)
                   \/ \E w \in Windows : \/ News!LoadPanel(w) \/ News!ClosePanel(w)
                                         \/ \E k \in 1..Limit : News!SelectFails(w, k)
            PROVE  News!FirstReadKept
        <4>1. UNCHANGED notices
          BY <3>2 DEF News!Begin, News!Rollback, News!Flip, News!LoadPanel, News!ClosePanel,
                      News!SelectFails, News!tables
        <4> QED
          BY <2>3, <4>1
      <3> QED
        BY <2>9, <2>10, <3>1, <3>2 DEF News!Next
    <2> QED
      BY <1>1, <2>2, <2>10
  <1> QED
    BY <1>1, NewsAlways, PTL DEF News!Spec
=============================================================================
