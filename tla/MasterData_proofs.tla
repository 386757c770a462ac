-------------------------- MODULE MasterData_proofs --------------------------
(***************************************************************************)
(* Master data of any size: rows keep their types and their owners, active *)
(* names stay distinct and codes without a gap however transactions        *)
(* overlap, and as long as they do not, no list is too stale for the checks*)
(* of a service.  A screen of theirs shows what its commands act on.       *)
(***************************************************************************)
EXTENDS MasterData, FiniteSetTheorems, SequenceTheorems, WellFoundedInduction, TLAPS

Calls == Dialogs \cup Confirmations \cup Forms
Writing == {"create", "update", "deactivate", "restore"}

\* What a dialog picked: a new record, or a row, and an owner of the level
\* above; and a code that is still the next one.
PickSound(k) ==
  k # None =>
    /\ k.op \in {"update", "deactivate", "restore"} => k.record \in Rows
    /\ k.op = "create" => k.record \notin Rows
    /\ k.op \in {"create", "update"} =>
         k.owner \in IF Owners(k.record) = {} THEN {None}
                     ELSE Owners(k.record) \cap Rows
    /\ k.op = "request" => {k.project, k.site} \subseteq Rows

HasNextCode(k) ==
  k # None /\ k.step = "coded" => k.code = HighestCode(k.record) + 1

\* Two callers do not create one record, and do not both have the advisory lock
\* of a table.
Creates(k) == k # None /\ k.op = "create"
HasLock(k) == k # None /\ k.step \in {"locked", "coded"}
Apart(k, l) ==
  /\ Creates(k) /\ Creates(l) => k.record # l.record
  /\ HasLock(k) /\ HasLock(l) => Level(k.record) # Level(l.record)

CallsSound ==
  /\ \A c \in Callers : PickSound(call[c]) /\ HasNextCode(call[c])
  /\ \A c, d \in Callers : c # d => Apart(call[c], call[d])

\* The codes of a table have no gap: the first part of CodesSequential.
GapFree == \A r \in Rows : \A n \in 1..row[r].code :
  \E s \in SameLevel(r) : row[s].code = n

MasterInv == TypeOK /\ CallsSound /\ ActiveNamesDistinct /\ GapFree

-----------------------------------------------------------------------------
(* Levels.                                                                 *)

\* Two records are of one level when each is in the other's.
LEMMA Levels ==
  ASSUME NEW r \in Records, NEW s \in Records
  PROVE  /\ r \in Level(r) /\ Level(r) \subseteq Records
         /\ s \in Level(r) <=> Level(s) = Level(r)
         /\ s \in Level(r) => Owners(s) = Owners(r)
         /\ Owners(r) \subseteq Records
  <1> USE MasterDataAssumption DEF Level, Owners, Records
  <1>1. CASE r \in Clients
    BY <1>1
  <1>2. CASE r \in Projects
    BY <1>2
  <1>3. CASE r \in Sites
    BY <1>3
  <1> QED
    BY <1>1, <1>2, <1>3

-----------------------------------------------------------------------------
(* The highest code.                                                       *)

\* A nonempty set of numbers that is bounded has a maximum.
LEMMA BoundedMax ==
  ASSUME NEW S \in SUBSET Nat, NEW n \in S, NEW b \in Nat, \A x \in S : x <= b
  PROVE  Max(S) \in S /\ \A x \in S : x <= Max(S)
  <1> DEFINE B == {y \in Nat : \A x \in S : x <= y}
  <1>1. PICK m \in B : \A y \in B : <<y, m>> \notin OpToRel(<, Nat)
    <2>1. b \in B /\ B \subseteq Nat
      OBVIOUS
    <2> HIDE DEF B
    <2> QED
      BY <2>1, WFMin, NatLessThanWellFounded, Zenon
  <1>2. m \in Nat /\ \A x \in S : x \in Nat /\ x <= m
    BY <1>1
  <1>3. m \in S
    <2> SUFFICES ASSUME m \notin S PROVE FALSE
      OBVIOUS
    <2>1. \A x \in S : x <= m - 1
      BY <1>2
    <2>2. m - 1 \in Nat
      BY <1>2, <2>1
    <2>3. m - 1 \in B
      BY <2>1, <2>2
    <2>4. <<m - 1, m>> \in OpToRel(<, Nat)
      BY <1>2, <2>2 DEF OpToRel
    <2> QED
      BY <1>1, <2>3, <2>4
  <1>4. \E x \in S : \A y \in S : x >= y
    BY <1>2, <1>3
  <1> QED
    BY <1>4 DEF Max

\* The codes of a table are finitely many, and those without a gap are at most
\* as many as its rows: there is a highest one, and it is 0 only without rows.
LEMMA HighestIsReached ==
  ASSUME TypeOK, GapFree, NEW r \in Records
  PROVE  /\ HighestCode(r) \in Nat
         /\ \A s \in SameLevel(r) : row[s].code <= HighestCode(r)
         /\ HighestCode(r) = 0 \/ \E s \in SameLevel(r) : row[s].code = HighestCode(r)
  <1> DEFINE L == SameLevel(r)
             C == {row[s].code : s \in L}
  <1>1. L \subseteq Rows /\ L \subseteq Records /\ IsFiniteSet(L)
    <2>1. L \subseteq Records
      BY DEF SameLevel, Rows
    <2> QED
      BY <2>1, FS_Subset, MasterDataAssumption DEF SameLevel
  <1>2. \A s \in L : row[s].code \in Nat /\ row[s].code > 0
    BY <1>1 DEF Rows, TypeOK, RowRecords
  <1>3. IsFiniteSet(C)
    <2> DEFINE f == [s \in L |-> row[s].code]
    <2>1. f \in Surjection(L, C)
      BY DEF Surjection
    <2> QED
      BY <1>1, <2>1, FS_Surjection
  <1>4. Cardinality(C) \in Nat
    BY <1>3, FS_CardinalityType
  <1>5. \A n \in C : n <= Cardinality(C)
    <2> TAKE n \in C
    <2>1. PICK s \in L : n = row[s].code
      OBVIOUS
    <2>2. n \in Nat /\ n > 0
      BY <1>2, <2>1
    <2>3. 1..n \subseteq C
      <3> SUFFICES ASSUME NEW m \in 1..n PROVE m \in C
        OBVIOUS
      <3>1. PICK t \in SameLevel(s) : row[t].code = m
        BY <1>1, <2>1 DEF GapFree
      <3>2. s \in Level(r) /\ s \in Records
        BY <1>1 DEF SameLevel
      <3>3. Level(s) = Level(r)
        BY <3>2, Levels
      <3> QED
        BY <3>1, <3>3 DEF SameLevel
    <2> HIDE DEF C
    <2>4. Cardinality(1..n) <= Cardinality(C)
      BY <1>3, <2>3, FS_Subset
    <2>5. Cardinality(1..n) = n
      BY <2>2, FS_Interval
    <2> QED
      BY <2>4, <2>5
  <1>6. \A n \in C \cup {0} : n <= Cardinality(C)
    BY <1>4, <1>5
  <1>7. C \cup {0} \in SUBSET Nat /\ 0 \in C \cup {0}
    BY <1>2
  <1>8. Max(C \cup {0}) \in C \cup {0} /\ \A n \in C \cup {0} : n <= Max(C \cup {0})
    <2> HIDE DEF C
    <2> QED
      BY <1>4, <1>6, <1>7, BoundedMax
  <1>9. HighestCode(r) = Max(C \cup {0})
    BY DEF HighestCode
  <1> HIDE DEF L
  <1> QED
    BY <1>7, <1>8, <1>9 DEF L

\* What RecordsDistinct asks is part of the invariant.
LEMMA InvDistinct == MasterInv => RecordsDistinct
  BY DEF MasterInv, RecordsDistinct, CodesSequential, CallsSound, HasNextCode,
         GapFree, SameLevel, Rows

-----------------------------------------------------------------------------
(* Steps that leave the tables as they are.                                *)

\* The rows say which records of a level exist and which code is the highest.
LEMMA RowsKept ==
  ASSUME row' = row
  PROVE  /\ Rows' = Rows /\ ActiveRows' = ActiveRows
         /\ \A r \in Records : SameLevel(r)' = SameLevel(r)
         /\ \A r \in Records : HighestCode(r)' = HighestCode(r)
  BY DEF Rows, ActiveRows, SameLevel, HighestCode

\* A step that changes one call, to one that is sound and apart from the others,
\* keeps the invariant.
LEMMA CallChanges ==
  ASSUME MasterInv, NEW c \in Callers, NEW k \in Calls \cup {None},
         row' = row, call' = [call EXCEPT ![c] = k], calls' \in 0..MaxCalls,
         request' \in [Requests -> [project : Projects \cap Rows, site : Sites \cap Rows]
                                   \cup {None}],
         HasLock(k) => Creates(k),
         PickSound(k), HasNextCode(k),
         \A d \in Callers \ {c} : Apart(k, call[d])
  PROVE  MasterInv'
  <1>1. \A d \in Callers : call'[d] = IF d = c THEN k ELSE call[d]
    BY DEF MasterInv, TypeOK
  <1>2. k # None => k.record \in Records \/ k.op = "request"
    BY MasterDataAssumption DEF Calls, Dialogs, Confirmations, Forms
  <1>3. TypeOK'
    <2>1. call' \in [Callers -> Dialogs \cup Confirmations \cup Forms \cup {None}]
      BY DEF MasterInv, TypeOK, Calls
    <2>2. \A d \in Callers : call'[d] # None /\ call'[d].step \in {"locked", "coded"}
            => call'[d].op = "create"
      BY <1>1 DEF MasterInv, TypeOK, HasLock, Creates
    <2> QED
      BY <2>1, <2>2, RowsKept DEF MasterInv, TypeOK
  <1>4. CallsSound'
    <2>1. \A d \in Callers : PickSound(call[d])'
      BY <1>1, RowsKept DEF MasterInv, CallsSound, PickSound
    <2>2. \A d \in Callers : HasNextCode(call[d])'
      <3> SUFFICES ASSUME NEW d \in Callers PROVE HasNextCode(call[d])'
        OBVIOUS
      <3>1. HasNextCode(call'[d])
        BY <1>1 DEF MasterInv, CallsSound
      <3>2. call'[d] # None /\ call'[d].step = "coded" => call'[d].record \in Records
        BY <1>3 DEF TypeOK, Dialogs, Confirmations, Forms
      <3> QED
        BY <3>1, <3>2, RowsKept DEF HasNextCode
    <2>3. \A d, e \in Callers : d # e => Apart(call'[d], call'[e])
      <3>1. \A d \in Callers \ {c} : Apart(call[d], k)
        BY DEF Apart
      <3> QED
        BY <1>1, <3>1 DEF MasterInv, CallsSound
    <2> QED
      BY <2>1, <2>2, <2>3 DEF CallsSound, PickSound, HasNextCode, Apart, Creates, HasLock
  <1>5. ActiveNamesDistinct' /\ GapFree'
    BY RowsKept DEF MasterInv, ActiveNamesDistinct, NameTaken, GapFree, Rows,
                    ActiveRows, SameLevel
  <1> QED
    BY <1>3, <1>4, <1>5 DEF MasterInv

-----------------------------------------------------------------------------
(* The initial state.                                                      *)

LEMMA InitSound == Init => MasterInv
  <1> SUFFICES ASSUME Init PROVE MasterInv
    OBVIOUS
  <1>1. PICK code \in [Existing -> 1..Cardinality(Existing)],
             owner \in [Existing -> Existing \cup {None}],
             name \in [Existing -> Names], active \in [Existing -> BOOLEAN] :
          /\ Numbered(code)
          /\ \A r \in Existing : IF Owners(r) = {} THEN owner[r] = None
                                 ELSE owner[r] \in Owners(r)
          /\ row = [r \in Records |-> IF r \notin Existing THEN None
                      ELSE [code |-> code[r], name |-> name[r],
                            owner |-> owner[r], active |-> active[r]]]
    BY DEF Init
  <1>2. IsFiniteSet(Existing) /\ Cardinality(Existing) \in Nat
    BY FS_Subset, FS_CardinalityType, MasterDataAssumption
  <1>3. \A r \in Existing : /\ row[r] \in RowRecords
                            /\ row[r].code = code[r] /\ row[r].owner = owner[r]
    BY <1>1, <1>2, MasterDataAssumption DEF RowRecords
  <1>4. Rows = Existing
    BY <1>1, <1>3, MasterDataAssumption DEF Rows
  <1>5. call = [c \in Callers |-> None] /\ request = [q \in Requests |-> None] /\ calls = 0
    BY DEF Init
  <1>6. TypeOK
    <2>1. row \in [Records -> RowRecords \cup {None}]
      BY <1>1, <1>3
    <2>2. \A r \in Rows : row[r].owner \in IF Owners(r) = {} THEN {None}
                                           ELSE Owners(r) \cap Rows
      <3> SUFFICES ASSUME NEW r \in Existing
                   PROVE  row[r].owner \in IF Owners(r) = {} THEN {None}
                                           ELSE Owners(r) \cap Existing
        BY <1>4
      <3>1. row[r].owner = owner[r] /\ owner[r] \in Existing \cup {None}
        BY <1>1, <1>3
      <3>2. None \notin Owners(r)
        BY MasterDataAssumption, Levels
      <3> QED
        BY <1>1, <3>1, <3>2
    <2> QED
      BY <1>5, <2>1, <2>2, MasterDataAssumption DEF TypeOK
  <1>7. GapFree
    <2> SUFFICES ASSUME NEW r \in Rows, NEW n \in 1..row[r].code
                 PROVE  \E s \in SameLevel(r) : row[s].code = n
      BY DEF GapFree
    <2> DEFINE m == Cardinality(Existing \cap Level(r))
    <2>1. m \in Nat
      BY <1>2, FS_Subset, FS_CardinalityType
    <2>2. {code[s] : s \in Existing \cap Level(r)} = 1..m
      BY <1>1, <1>4 DEF Numbered
    <2>3. r \in Existing \cap Level(r)
      BY <1>4, Levels, MasterDataAssumption
    <2> HIDE DEF m
    <2>4. code[r] \in 1..m
      BY <2>2, <2>3
    <2>5. n \in 1..m
      BY <1>3, <2>1, <2>3, <2>4
    <2>6. PICK s \in Existing \cap Level(r) : code[s] = n
      BY <2>2, <2>5
    <2> QED
      BY <1>3, <1>4, <2>6 DEF SameLevel
  <1> QED
    BY <1>5, <1>6, <1>7 DEF MasterInv, CallsSound, PickSound, HasNextCode, Apart,
       Creates, HasLock, ActiveNamesDistinct, Init

-----------------------------------------------------------------------------
(* The user's steps.                                                       *)

LEMMA PickCreateSound ==
  ASSUME MasterInv, NEW c \in Callers, PickCreate(c)
  PROVE  MasterInv'
  <1>0. PICK r \in Records \ Rows, name \in Names : \E owner \in Offered(r) :
          /\ \A d \in Callers : call[d] # None => call[d].record # r
          /\ Pick(c, [op |-> "create", record |-> r, name |-> name,
                      owner |-> owner, code |-> 0, step |-> "picked"])
    BY DEF PickCreate
  <1>1. PICK owner \in Offered(r) :
          /\ \A d \in Callers : call[d] # None => call[d].record # r
          /\ Pick(c, [op |-> "create", record |-> r, name |-> name,
                      owner |-> owner, code |-> 0, step |-> "picked"])
    BY <1>0
  <1> DEFINE k == [op |-> "create", record |-> r, name |-> name,
                   owner |-> owner, code |-> 0, step |-> "picked"]
  <1>2. owner \in IF Owners(r) = {} THEN {None} ELSE Owners(r) \cap Rows
    BY DEF Offered, ActiveRows
  <1>3. owner \in Records \cup {None}
    BY <1>2, Levels
  <1>4. k \in Calls
    BY <1>3 DEF Calls, Dialogs, Steps
  <1>5. PickSound(k) /\ HasNextCode(k) /\ ~HasLock(k)
    BY <1>2 DEF PickSound, HasNextCode, HasLock
  <1>6. \A d \in Callers \ {c} : Apart(k, call[d])
    BY <1>1 DEF Apart, Creates, HasLock
  <1>7. row' = row /\ request' = request /\ calls' \in 0..MaxCalls
        /\ call' = [call EXCEPT ![c] = k]
    BY <1>1, MasterDataAssumption DEF Pick, MayPick, MasterInv, TypeOK
  <1> HIDE DEF k
  <1> QED
    BY <1>4, <1>5, <1>6, <1>7, CallChanges DEF MasterInv, TypeOK

LEMMA PickUpdateSound ==
  ASSUME MasterInv, NEW c \in Callers, PickUpdate(c)
  PROVE  MasterInv'
  <1>0. PICK r \in ActiveRows, name \in Names : \E owner \in Offered(r) :
          Pick(c, [op |-> "update", record |-> r, name |-> name, owner |-> owner,
                   code |-> row[r].code, step |-> "picked"])
    BY DEF PickUpdate
  <1>1. PICK owner \in Offered(r) :
          Pick(c, [op |-> "update", record |-> r, name |-> name, owner |-> owner,
                   code |-> row[r].code, step |-> "picked"])
    BY <1>0
  <1> DEFINE k == [op |-> "update", record |-> r, name |-> name, owner |-> owner,
                   code |-> row[r].code, step |-> "picked"]
  <1>2. r \in Rows /\ r \in Records /\ row[r] \in RowRecords
    BY DEF ActiveRows, Rows, MasterInv, TypeOK
  <1>3. owner \in IF Owners(r) = {} THEN {None} ELSE Owners(r) \cap Rows
    BY <1>2 DEF Offered, ActiveRows, MasterInv, TypeOK
  <1>4. owner \in Records \cup {None}
    BY <1>2, <1>3, Levels
  <1>5. k \in Calls
    BY <1>2, <1>4 DEF Calls, Dialogs, Steps, RowRecords
  <1>6. PickSound(k) /\ HasNextCode(k) /\ ~HasLock(k)
    BY <1>2, <1>3 DEF PickSound, HasNextCode, HasLock
  <1>7. \A d \in Callers \ {c} : Apart(k, call[d])
    BY DEF Apart, Creates, HasLock
  <1>8. row' = row /\ request' = request /\ calls' \in 0..MaxCalls
        /\ call' = [call EXCEPT ![c] = k]
    BY <1>1, MasterDataAssumption DEF Pick, MayPick, MasterInv, TypeOK
  <1> HIDE DEF k
  <1> QED
    BY <1>5, <1>6, <1>7, <1>8, CallChanges DEF MasterInv, TypeOK

LEMMA PickStatusSound ==
  ASSUME MasterInv, NEW c \in Callers, PickStatus(c)
  PROVE  MasterInv'
  <1>1. PICK r \in Rows :
          Pick(c, [op |-> IF row[r].active THEN "deactivate" ELSE "restore",
                   record |-> r, code |-> row[r].code, step |-> "picked"])
    BY DEF PickStatus
  <1> DEFINE k == [op |-> IF row[r].active THEN "deactivate" ELSE "restore",
                   record |-> r, code |-> row[r].code, step |-> "picked"]
  <1>2. r \in Records /\ row[r] \in RowRecords
    BY DEF Rows, MasterInv, TypeOK
  <1>3. k \in Calls
    BY <1>2 DEF Calls, Confirmations, RowRecords
  <1>4. PickSound(k) /\ HasNextCode(k) /\ ~HasLock(k)
    BY DEF PickSound, HasNextCode, HasLock
  <1>5. \A d \in Callers \ {c} : Apart(k, call[d])
    BY DEF Apart, Creates, HasLock
  <1>6. row' = row /\ request' = request /\ calls' \in 0..MaxCalls
        /\ call' = [call EXCEPT ![c] = k]
    BY <1>1, MasterDataAssumption DEF Pick, MayPick, MasterInv, TypeOK
  <1> HIDE DEF k
  <1> QED
    BY <1>3, <1>4, <1>5, <1>6, CallChanges DEF MasterInv, TypeOK

LEMMA PickRequestSound ==
  ASSUME MasterInv, NEW c \in Callers, PickRequest(c)
  PROVE  MasterInv'
  <1>1. PICK q \in Requests, s \in Sites \cap ActiveRows :
          /\ row[s].owner \in ActiveRows
          /\ Pick(c, [op |-> "request", record |-> q, site |-> s,
                      project |-> row[s].owner, step |-> "picked"])
    BY DEF PickRequest
  <1> DEFINE k == [op |-> "request", record |-> q, site |-> s,
                   project |-> row[s].owner, step |-> "picked"]
  <1>2. s \in Rows /\ row[s].owner \in Rows /\ s \in Records
    BY <1>1 DEF ActiveRows, Records
  <1>3. Owners(s) = Projects
    BY MasterDataAssumption DEF Owners
  <1>4. row[s].owner \in Projects
    BY <1>2, <1>3, MasterDataAssumption DEF MasterInv, TypeOK, Rows
  <1>5. k \in Calls
    BY <1>4 DEF Calls, Forms
  <1>6. PickSound(k) /\ HasNextCode(k) /\ ~HasLock(k)
    BY <1>2 DEF PickSound, HasNextCode, HasLock
  <1>7. \A d \in Callers \ {c} : Apart(k, call[d])
    BY DEF Apart, Creates, HasLock
  <1>8. row' = row /\ request' = request /\ calls' \in 0..MaxCalls
        /\ call' = [call EXCEPT ![c] = k]
    BY <1>1, MasterDataAssumption DEF Pick, MayPick, MasterInv, TypeOK
  <1> HIDE DEF k
  <1> QED
    BY <1>5, <1>6, <1>7, <1>8, CallChanges DEF MasterInv, TypeOK

-----------------------------------------------------------------------------
(* The steps of a transaction before its write, and its end without one.   *)

\* A call without work left is sound.
LEMMA NoneIsSound ==
  PickSound(None) /\ HasNextCode(None) /\ ~HasLock(None) /\ \A k : Apart(None, k)
  BY DEF PickSound, HasNextCode, HasLock, Apart, Creates

LEMMA CheckSound ==
  ASSUME MasterInv, NEW c \in Callers, Check(c)
  PROVE  MasterInv'
  <1> DEFINE k == [call[c] EXCEPT !.step = "checked"]
             new == IF Accepted(call[c]) THEN k ELSE None
  <1>1. call[c] \in Calls /\ call[c] # None /\ call[c].step = "picked"
    BY DEF Check, MayStart, MasterInv, TypeOK, Calls
  <1>2. k \in Calls /\ k # None /\ k.step = "checked" /\ k.op = call[c].op
        /\ k.record = call[c].record
    BY <1>1, MasterDataAssumption DEF Calls, Dialogs, Confirmations, Forms, Steps
  <1>3. /\ k.op \in {"create", "update"} => k.owner = call[c].owner
        /\ k.op = "request" => k.project = call[c].project /\ k.site = call[c].site
    BY <1>1 DEF Calls, Dialogs, Confirmations, Forms
  <1>4. PickSound(call[c]) /\ \A d \in Callers \ {c} : Apart(call[c], call[d])
    BY DEF MasterInv, CallsSound
  <1>5. PickSound(k) /\ HasNextCode(k) /\ ~HasLock(k)
    <2> HIDE DEF k
    <2> QED
      BY <1>1, <1>2, <1>3, <1>4 DEF PickSound, HasNextCode, HasLock
  <1>6. \A d \in Callers \ {c} : Apart(k, call[d])
    <2> HIDE DEF k
    <2> QED
      BY <1>1, <1>2, <1>4, <1>5 DEF Apart, Creates
  <1>7. row' = row /\ request' = request /\ calls' = calls
        /\ call' = [call EXCEPT ![c] = new]
    BY DEF Check
  <1> HIDE DEF k
  <1>8. new \in Calls \cup {None} /\ PickSound(new) /\ HasNextCode(new) /\ ~HasLock(new)
        /\ \A d \in Callers \ {c} : Apart(new, call[d])
    BY <1>2, <1>5, <1>6, NoneIsSound
  <1> HIDE DEF new
  <1> QED
    BY <1>7, <1>8, CallChanges DEF MasterInv, TypeOK

LEMMA LockSound ==
  ASSUME MasterInv, NEW c \in Callers, Lock(c)
  PROVE  MasterInv'
  <1> DEFINE k == [call[c] EXCEPT !.step = "locked"]
  <1>1. call[c] \in Dialogs /\ call[c] # None /\ call[c].op = "create"
        /\ call[c].step = "checked"
    BY DEF Lock, MasterInv, TypeOK, Calls, Confirmations, Forms
  <1>2. k \in Dialogs /\ k # None /\ k.step = "locked" /\ k.op = "create"
        /\ k.record = call[c].record /\ k.owner = call[c].owner
    BY <1>1, MasterDataAssumption DEF Dialogs, Steps
  <1>3. PickSound(call[c]) /\ \A d \in Callers \ {c} : Apart(call[c], call[d])
    BY DEF MasterInv, CallsSound
  <1>4. \A d \in Callers : HasLock(call[d]) => Level(call[d].record) # Level(call[c].record)
    BY DEF Lock, LockFree, HasLock
  <1>5. row' = row /\ request' = request /\ calls' = calls
        /\ call' = [call EXCEPT ![c] = k]
    BY DEF Lock
  <1> HIDE DEF k
  <1>6. PickSound(k) /\ HasNextCode(k) /\ Creates(k)
    BY <1>1, <1>2, <1>3 DEF PickSound, HasNextCode, Creates
  <1>7. \A d \in Callers \ {c} : Apart(k, call[d])
    BY <1>1, <1>2, <1>3, <1>4 DEF Apart, Creates
  <1> QED
    BY <1>2, <1>5, <1>6, <1>7, CallChanges DEF MasterInv, TypeOK, Calls

LEMMA GenerateCodeSound ==
  ASSUME MasterInv, NEW c \in Callers, GenerateCode(c)
  PROVE  MasterInv'
  <1> DEFINE n == HighestCode(call[c].record) + 1
             k == [call[c] EXCEPT !.step = "coded", !.code = n]
  <1>1. call[c] \in Dialogs /\ call[c] # None /\ call[c].op = "create"
        /\ call[c].step = "locked"
    BY DEF GenerateCode, MasterInv, TypeOK, Calls, Confirmations, Forms
  <1>2. n \in Nat
    BY <1>1, HighestIsReached DEF MasterInv, Dialogs
  <1>3. k \in Dialogs /\ k # None /\ k.step = "coded" /\ k.op = "create" /\ k.code = n
        /\ k.record = call[c].record /\ k.owner = call[c].owner
    BY <1>1, <1>2, MasterDataAssumption DEF Dialogs, Steps
  <1>4. PickSound(call[c]) /\ \A d \in Callers \ {c} : Apart(call[c], call[d])
    BY DEF MasterInv, CallsSound
  <1>5. call' = [call EXCEPT ![c] = k]
    BY DEF GenerateCode, MasterInv, TypeOK
  <1>6. row' = row /\ request' = request /\ calls' = calls
    BY DEF GenerateCode
  <1> HIDE DEF k
  <1>7. PickSound(k) /\ HasNextCode(k) /\ Creates(k)
    BY <1>1, <1>3, <1>4 DEF PickSound, HasNextCode, Creates
  <1>8. \A d \in Callers \ {c} : Apart(k, call[d])
    BY <1>1, <1>3, <1>4 DEF Apart, Creates, HasLock
  <1> HIDE DEF n
  <1> QED
    BY <1>3, <1>5, <1>6, <1>7, <1>8, CallChanges DEF MasterInv, TypeOK, Calls

LEMMA InsertRequestSound ==
  ASSUME MasterInv, NEW c \in Callers, InsertRequest(c)
  PROVE  MasterInv'
  <1>1. call[c] \in Forms /\ call[c] # None /\ call[c].op = "request"
    BY DEF InsertRequest, InTransaction, MasterInv, TypeOK, Dialogs, Confirmations
  <1>2. PickSound(call[c])
    BY DEF MasterInv, CallsSound
  <1>3. [project |-> call[c].project, site |-> call[c].site] \in
          [project : Projects \cap Rows, site : Sites \cap Rows]
    BY <1>1, <1>2 DEF PickSound, Forms
  <1>4. request' \in [Requests -> [project : Projects \cap Rows, site : Sites \cap Rows]
                                  \cup {None}]
    BY <1>3 DEF InsertRequest, MasterInv, TypeOK
  <1>5. row' = row /\ calls' \in 0..MaxCalls /\ call' = [call EXCEPT ![c] = None]
    BY DEF InsertRequest, MasterInv, TypeOK
  <1> QED
    BY <1>4, <1>5, NoneIsSound, CallChanges

LEMMA AbortSound ==
  ASSUME MasterInv, NEW c \in Callers, Abort(c)
  PROVE  MasterInv'
  <1>1. row' = row /\ calls' \in 0..MaxCalls /\ call' = [call EXCEPT ![c] = None]
        /\ request' = request
    BY DEF Abort, MasterInv, TypeOK
  <1> QED
    BY <1>1, NoneIsSound, CallChanges DEF MasterInv, TypeOK

-----------------------------------------------------------------------------
(* The write.                                                              *)

\* What the statement of a call stores: a row with the owner that was picked or
\* the one that it has, and with the code that it has or the next one.
LEMMA NewRowSound ==
  ASSUME MasterInv, NEW k \in Calls, k.op \in Writing, PickSound(k), HasNextCode(k),
         k.op = "create" => k.step = "coded"
  PROVE  LET r == k.record
             new == NewRow(k)
         IN  /\ r \in Records /\ new \in RowRecords
             /\ new.owner \in IF Owners(r) = {} THEN {None} ELSE Owners(r) \cap Rows
             /\ r \in Rows => k.op # "create" /\ new.code = row[r].code
             /\ r \notin Rows => k.op = "create" /\ k.step = "coded"
                                 /\ new.code = HighestCode(r) + 1
  <1> DEFINE r == k.record
             new == NewRow(k)
  <1>1. r \in Records
    BY DEF Calls, Dialogs, Confirmations, Forms, Writing
  <1>2. r \in Rows => row[r] \in RowRecords /\
          row[r].owner \in IF Owners(r) = {} THEN {None} ELSE Owners(r) \cap Rows
    BY DEF MasterInv, TypeOK, Rows
  <1>3. CASE k.op = "create"
    <2>1. k \in Dialogs /\ k # None
      BY <1>3, MasterDataAssumption DEF Calls, Confirmations, Forms
    <2>2. new = [code |-> k.code, name |-> k.name, owner |-> k.owner, active |-> TRUE]
      BY <1>3 DEF NewRow
    <2>3. k.code = HighestCode(r) + 1 /\ HighestCode(r) \in Nat
      BY <1>1, <1>3, <2>1, HighestIsReached DEF HasNextCode, MasterInv
    <2>4. new \in RowRecords
      BY <2>1, <2>2, <2>3 DEF RowRecords, Dialogs
    <2> QED
      BY <1>1, <1>3, <2>1, <2>2, <2>3, <2>4 DEF PickSound
  <1>4. CASE k.op = "update"
    <2>1. k \in Dialogs /\ k # None
      BY <1>4, MasterDataAssumption DEF Calls, Confirmations, Forms
    <2>2. r \in Rows
      BY <1>4, <2>1 DEF PickSound
    <2>3. new = [row[r] EXCEPT !.name = k.name, !.owner = k.owner]
      BY <1>4 DEF NewRow
    <2>4. new \in RowRecords /\ new.owner = k.owner /\ new.code = row[r].code
      BY <1>2, <2>1, <2>2, <2>3 DEF RowRecords, Dialogs
    <2> QED
      BY <1>1, <1>4, <2>1, <2>2, <2>4 DEF PickSound
  <1>5. CASE k.op \in {"deactivate", "restore"}
    <2>1. k # None
      BY MasterDataAssumption DEF Calls
    <2>2. r \in Rows
      BY <1>5, <2>1 DEF PickSound
    <2>3. \E b \in BOOLEAN : new = [row[r] EXCEPT !.active = b]
      BY <1>5 DEF NewRow
    <2>4. new \in RowRecords /\ new.owner = row[r].owner /\ new.code = row[r].code
      BY <1>2, <2>2, <2>3 DEF RowRecords
    <2> QED
      BY <1>1, <1>2, <1>5, <2>2, <2>4
  <1> QED
    BY <1>3, <1>4, <1>5 DEF Writing

\* A row that no unique index refuses keeps the tables sound.
LEMMA TablesKept ==
  ASSUME TypeOK, ActiveNamesDistinct, GapFree,
         NEW r \in Records, NEW new \in RowRecords, ~Violates(r, new),
         row' = [row EXCEPT ![r] = new],
         r \in Rows => new.code = row[r].code,
         r \notin Rows => new.code = HighestCode(r) + 1
  PROVE  /\ Rows' = Rows \cup {r}
         /\ \A s \in Records : SameLevel(s)' = IF r \in Level(s) THEN SameLevel(s) \cup {r}
                                               ELSE SameLevel(s)
         /\ ActiveNamesDistinct' /\ GapFree'
  <1>1. /\ row'[r] = new /\ new # None
        /\ \A s \in Records : s # r => row'[s] = row[s]
    BY MasterDataAssumption DEF TypeOK
  <1>2. Rows' = Rows \cup {r}
    BY <1>1 DEF Rows
  <1>3. \A s \in Records : SameLevel(s)' = IF r \in Level(s) THEN SameLevel(s) \cup {r}
                                           ELSE SameLevel(s)
    BY <1>2 DEF SameLevel
  <1>4. ActiveNamesDistinct'
    <2> SUFFICES ASSUME NEW s \in Rows', NEW t \in Rows', s # t, t \in Level(s),
                        row'[s].active, row'[t].active,
                        row'[s].name = row'[t].name, row'[s].owner = row'[t].owner
                 PROVE  FALSE
      BY DEF ActiveNamesDistinct, NameTaken, ActiveRows, SameLevel
    <2>1. s \in Records /\ t \in Records /\ s \in Level(t)
      <3>1. s \in Records /\ t \in Records
        BY <1>2 DEF Rows
      <3> QED
        BY <3>1, Levels
    <2>2. CASE s # r /\ t # r
      <3>1. s \in ActiveRows /\ t \in SameLevel(s) \cap ActiveRows
        BY <1>1, <1>2, <2>1, <2>2 DEF ActiveRows, SameLevel
      <3> QED
        BY <1>1, <2>1, <2>2, <3>1 DEF ActiveNamesDistinct, NameTaken
    <2>3. CASE s = r
      <3>1. t \in (SameLevel(r) \cap ActiveRows) \ {r}
        BY <1>1, <1>2, <2>1, <2>3 DEF ActiveRows, SameLevel
      <3> QED
        BY <1>1, <2>1, <2>3, <3>1 DEF Violates, NameTaken
    <2>4. CASE t = r
      <3>1. s \in (SameLevel(r) \cap ActiveRows) \ {r}
        BY <1>1, <1>2, <2>1, <2>4 DEF ActiveRows, SameLevel
      <3> QED
        BY <1>1, <2>1, <2>4, <3>1 DEF Violates, NameTaken
    <2> QED
      BY <2>2, <2>3, <2>4
  <1>5. GapFree'
    <2>1. \A s \in Rows : row'[s].code = row[s].code
      BY <1>1 DEF Rows
    <2> SUFFICES ASSUME NEW s \in Rows', NEW n \in 1..row'[s].code
                 PROVE  \E t \in SameLevel(s)' : row'[t].code = n
      BY DEF GapFree
    <2>2. s \in Records /\ SameLevel(s) \subseteq SameLevel(s)' /\ SameLevel(s) \subseteq Rows
      BY <1>2, <1>3 DEF Rows, SameLevel
    <2>3. CASE s \in Rows
      <3>1. PICK t \in SameLevel(s) : row[t].code = n
        BY <2>1, <2>3 DEF GapFree
      <3> QED
        BY <2>1, <2>2, <3>1
    <2>4. CASE s \notin Rows
      <3>1. s = r /\ row'[s].code = HighestCode(r) + 1 /\ HighestCode(r) \in Nat
        BY <1>1, <1>2, <2>4, HighestIsReached
      <3>2. CASE n = HighestCode(r) + 1
        <4>1. r \in SameLevel(r)'
          BY <1>3, Levels
        <4> QED
          BY <3>1, <3>2, <4>1
      <3>3. CASE n # HighestCode(r) + 1
        <4>1. n \in 1..HighestCode(r)
          BY <3>1, <3>3
        <4>2. PICK t \in SameLevel(r) : row[t].code = HighestCode(r)
          BY <3>1, <4>1, HighestIsReached
        <4>3. t \in Rows /\ SameLevel(t) = SameLevel(r)
          <5>1. t \in Rows /\ t \in Records /\ t \in Level(r)
            BY <4>2 DEF SameLevel, Rows
          <5> QED
            BY <5>1, Levels DEF SameLevel
        <4>4. PICK u \in SameLevel(r) : row[u].code = n
          BY <4>1, <4>2, <4>3 DEF GapFree
        <4> QED
          BY <2>1, <2>2, <3>1, <4>4
      <3> QED
        BY <3>2, <3>3
    <2> QED
      BY <2>3, <2>4
  <1> QED
    BY <1>2, <1>3, <1>4, <1>5

\* A row of another table, or one with the code that it had, leaves the highest
\* code as it is.
LEMMA HighestKept ==
  ASSUME TypeOK, NEW r \in Records, NEW new \in RowRecords, NEW s \in Records,
         row' = [row EXCEPT ![r] = new],
         SameLevel(s)' = IF r \in Level(s) THEN SameLevel(s) \cup {r} ELSE SameLevel(s),
         r \in Rows => new.code = row[r].code,
         r \in Level(s) => r \in Rows
  PROVE  HighestCode(s)' = HighestCode(s)
  <1>1. SameLevel(s)' = SameLevel(s) /\ SameLevel(s) \subseteq Records
    BY DEF SameLevel, Rows
  <1>2. \A t \in SameLevel(s) : row'[t].code = row[t].code
    BY <1>1 DEF SameLevel, TypeOK
  <1>3. {row'[t].code : t \in SameLevel(s)'} = {row[t].code : t \in SameLevel(s)}
    BY <1>1, <1>2
  <1> QED
    BY <1>3 DEF HighestCode

LEMMA WriteSound ==
  ASSUME MasterInv, NEW c \in Callers, Write(c)
  PROVE  MasterInv'
  <1> DEFINE k == call[c]
             r == k.record
             new == NewRow(k)
  <1>1. /\ k \in Calls /\ k # None /\ k.op \in Writing
        /\ k.op = "create" => k.step = "coded"
    BY DEF Write, InTransaction, MasterInv, TypeOK, Calls, Dialogs, Confirmations,
           Forms, Writing
  <1>2. PickSound(k) /\ HasNextCode(k) /\ \A d \in Callers \ {c} : Apart(k, call[d])
    BY DEF MasterInv, CallsSound
  <1>3. /\ r \in Records /\ new \in RowRecords
        /\ new.owner \in IF Owners(r) = {} THEN {None} ELSE Owners(r) \cap Rows
        /\ r \in Rows => k.op # "create" /\ new.code = row[r].code
        /\ r \notin Rows => k.op = "create" /\ k.step = "coded"
                            /\ new.code = HighestCode(r) + 1
    BY <1>1, <1>2, NewRowSound
  <1>4. request' = request /\ calls' = calls /\ call' = [call EXCEPT ![c] = None]
    BY DEF Write
  <1>5. row' = IF Violates(r, new) THEN row ELSE [row EXCEPT ![r] = new]
    BY DEF Write
  <1> HIDE DEF k, r, new
  <1>6. CASE Violates(r, new)
    BY <1>4, <1>5, <1>6, NoneIsSound, CallChanges DEF MasterInv, TypeOK
  <1>7. CASE ~Violates(r, new)
    <2>1. row' = [row EXCEPT ![r] = new]
      BY <1>5, <1>7
    <2>2. /\ Rows' = Rows \cup {r}
          /\ \A s \in Records : SameLevel(s)' = IF r \in Level(s) THEN SameLevel(s) \cup {r}
                                                ELSE SameLevel(s)
          /\ ActiveNamesDistinct' /\ GapFree'
      BY <1>3, <1>7, <2>1, TablesKept DEF MasterInv
    <2>3. \A d \in Callers : call'[d] = IF d = c THEN None ELSE call[d]
      BY <1>4 DEF MasterInv, TypeOK
    <2>4. \A s \in Records : row'[s] = IF s = r THEN new ELSE row[s]
      BY <2>1 DEF MasterInv, TypeOK
    <2>5. TypeOK'
      <3>1. row' \in [Records -> RowRecords \cup {None}]
        BY <1>3, <2>1 DEF MasterInv, TypeOK
      <3>2. \A s \in Rows' : row'[s].owner \in IF Owners(s) = {} THEN {None}
                                              ELSE Owners(s) \cap Rows'
        <4> SUFFICES ASSUME NEW s \in Rows'
                     PROVE  row'[s].owner \in IF Owners(s) = {} THEN {None}
                                              ELSE Owners(s) \cap Rows'
          OBVIOUS
        <4>1. CASE s = r
          BY <1>3, <2>2, <2>4, <4>1
        <4>2. CASE s # r
          <5>1. s \in Rows /\ s \in Records
            BY <2>2, <4>2 DEF Rows
          <5> QED
            BY <2>2, <2>4, <4>2, <5>1 DEF MasterInv, TypeOK
        <4> QED
          BY <4>1, <4>2
      <3>3. call' \in [Callers -> Dialogs \cup Confirmations \cup Forms \cup {None}]
        BY <1>4 DEF MasterInv, TypeOK
      <3>4. \A d \in Callers : call'[d] # None /\ call'[d].step \in {"locked", "coded"} =>
              call'[d].op = "create"
        BY <2>3 DEF MasterInv, TypeOK
      <3>5. request' \in [Requests -> [project : Projects \cap Rows', site : Sites \cap Rows']
                                      \cup {None}]
        <4>1. [project : Projects \cap Rows, site : Sites \cap Rows] \subseteq
                [project : Projects \cap Rows', site : Sites \cap Rows']
          BY <2>2
        <4> QED
          BY <1>4, <4>1 DEF MasterInv, TypeOK
      <3> QED
        BY <1>4, <3>1, <3>2, <3>3, <3>4, <3>5 DEF MasterInv, TypeOK
    <2>6. CallsSound'
      <3>1. \A d \in Callers : PickSound(call[d])'
        <4> SUFFICES ASSUME NEW d \in Callers \ {c}, call[d] # None PROVE PickSound(call[d])'
          BY <2>3, NoneIsSound DEF PickSound
        <4>1. call'[d] = call[d] /\ PickSound(call[d]) /\ Apart(k, call[d])
          BY <1>2, <2>3 DEF MasterInv, CallsSound
        <4>2. call[d].op = "create" => call[d].record \notin Rows'
          <5> SUFFICES ASSUME call[d].op = "create" PROVE call[d].record \notin Rows \cup {r}
            BY <2>2
          <5>1. call[d].record \notin Rows
            BY <4>1 DEF PickSound
          <5>2. r \notin Rows => call[d].record # r
            BY <1>1, <1>3, <4>1 DEF Apart, Creates, r
          <5> QED
            BY <5>1, <5>2
        <4> QED
          BY <2>2, <4>1, <4>2 DEF PickSound
      <3>2. \A d \in Callers : HasNextCode(call[d])'
        <4> SUFFICES ASSUME NEW d \in Callers \ {c}, call[d] # None, call[d].step = "coded"
                     PROVE  HasNextCode(call[d])'
          BY <2>3, NoneIsSound DEF HasNextCode
        <4>1. call'[d] = call[d] /\ HasNextCode(call[d]) /\ Apart(k, call[d])
          BY <1>2, <2>3 DEF MasterInv, CallsSound
        <4>2. PICK s \in Records : s = call[d].record /\ s = call'[d].record
          BY <4>1 DEF MasterInv, TypeOK, Dialogs, Confirmations, Forms
        <4>3. r \in Level(s) => r \in Rows
          <5> SUFFICES ASSUME r \in Level(s), r \notin Rows PROVE FALSE
            OBVIOUS
          <5>1. HasLock(k) /\ HasLock(call[d])
            BY <1>1, <1>3 DEF HasLock
          <5>2. Level(r) = Level(s)
            BY <1>3, Levels
          <5> QED
            BY <4>1, <4>2, <5>1, <5>2 DEF Apart, r
        <4>4. HighestCode(s)' = HighestCode(s)
          BY <1>3, <2>1, <2>2, <4>3, HighestKept DEF MasterInv
        <4> QED
          BY <4>1, <4>2, <4>4 DEF HasNextCode
      <3>3. \A d, e \in Callers : d # e => Apart(call'[d], call'[e])
        BY <2>3 DEF MasterInv, CallsSound, Apart, Creates, HasLock
      <3> QED
        BY <3>1, <3>2, <3>3 DEF CallsSound, Apart, Creates, HasLock
    <2> QED
      BY <2>2, <2>5, <2>6 DEF MasterInv
  <1> QED
    BY <1>6, <1>7

-----------------------------------------------------------------------------
(* The theorems.                                                           *)

LEMMA NextSound == MasterInv /\ [Next]_vars => MasterInv'
  <1> SUFFICES ASSUME MasterInv, [Next]_vars PROVE MasterInv'
    OBVIOUS
  <1>1. ASSUME NEW c \in Callers,
               \/ PickCreate(c) \/ PickUpdate(c) \/ PickStatus(c) \/ PickRequest(c)
               \/ Check(c) \/ Lock(c) \/ GenerateCode(c)
               \/ Write(c) \/ InsertRequest(c) \/ Abort(c)
        PROVE  MasterInv'
    BY <1>1, PickCreateSound, PickUpdateSound, PickStatusSound, PickRequestSound,
       CheckSound, LockSound, GenerateCodeSound, WriteSound, InsertRequestSound,
       AbortSound
  <1>2. CASE UNCHANGED vars
    <2>1. row' = row /\ call' = call /\ request' = request /\ calls' = calls
      BY <1>2 DEF vars
    <2>2. TypeOK'
      BY <2>1 DEF MasterInv, TypeOK, Rows
    <2>3. CallsSound'
      BY <2>1 DEF MasterInv, CallsSound, PickSound, HasNextCode, Apart, Creates, HasLock,
         HighestCode, SameLevel, Rows
    <2>4. ActiveNamesDistinct' /\ GapFree'
      BY <2>1 DEF MasterInv, ActiveNamesDistinct, NameTaken, GapFree, Rows, ActiveRows,
         SameLevel
    <2> QED
      BY <2>2, <2>3, <2>4 DEF MasterInv
  <1> QED
    BY <1>1, <1>2 DEF Next

LEMMA MasterSound == Spec => []MasterInv
  BY InitSound, NextSound, PTL DEF Spec

\* Whatever is created, moved, archived and restored at the same time, rows have
\* an owner of the level above, requests a project and a site that are there,
\* and only a new record waits for a code.
THEOREM MasterTypeCorrect == Spec => []TypeOK
  <1>1. MasterInv => TypeOK
    BY DEF MasterInv
  <1> QED
    BY <1>1, MasterSound, PTL

\* For any number of records and callers whose transactions overlap in any way:
\* the active records of one owner have different names, the codes of a table
\* are 1, 2, ... without a gap, and a code that waits for its INSERT is still the
\* next one (uq_master_* and the advisory locks of _generate_next_code).
THEOREM RecordsStayDistinct == Spec => []RecordsDistinct
  BY InvDistinct, MasterSound, PTL

-----------------------------------------------------------------------------
(* Without overlapping transactions, what a service checked still holds    *)
(* when it writes.                                                         *)

OneTransaction ==
  \A c \in Callers : InTransaction(c) =>
    /\ Accepted(call[c])
    /\ \A d \in Callers \ {c} : ~InTransaction(d)

\* A call of nobody in a transaction.
Waits(k) == k = None \/ k.step = "picked"

LEMMA OneTransactionKept ==
  ASSUME TypeOK, OneTransaction, ~Overlap, [Next]_vars
  PROVE  OneTransaction'
  <1>1. ASSUME NEW c \in Callers, NEW k, row' = row, call' = [call EXCEPT ![c] = k],
               Waits(k) \/ (Accepted(k) /\ \A d \in Callers \ {c} : ~InTransaction(d))
        PROVE  OneTransaction'
    <2>1. \A d \in Callers : call'[d] = IF d = c THEN k ELSE call[d]
      BY <1>1 DEF TypeOK
    <2>2. \A d \in Callers \ {c} : InTransaction(d)' => InTransaction(d) /\ ~Waits(call[d])
      BY <2>1 DEF InTransaction, Waits
    <2>3. InTransaction(c)' => ~Waits(k)
      BY <2>1 DEF InTransaction, Waits
    <2>4. ASSUME NEW d \in Callers, Accepted(call'[d]) PROVE Accepted(call[d])'
      BY <1>1, <2>4, RowsKept DEF Accepted, CheckUpdate, CheckRestore, CheckRequest,
         OwnerActive, NameTaken, SameLevel, Rows, ActiveRows
    <2> QED
      BY <1>1, <2>1, <2>2, <2>3, <2>4 DEF OneTransaction, Waits
  <1>2. ASSUME NEW c \in Callers,
               PickCreate(c) \/ PickUpdate(c) \/ PickStatus(c) \/ PickRequest(c)
        PROVE  OneTransaction'
    <2>1. \E k : k.step = "picked" /\ Pick(c, k)
      <3>1. CASE PickCreate(c)
        BY <3>1, Zenon DEF PickCreate
      <3>2. CASE PickUpdate(c)
        BY <3>2, Zenon DEF PickUpdate
      <3>3. CASE PickStatus(c)
        BY <3>3, Zenon DEF PickStatus
      <3>4. CASE PickRequest(c)
        BY <3>4, Zenon DEF PickRequest
      <3> QED
        BY <1>2, <3>1, <3>2, <3>3, <3>4
    <2>2. PICK k : k.step = "picked" /\ Pick(c, k)
      BY <2>1
    <2> QED
      BY <1>1, <2>2 DEF Pick, Waits
  <1>3. ASSUME NEW c \in Callers, Check(c) PROVE OneTransaction'
    <2> DEFINE k == [call[c] EXCEPT !.step = "checked"]
    <2>1. Accepted(call[c]) => Accepted(k)
      <3>1. call[c] \in Calls
        BY <1>3 DEF Check, MayStart, TypeOK, Calls
      <3>2. /\ k.op = call[c].op /\ k.record = call[c].record
            /\ call[c] \in Dialogs => k.name = call[c].name /\ k.owner = call[c].owner
            /\ call[c] \in Forms => k.project = call[c].project /\ k.site = call[c].site
            /\ k.op \in {"create", "update"} => call[c] \in Dialogs
            /\ k.op = "request" => call[c] \in Forms
            /\ k.op \in Writing \cup {"request"}
        BY <3>1 DEF Calls, Dialogs, Confirmations, Forms, Writing
      <3> HIDE DEF k
      <3> QED
        BY <3>2 DEF Accepted, Writing
    <2>2. \A d \in Callers : ~InTransaction(d)
      BY <1>3 DEF Check, MayStart
    <2>3. call' = [call EXCEPT ![c] = IF Accepted(call[c]) THEN k ELSE None]
          /\ row' = row
      BY <1>3 DEF Check
    <2> HIDE DEF k
    <2>4. CASE Accepted(call[c])
      BY <1>1, <2>1, <2>2, <2>3, <2>4
    <2>5. CASE ~Accepted(call[c])
      BY <1>1, <2>2, <2>3, <2>5 DEF Waits
    <2> QED
      BY <2>4, <2>5
  <1>4. ASSUME NEW c \in Callers, Lock(c) \/ GenerateCode(c) PROVE OneTransaction'
    <2> DEFINE step == IF Lock(c) THEN "locked" ELSE "coded"
               code == IF Lock(c) THEN call[c].code ELSE HighestCode(call[c].record) + 1
               k == [call[c] EXCEPT !.step = step, !.code = code]
    <2>1. call[c] \in Dialogs /\ call[c].op = "create" /\ InTransaction(c)
      BY <1>4 DEF Lock, GenerateCode, InTransaction, TypeOK, Dialogs, Confirmations, Forms
    <2>2. row' = row /\ call' = [call EXCEPT ![c] = k]
      BY <1>4, <2>1 DEF Lock, GenerateCode, TypeOK, Dialogs
    <2>3. k.op = "create" /\ k.record = call[c].record /\ k.name = call[c].name
          /\ k.owner = call[c].owner
      BY <2>1 DEF Dialogs
    <2> HIDE DEF k
    <2>4. Accepted(k) /\ \A d \in Callers \ {c} : ~InTransaction(d)
      BY <2>1, <2>3 DEF OneTransaction, Accepted
    <2> QED
      BY <1>1, <2>2, <2>4
  <1>5. ASSUME NEW c \in Callers, Write(c) \/ InsertRequest(c) \/ Abort(c)
        PROVE  OneTransaction'
    <2>1. InTransaction(c) /\ call' = [call EXCEPT ![c] = None]
      BY <1>5 DEF Write, InsertRequest, Abort
    <2>2. \A d \in Callers : ~InTransaction(d)'
      BY <2>1 DEF OneTransaction, InTransaction, TypeOK
    <2> QED
      BY <2>2 DEF OneTransaction
  <1>6. CASE UNCHANGED vars
    <2>1. row' = row /\ call' = call
      BY <1>6 DEF vars
    <2>2. \A c \in Callers : InTransaction(c)' = InTransaction(c)
      BY <2>1 DEF InTransaction
    <2>3. \A c \in Callers : Accepted(call[c]) => Accepted(call[c])'
      BY <2>1 DEF Accepted, CheckUpdate, CheckRestore, CheckRequest, OwnerActive,
         NameTaken, SameLevel, Rows, ActiveRows
    <2> QED
      BY <2>2, <2>3 DEF OneTransaction
  <1> QED
    BY <1>2, <1>3, <1>4, <1>5, <1>6 DEF Next

\* The steps of one transaction at a time.
LEMMA StaleListsHarmless ==
  ASSUME MasterInv, OneTransaction, [Next]_vars
  PROVE  PlacedUnderActive /\ ArchivedStaysAsItIs
  <1>1. CASE row' = row
    BY <1>1 DEF PlacedUnderActive, Placed, ArchivedStaysAsItIs, Frozen, MasterInv
  <1>2. CASE row' # row
    <2>1. PICK c \in Callers : Write(c)
      BY <1>2 DEF Next, vars, PickCreate, PickUpdate, PickStatus, PickRequest, Pick,
         Check, Lock, GenerateCode, InsertRequest, Abort
    <2> DEFINE k == call[c]
               r == k.record
               new == NewRow(k)
    <2>2. k \in Calls /\ k # None /\ k.op \in Writing /\ Accepted(k) /\ PickSound(k)
      BY <2>1 DEF Write, InTransaction, MasterInv, CallsSound, OneTransaction, TypeOK,
         Calls, Dialogs, Confirmations, Forms, Writing
    <2>3. row' = [row EXCEPT ![r] = new]
      BY <1>2, <2>1 DEF Write
    <2> HIDE DEF k, r, new
    <2>4. \A s \in Records : s # r => row'[s] = row[s]
      BY <2>3 DEF MasterInv, TypeOK
    <2>5. r \in Records => row'[r] = new
      BY <2>3 DEF MasterInv, TypeOK
    <2>6. ASSUME r \in Records, Placed(r) PROVE OwnerActive(new.owner)
      <3>1. new.active /\ (row[r] = None \/ ~row[r].active \/ row[r].owner # new.owner)
        BY <2>5, <2>6 DEF Placed
      <3>2. CASE k.op \in {"create", "update"}
        <4>1. OwnerActive(k.owner)
          BY <2>2, <3>2 DEF Accepted, CheckUpdate, r
        <4>2. new.owner = k.owner
          <5>1. CASE k.op = "create"
            BY <5>1 DEF new, NewRow
          <5>2. CASE k.op = "update"
            <6>1. row[r] \in RowRecords
              BY <2>2, <5>2 DEF PickSound, r, Rows, MasterInv, TypeOK
            <6> QED
              BY <5>2, <6>1 DEF new, NewRow, r, RowRecords
          <5> QED
            BY <3>2, <5>1, <5>2
        <4> QED
          BY <4>1, <4>2
      <3>3. CASE k.op \in {"deactivate", "restore"}
        <4>1. row[r] \in RowRecords
          BY <2>2, <3>3 DEF PickSound, r, Rows, MasterInv, TypeOK
        <4>2. k.op = "restore"
          BY <3>1, <3>3, <4>1 DEF new, NewRow, r, RowRecords
        <4>3. new.owner = row[r].owner
          BY <4>1, <4>2 DEF new, NewRow, r, RowRecords
        <4> QED
          BY <2>2, <4>2, <4>3 DEF Accepted, CheckRestore, r
      <3> QED
        BY <2>2, <3>2, <3>3 DEF Writing
    <2>7. ASSUME r \in Rows, r \notin Clients, ~row[r].active
          PROVE  new.name = row[r].name /\ new.owner = row[r].owner
      <3>1. row[r] \in RowRecords
        BY <2>7 DEF Rows, MasterInv, TypeOK
      <3>2. k.op \in {"deactivate", "restore"}
        BY <2>2, <2>7 DEF Accepted, CheckUpdate, PickSound, Writing, r
      <3> QED
        BY <3>1, <3>2 DEF new, NewRow, r, RowRecords
    <2>8. PlacedUnderActive
      <3> SUFFICES ASSUME NEW s \in Records, Placed(s) PROVE OwnerActive(row'[s].owner)
        BY DEF PlacedUnderActive
      <3>1. s = r
        BY <2>4 DEF Placed
      <3> QED
        BY <2>5, <2>6, <3>1
    <2>9. ArchivedStaysAsItIs
      <3> SUFFICES ASSUME NEW s \in (Projects \cup Sites) \cap Rows, ~row[s].active
                   PROVE  row'[s].name = row[s].name /\ row'[s].owner = row[s].owner
        BY DEF ArchivedStaysAsItIs, Frozen
      <3>1. s \in Records /\ s \notin Clients
        BY MasterDataAssumption DEF Records
      <3> QED
        BY <2>4, <2>5, <2>7, <3>1
    <2> QED
      BY <2>8, <2>9
  <1> QED
    BY <1>1, <1>2

\* If transactions do not overlap, lists may be as old as they like: a record
\* that is created, restored or moved has an active owner ("Restore the client
\* first."), and an archived project or site keeps its name and its owner
\* ("Inactive Project Master records cannot be edited.").  With overlapping ones
\* neither holds: _require_active_client reads the owner without a lock.
THEOREM StaleListsDoNoHarmAlone ==
  ASSUME ~Overlap
  PROVE  Spec => [][PlacedUnderActive /\ ArchivedStaysAsItIs]_vars
  <1>1. Init => OneTransaction
    BY DEF Init, OneTransaction, InTransaction
  <1>2. MasterInv /\ OneTransaction /\ [Next]_vars => OneTransaction'
    BY OneTransactionKept DEF MasterInv
  <1>3. MasterInv /\ OneTransaction /\ [Next]_vars
          => [PlacedUnderActive /\ ArchivedStaysAsItIs]_vars
    BY StaleListsHarmless
  <1> QED
    BY <1>1, <1>2, <1>3, MasterSound, PTL DEF Spec
-----------------------------------------------------------------------------
(* The screens.                                                            *)

CONSTANTS Shown, AnyName, NoRecord, Kind, MayFail, MaxForeign, MaxGestures
VARIABLES table, filter, search, timer, rows, asked, highlight, selected, button,
          boxes, target, foreign, gestures

Screen == INSTANCE MasterScreen WITH Records <- Shown

Boxes == {"create", "edit", "archive", "restore", "error", "told"}
Texts == Names \cup {AnyName}
Tables == [Shown -> Screen!Row]
Held == [id : Shown, row : Screen!Row \ {Screen!Absent}]
Holdable == {Screen!Nothing} \cup Held

\* A dialog about a record has one.
HasTarget(open) ==
  (\E i \in DOMAIN open : open[i] \in {"edit", "archive", "restore"}) => target \in Held

ScreenInv == Screen!TypeOK /\ HasTarget(boxes)

LEMMA RowTypes ==
  ASSUME Screen!ScreenAssumption
  PROVE  /\ Screen!Absent \in Screen!Row
         /\ Screen!Nothing \notin Held
         /\ \A x \in Screen!Row : x # Screen!Absent <=> x.status # "absent"
         /\ \A x \in Screen!Row, n \in Names : x # Screen!Absent =>
              [x EXCEPT !.name = n] \in Screen!Row \ {Screen!Absent}
         /\ \A x \in Screen!Row, to \in {"Active", "Inactive"} : x # Screen!Absent =>
              [x EXCEPT !.status = to] \in Screen!Row \ {Screen!Absent}
  <1>1. Screen!Absent.status = "absent"
    BY DEF Screen!Absent
  <1>2. Screen!Nothing.id = NoRecord
    BY DEF Screen!Nothing, Screen!Held
  <1>3. \A x \in [status : {"Active", "Inactive"}, name : Names] :
          /\ x.status # "absent"
          /\ \A n \in Names : [x EXCEPT !.name = n]
               \in [status : {"Active", "Inactive"}, name : Names]
          /\ \A to \in {"Active", "Inactive"} : [x EXCEPT !.status = to]
               \in [status : {"Active", "Inactive"}, name : Names]
    OBVIOUS
  <1>4. \A x \in Held : x.id # NoRecord
    BY DEF Held, Screen!ScreenAssumption
  <1> HIDE DEF Held
  <1> QED
    BY <1>1, <1>2, <1>3, <1>4 DEF Screen!Row

\* What a query answers and what a selection of its rows is.
LEMMA AnswerTyped ==
  ASSUME Screen!ScreenAssumption, NEW db \in Tables, NEW f, NEW s
  PROVE  Screen!Answer(db, f, s) \in Tables
  BY RowTypes DEF Screen!Answer, Tables

LEMMA RowFound ==
  ASSUME NEW list, NEW r
  PROVE  /\ r = NoRecord \/ list[r] = Screen!Absent => Screen!RowOf(list, r) = Screen!Nothing
         /\ r # NoRecord /\ list[r] # Screen!Absent =>
              /\ Screen!RowOf(list, r) = Screen!Held(r, list[r])
              /\ Screen!RowOf(list, r).id = r /\ Screen!RowOf(list, r).row = list[r]
              /\ Screen!RowOf(list, r) # Screen!Nothing
  <1>1. /\ Screen!Held(r, list[r]).id = r /\ Screen!Held(r, list[r]).row = list[r]
        /\ Screen!Nothing.id = NoRecord
    BY DEF Screen!Held, Screen!Nothing
  <1> QED
    BY <1>1 DEF Screen!RowOf

LEMMA RowHeld ==
  ASSUME Screen!ScreenAssumption, NEW list \in Tables, NEW r \in Shown \cup {NoRecord}
  PROVE  /\ Screen!RowOf(list, r) \in Holdable
         /\ Screen!StillListed(list, r) \in Shown \cup {NoRecord}
  <1>1. r # NoRecord /\ list[r] # Screen!Absent => Screen!Held(r, list[r]) \in Held
    BY DEF Tables, Held, Screen!Held
  <1> QED
    BY <1>1, RowFound DEF Holdable, Screen!StillListed

\* A load lists rows and selects among them.
LEMMA LoadTyped ==
  ASSUME Screen!ScreenAssumption, ScreenInv, NEW db \in Tables, NEW f \in Screen!Filters,
         NEW s \in Texts, NEW chosen \in Holdable, NEW keep, NEW rest \in Seq(Boxes),
         Screen!Load(db, f, s, chosen, keep, rest)
  PROVE  /\ rows' \in Tables /\ asked' \in {<<>>} \cup (Screen!Filters \X Texts)
         /\ highlight' \in Shown \cup {NoRecord} /\ {selected', button'} \subseteq Holdable
         /\ boxes' \in {rest, <<"error">> \o rest}
  <1>1. chosen.id \in Shown \cup {NoRecord}
    BY DEF Holdable, Held, Screen!Nothing, Screen!Held
  <1>2. /\ rows \in Tables /\ highlight \in Shown \cup {NoRecord}
        /\ {selected, button} \subseteq Holdable
    BY DEF ScreenInv, Screen!TypeOK, Tables, Holdable, Held
  <1>3. Screen!Answer(db, f, s) \in Tables
    BY AnswerTyped
  <1>4. Screen!Nothing \in Holdable /\ <<f, s>> \in Screen!Filters \X Texts
    BY DEF Holdable
  <1>5. CASE Screen!SitesLoaded(db, f, s, chosen.id) /\ boxes' = rest
    BY <1>1, <1>2, <1>3, <1>4, <1>5, RowHeld DEF Screen!SitesLoaded, Screen!ClearSelection
  <1>6. CASE Screen!ClientsLoaded(db, f, s, keep) /\ boxes' = rest
    BY <1>2, <1>3, <1>4, <1>6, RowHeld DEF Screen!ClientsLoaded
  <1>7. CASE Screen!SitesNotLoaded(chosen) /\ boxes' = <<"error">> \o rest
    BY <1>2, <1>7 DEF Screen!SitesNotLoaded
  <1>8. CASE Screen!EmptyList /\ boxes' = <<"error">> \o rest
    <2>1. [r \in Shown |-> Screen!Absent] \in Tables
      BY RowTypes DEF Tables
    <2> QED
      BY <1>4, <1>8, <2>1 DEF Screen!EmptyList, Screen!ClearSelection
  <1> QED
    BY <1>5, <1>6, <1>7, <1>8 DEF Screen!Load

\* What a step leaves of the boxes keeps its target.
LEMMA BoxesKept ==
  ASSUME NEW rest \in Seq(Boxes)
  PROVE  /\ <<"error">> \o rest \in Seq(Boxes)
         /\ \A i \in DOMAIN (<<"error">> \o rest) :
              \/ (<<"error">> \o rest)[i] = "error"
              \/ \E j \in DOMAIN rest : (<<"error">> \o rest)[i] = rest[j]
         /\ rest # <<>> => Tail(rest) \in Seq(Boxes)
                           /\ \A i \in DOMAIN Tail(rest) : Tail(rest)[i] = rest[i + 1]
                                                           /\ i + 1 \in DOMAIN rest
  BY DEF Boxes

LEMMA OneBox ==
  /\ <<>> \in Seq(Boxes) /\ DOMAIN <<>> = {}
  /\ \A x \in Boxes : <<x>> \in Seq(Boxes) /\ DOMAIN <<x>> = {1} /\ <<x>>[1] = x
  OBVIOUS

LEMMA ScreenTypes ==
  ASSUME Screen!ScreenAssumption, ScreenInv
  PROVE  /\ table \in Tables /\ rows \in Tables
         /\ filter \in Screen!Filters /\ search \in Texts /\ timer \in BOOLEAN
         /\ asked \in {<<>>} \cup (Screen!Filters \X Texts)
         /\ highlight \in Shown \cup {NoRecord}
         /\ {selected, button, target} \subseteq Holdable
         /\ boxes \in Seq(Boxes) /\ foreign \in 0..MaxForeign /\ gestures \in 0..MaxGestures
         /\ Screen!GetSelected \in Holdable /\ Screen!Nothing \in Holdable
  <1>1. /\ table \in Tables /\ rows \in Tables
        /\ filter \in Screen!Filters /\ search \in Texts /\ timer \in BOOLEAN
        /\ asked \in {<<>>} \cup (Screen!Filters \X Texts)
        /\ highlight \in Shown \cup {NoRecord}
        /\ {selected, button, target} \subseteq Holdable
        /\ boxes \in Seq(Boxes) /\ foreign \in 0..MaxForeign /\ gestures \in 0..MaxGestures
    BY DEF ScreenInv, Screen!TypeOK, Tables, Texts, Holdable, Held, Boxes
  <1>2. Screen!GetSelected \in Holdable
    BY <1>1, RowHeld DEF Screen!GetSelected
  <1> QED
    BY <1>1, <1>2 DEF Holdable

LEMMA TypesGathered ==
  ASSUME /\ table' \in Tables /\ rows' \in Tables
         /\ filter' \in Screen!Filters /\ search' \in Texts /\ timer' \in BOOLEAN
         /\ asked' \in {<<>>} \cup (Screen!Filters \X Texts)
         /\ highlight' \in Shown \cup {NoRecord}
         /\ {selected', button', target'} \subseteq Holdable
         /\ boxes' \in Seq(Boxes) /\ foreign' \in 0..MaxForeign /\ gestures' \in 0..MaxGestures,
         HasTarget(boxes)'
  PROVE  ScreenInv'
  BY DEF ScreenInv, Screen!TypeOK, Tables, Texts, Holdable, Held, Boxes

LEMMA SearchTyped ==
  ASSUME Screen!ScreenAssumption, ScreenInv,
         \/ Screen!RunDebouncedSearch \/ Screen!HandleRefresh
         \/ \E f \in Screen!Filters : Screen!HandleStatusChange(f)
  PROVE  ScreenInv'
  <1> USE ScreenTypes
  <1>1. UNCHANGED <<table, search, target, foreign>> /\ timer' \in BOOLEAN
        /\ gestures' \in 0..MaxGestures
    <2>1. gestures' = gestures \/ Screen!Free
      BY DEF Screen!RunDebouncedSearch, Screen!HandleRefresh, Screen!HandleStatusChange
    <2>2. gestures' \in 0..MaxGestures
      BY <2>1 DEF Screen!Free, Screen!ScreenAssumption
    <2>3. UNCHANGED <<table, search, target, foreign>>
          /\ timer' \in {FALSE, timer /\ Kind = "site"}
      BY Zenon DEF Screen!RunDebouncedSearch, Screen!HandleRefresh, Screen!HandleStatusChange
    <2> QED
      BY <2>2, <2>3
  <1>2. /\ filter' \in Screen!Filters /\ rows' \in Tables
        /\ asked' \in {<<>>} \cup (Screen!Filters \X Texts)
        /\ highlight' \in Shown \cup {NoRecord} /\ {selected', button'} \subseteq Holdable
        /\ boxes' \in {boxes, <<"error">> \o boxes, <<"error">>}
    <2>1. CASE Screen!RunDebouncedSearch /\ Screen!IsLoading
      BY <2>1 DEF Screen!RunDebouncedSearch
    <2>2. CASE Screen!RunDebouncedSearch /\ ~Screen!IsLoading
      <3>1. Screen!Load(table, filter, search, selected, TRUE, boxes) /\ filter' = filter
        BY <2>2 DEF Screen!RunDebouncedSearch
      <3> QED
        BY <3>1, LoadTyped
    <2>3. CASE Screen!HandleRefresh
      <3>1. Screen!Load(table, filter, search, selected, TRUE, <<>>) /\ filter' = filter
            /\ boxes = <<>>
        BY <2>3 DEF Screen!HandleRefresh, Screen!Free
      <3>2. <<>> \in Seq(Boxes)
        OBVIOUS
      <3> QED
        BY <3>1, <3>2, LoadTyped
    <2>4. CASE \E f \in Screen!Filters : Screen!HandleStatusChange(f)
      <3> PICK f \in Screen!Filters : Screen!HandleStatusChange(f)
        BY <2>4
      <3>1. Screen!Answer(table, f, search) \in Tables /\ <<f, search>> \in Screen!Filters \X Texts
            /\ [r \in Shown |-> Screen!Absent] \in Tables
        BY AnswerTyped, RowTypes DEF Tables
      <3> QED
        BY <3>1 DEF Screen!HandleStatusChange, Screen!EmptyList, Screen!ClearSelection,
                          Screen!Free
    <2> QED
      BY <2>1, <2>2, <2>3, <2>4
  <1>3. boxes' \in Seq(Boxes) /\ HasTarget(boxes)'
    <2>1. CASE boxes' \in {boxes, <<"error">> \o boxes}
      <3>1. boxes' \in Seq(Boxes)
        BY <2>1, BoxesKept
      <3>2. boxes \in Seq(Boxes)
        OBVIOUS
      <3>3. \A i \in DOMAIN boxes' :
              boxes'[i] = "error" \/ \E j \in DOMAIN boxes : boxes'[i] = boxes[j]
        <4>1. CASE boxes' = boxes
          BY <4>1
        <4>2. CASE boxes' = <<"error">> \o boxes
          BY <3>2, <4>2, BoxesKept
        <4> QED
          BY <2>1, <4>1, <4>2
      <3> QED
        BY <1>1, <3>1, <3>3 DEF HasTarget, ScreenInv
    <2>2. CASE boxes' = <<"error">>
      BY <2>2, OneBox DEF HasTarget, Boxes
    <2> QED
      BY <1>2, <2>1, <2>2
  <1> QED
    BY <1>1, <1>2, <1>3, TypesGathered

LEMMA GestureTyped ==
  ASSUME Screen!ScreenAssumption, ScreenInv,
         \/ \E s \in Texts : Screen!TypeSearch(s)
         \/ \E r \in Shown : Screen!SelectRow(r)
         \/ Screen!HandleEdit \/ Screen!HandleArchive \/ Screen!HandleRestore
         \/ Screen!HandleNew
  PROVE  ScreenInv'
  <1>1. /\ UNCHANGED <<table, filter, rows, asked, foreign>> /\ Screen!Free
        /\ search' \in Texts /\ timer' \in BOOLEAN
    BY ScreenTypes, Zenon
       DEF Screen!TypeSearch, Screen!SelectRow, Screen!HandleEdit, Screen!HandleArchive,
           Screen!HandleRestore, Screen!HandleNew, Screen!Open
  <1>2. gestures' \in 0..MaxGestures
    BY <1>1, ScreenTypes DEF Screen!Free, Screen!ScreenAssumption
  <1>3. /\ highlight' \in Shown \cup {NoRecord} /\ {selected', button', target'} \subseteq Holdable
        /\ boxes' \in Seq(Boxes) /\ HasTarget(boxes)'
    <2>1. CASE \E s \in Texts : Screen!TypeSearch(s)
      BY <2>1, ScreenTypes DEF Screen!TypeSearch, HasTarget, ScreenInv
    <2>2. CASE \E r \in Shown : Screen!SelectRow(r)
      BY <2>2, ScreenTypes, RowHeld DEF Screen!SelectRow, HasTarget, ScreenInv
    <2>3. ASSUME NEW box \in {"edit", "archive", "restore"}, NEW status, Screen!Open(box, status)
          PROVE  /\ highlight' \in Shown \cup {NoRecord}
                 /\ {selected', button', target'} \subseteq Holdable
                 /\ boxes' \in Seq(Boxes) /\ HasTarget(boxes)'
      <3>1. /\ UNCHANGED <<highlight, button>> /\ selected' = Screen!GetSelected
            /\ Screen!GetSelected # Screen!Nothing
            /\ \/ boxes' = <<box>> /\ target' = Screen!GetSelected
               \/ boxes' = <<"told">> /\ target' = target
        BY <2>3 DEF Screen!Open
      <3>2. {selected', button', target'} \subseteq Holdable
        BY <3>1, ScreenTypes
      <3>3. box \in Boxes /\ "told" \in Boxes
        BY DEF Boxes
      <3>4. boxes' \in Seq(Boxes) /\ HasTarget(boxes)'
        BY <3>1, <3>3, ScreenTypes, OneBox DEF HasTarget, Holdable
      <3> QED
        BY <3>1, <3>2, <3>4, ScreenTypes
    <2>4. CASE Screen!HandleNew
      <3>1. "create" \in Boxes
        BY DEF Boxes
      <3> QED
        BY <2>4, <3>1, ScreenTypes, OneBox DEF Screen!HandleNew, HasTarget
    <2> QED
      BY <2>1, <2>2, <2>3, <2>4 DEF Screen!HandleEdit, Screen!HandleArchive, Screen!HandleRestore
  <1> QED
    BY <1>1, <1>2, <1>3, ScreenTypes, TypesGathered

LEMMA BoxTyped ==
  ASSUME Screen!ScreenAssumption, ScreenInv,
         \/ Screen!Dismiss \/ Screen!Refused
         \/ \E r \in Shown, x \in Screen!Row : Screen!ForeignChange(r, x)
  PROVE  ScreenInv'
  <1>1. UNCHANGED <<filter, search, timer, rows, asked, highlight, selected, button, gestures>>
    BY DEF Screen!Dismiss, Screen!Refused, Screen!ForeignChange
  <1>2. /\ table' \in Tables /\ target' \in Holdable /\ foreign' \in 0..MaxForeign
        /\ boxes' \in Seq(Boxes) /\ HasTarget(boxes)'
    <2>1. CASE Screen!Dismiss
      <3>1. boxes # <<>> /\ boxes' = Tail(boxes) /\ UNCHANGED <<table, foreign>>
            /\ target' = IF Tail(boxes) = <<>> THEN Screen!Nothing ELSE target
        BY <2>1 DEF Screen!Dismiss
      <3>2. boxes' \in Seq(Boxes) /\ \A i \in DOMAIN boxes' :
              boxes'[i] = boxes[i + 1] /\ i + 1 \in DOMAIN boxes
        BY <3>1, ScreenTypes, BoxesKept
      <3>3. HasTarget(boxes)'
        <4>1. CASE Tail(boxes) = <<>>
          BY <3>1, <4>1, OneBox DEF HasTarget
        <4>2. CASE Tail(boxes) # <<>>
          BY <3>1, <3>2, <4>2 DEF HasTarget, ScreenInv
        <4> QED
          BY <4>1, <4>2
      <3> QED
        BY <3>1, <3>2, <3>3, ScreenTypes
    <2>2. CASE Screen!Refused
      <3>1. "told" \in Boxes
        BY DEF Boxes
      <3> QED
        BY <2>2, <3>1, ScreenTypes, OneBox DEF Screen!Refused, HasTarget
    <2>3. CASE \E r \in Shown, x \in Screen!Row : Screen!ForeignChange(r, x)
      <3>1. PICK r \in Shown, x \in Screen!Row : Screen!ForeignChange(r, x)
        BY <2>3
      <3>2. /\ table' = [table EXCEPT ![r] = x] /\ foreign < MaxForeign
            /\ foreign' = foreign + 1 /\ UNCHANGED <<boxes, target>>
        BY <3>1 DEF Screen!ForeignChange
      <3>3. table' \in Tables
        BY <3>2, ScreenTypes DEF Tables
      <3>4. foreign' \in 0..MaxForeign
        BY <3>2, ScreenTypes DEF Screen!ScreenAssumption
      <3> QED
        BY <3>2, <3>3, <3>4, ScreenTypes DEF HasTarget, ScreenInv
    <2> QED
      BY <2>1, <2>2, <2>3
  <1> QED
    BY <1>1, <1>2, ScreenTypes, TypesGathered

\* A row that a dialog writes.
LEMMA SaveTyped ==
  ASSUME Screen!ScreenAssumption, ScreenInv,
         \/ \E r \in Shown, n \in Names : Screen!CreateRecord(r, n)
         \/ \E n \in Names : Screen!UpdateRecord(n)
         \/ Screen!ArchiveConfirmed \/ Screen!RestoreConfirmed
  PROVE  ScreenInv'
  <1> DEFINE told == <<"told">>
             failed == <<"error">> \o told
  <1>1. /\ told \in Seq(Boxes) /\ failed = <<"error", "told">>
        /\ failed \in Seq(Boxes)
        /\ \A i \in DOMAIN told : told[i] = "told"
        /\ \A i \in DOMAIN failed : failed[i] \in {"error", "told"}
    <2>1. told \in Seq(Boxes) /\ \A i \in DOMAIN told : told[i] = "told"
      BY DEF Boxes
    <2>2. failed = <<"error", "told">>
      <3>1. failed \in Seq({"error", "told"}) /\ Len(failed) = 2
            /\ failed[1] = "error" /\ failed[2] = "told"
        OBVIOUS
      <3> HIDE DEF failed
      <3> QED
        BY <3>1
    <2> HIDE DEF failed
    <2>3. failed \in Seq(Boxes)
      BY <2>2 DEF Boxes
    <2>4. \A i \in DOMAIN failed : failed[i] \in {"error", "told"}
      BY <2>2
    <2> QED
      BY <2>1, <2>2, <2>3, <2>4
  <1>2. UNCHANGED <<filter, search, timer, foreign, gestures>> /\ target' = Screen!Nothing
    BY DEF Screen!CreateRecord, Screen!UpdateRecord, Screen!ArchiveConfirmed,
           Screen!RestoreConfirmed, Screen!SetStatus
  <1>3. ASSUME boxes \in {<<"edit">>, <<"archive">>, <<"restore">>}
        PROVE  target \in Held
    <2>1. 1 \in DOMAIN boxes /\ boxes[1] \in {"edit", "archive", "restore"}
      BY <1>3
    <2> QED
      BY <2>1 DEF HasTarget, ScreenInv
  <1>4. ASSUME NEW db \in Tables, NEW chosen \in Holdable, NEW keep, table' = db,
               Screen!Load(db, filter, search, chosen, keep, told)
        PROVE  ScreenInv'
    <2>1. /\ rows' \in Tables /\ asked' \in {<<>>} \cup (Screen!Filters \X Texts)
          /\ highlight' \in Shown \cup {NoRecord} /\ {selected', button'} \subseteq Holdable
          /\ boxes' \in {told, failed}
      BY <1>1, <1>4, ScreenTypes, LoadTyped
    <2> HIDE DEF told, failed
    <2>2. boxes' \in Seq(Boxes) /\ HasTarget(boxes)'
      BY <1>1, <2>1 DEF HasTarget
    <2> QED
      BY <1>2, <1>4, <2>1, <2>2, ScreenTypes, TypesGathered
  <1>5. ASSUME NEW r \in Shown, NEW n \in Names, Screen!CreateRecord(r, n)
        PROVE  ScreenInv'
    <2> DEFINE x == [status |-> "Active", name |-> n]
               db == [table EXCEPT ![r] = x]
    <2>1. x \in Screen!Row \ {Screen!Absent}
      BY RowTypes DEF Screen!Row
    <2>2. db \in Tables /\ db[r] = x
      BY <2>1, ScreenTypes DEF Tables
    <2>3. table' = db /\ Screen!Load(db, filter, search, Screen!Held(r, db[r]), TRUE, told)
      BY <1>5 DEF Screen!CreateRecord, Screen!AfterSaved
    <2> HIDE DEF x, db
    <2>4. Screen!Held(r, db[r]) \in Holdable
      BY <2>1, <2>2 DEF Screen!Held, Holdable, Held
    <2> QED
      BY <1>4, <2>2, <2>3, <2>4
  <1>6. ASSUME NEW n \in Names, Screen!UpdateRecord(n)
        PROVE  ScreenInv'
    <2> DEFINE r == target.id
               x == [table[r] EXCEPT !.name = n]
               db == [table EXCEPT ![r].name = n]
    <2>1. boxes = <<"edit">> /\ table[r] # Screen!Absent /\ table' = db
          /\ Screen!Load(db, filter, search, Screen!Held(r, db[r]), TRUE, told)
      BY <1>6 DEF Screen!UpdateRecord, Screen!AfterSaved
    <2>2. r \in Shown /\ table[r] \in Screen!Row
      BY <1>3, <2>1, ScreenTypes DEF Held, Tables
    <2>3. x \in Screen!Row \ {Screen!Absent} /\ db = [table EXCEPT ![r] = x]
      BY <2>1, <2>2, RowTypes
    <2> HIDE DEF x, r
    <2>4. db \in Tables /\ db[r] = x
      BY <2>2, <2>3, ScreenTypes DEF Tables
    <2> HIDE DEF db
    <2>5. Screen!Held(r, db[r]) \in Holdable
      BY <2>2, <2>3, <2>4 DEF Screen!Held, Holdable, Held
    <2> QED
      BY <1>4, <2>1, <2>4, <2>5
  <1>7. ASSUME NEW box \in {"archive", "restore"}, NEW from \in {"Active", "Inactive"},
               NEW to \in {"Active", "Inactive"}, Screen!SetStatus(box, from, to)
        PROVE  ScreenInv'
    <2> DEFINE r == target.id
               x == [table[r] EXCEPT !.status = to]
               db == [table EXCEPT ![r].status = to]
    <2>1. /\ boxes = <<box>> /\ table[r].status = from /\ table' = db
          /\ \/ /\ Kind = "site"
                /\ \/ Screen!SitesLoaded(db, filter, search, r) /\ boxes' = told
                   \/ /\ MayFail /\ boxes' = <<"error", "told">>
                      /\ Screen!SitesNotLoaded(selected) \/ Screen!EmptyList
             \/ Screen!Load(db, filter, search, Screen!Nothing, FALSE, told)
      BY <1>7 DEF Screen!SetStatus
    <2>2. target \in Held /\ r \in Shown /\ table[r] \in Screen!Row
      BY <1>3, <2>1, ScreenTypes DEF Held, Tables
    <2>3. x \in Screen!Row \ {Screen!Absent} /\ db = [table EXCEPT ![r] = x]
      BY <2>1, <2>2, RowTypes
    <2> HIDE DEF x, r
    <2>4. db \in Tables
      BY <2>2, <2>3, ScreenTypes DEF Tables
    <2> HIDE DEF db
    <2>5. CASE Kind = "site" /\ Screen!SitesLoaded(db, filter, search, r) /\ boxes' = told
      <3>1. Screen!Load(db, filter, search, target, TRUE, told)
        BY <2>5 DEF Screen!Load, r
      <3>2. target \in Holdable
        BY <2>2 DEF Holdable
      <3> QED
        BY <1>4, <2>1, <2>4, <3>1, <3>2
    <2>6. CASE /\ Kind = "site" /\ MayFail /\ boxes' = <<"error", "told">>
               /\ Screen!SitesNotLoaded(selected) \/ Screen!EmptyList
      <3>1. Screen!Load(db, filter, search, selected, TRUE, told)
        BY <1>1, <2>6 DEF Screen!Load
      <3> QED
        BY <1>4, <2>1, <2>4, <3>1, ScreenTypes
    <2> QED
      BY <1>4, <2>1, <2>4, <2>5, <2>6, ScreenTypes
  <1> QED
    BY <1>5, <1>6, <1>7 DEF Screen!ArchiveConfirmed, Screen!RestoreConfirmed

LEMMA ScreenStep ==
  ASSUME Screen!ScreenAssumption, ScreenInv, [Screen!Next]_(Screen!vars)
  PROVE  ScreenInv'
  <1>1. CASE UNCHANGED Screen!vars
    BY <1>1 DEF ScreenInv, Screen!TypeOK, HasTarget, Screen!vars
  <1>2. CASE Screen!Next
    BY <1>2, SearchTyped, GestureTyped, BoxTyped, SaveTyped DEF Screen!Next, Texts
  <1> QED
    BY <1>1, <1>2

LEMMA ScreenInit ==
  ASSUME Screen!ScreenAssumption, Screen!Init
  PROVE  ScreenInv
  <1>1. /\ table \in Tables /\ Screen!Answer(table, "Active", AnyName) \in Tables
    BY AnswerTyped DEF Screen!Init, Tables
  <1>2. Screen!TypeOK
    <2>1. /\ table \in Tables /\ rows \in Tables /\ filter \in Screen!Filters
          /\ search \in Names \cup {AnyName} /\ timer \in BOOLEAN
          /\ highlight \in Shown \cup {NoRecord}
          /\ {selected, button, target} \subseteq {Screen!Nothing}
      BY <1>1 DEF Screen!Init, Screen!Filters
    <2>2. asked \in Screen!Filters \X (Names \cup {AnyName})
      BY DEF Screen!Init, Screen!Filters
    <2>3. boxes \in Seq({"create", "edit", "archive", "restore", "error", "told"})
      BY DEF Screen!Init
    <2>4. foreign \in 0..MaxForeign /\ gestures \in 0..MaxGestures
      BY DEF Screen!Init, Screen!ScreenAssumption
    <2> QED
      BY <2>1, <2>2, <2>3, <2>4 DEF Screen!TypeOK, Tables
  <1>3. HasTarget(boxes)
    BY OneBox DEF Screen!Init, HasTarget
  <1> QED
    BY <1>2, <1>3 DEF ScreenInv

\* Everything that the screen, its grid, its toolbar and its dialogs hold is a
\* record with a row, or nothing.
THEOREM ScreensTyped == Screen!ScreenAssumption /\ Screen!Spec => []Screen!TypeOK
  <1> SUFFICES ASSUME Screen!ScreenAssumption PROVE Screen!Spec => []Screen!TypeOK
    OBVIOUS
  <1>1. Screen!Init => ScreenInv
    BY ScreenInit
  <1>2. ScreenInv /\ [Screen!Next]_(Screen!vars) => ScreenInv'
    BY ScreenStep
  <1>3. ScreenInv => Screen!TypeOK
    BY DEF ScreenInv
  <1> QED
    BY <1>1, <1>2, <1>3, PTL DEF Screen!Spec

-----------------------------------------------------------------------------
\* What a command acts on is listed, and on the client screen it is the one
\* selection of grid, toolbar and screen.
Agreeing ==
  /\ Kind = "client" => Screen!ButtonsFollowTheRow
  /\ selected # Screen!Nothing => rows[selected.id] = selected.row

\* Answered, or an error is told: a box of a failed load hides no answer.
Answering == Screen!QuietMeansAnswered /\ (Screen!IsLoading => asked = <<>>)

\* A load that cannot fail, or of a client screen, leaves screen and list in
\* agreement.
LEMMA LoadAgrees ==
  ASSUME Kind = "client" \/ ~MayFail, NEW db, NEW f, NEW s, NEW chosen, NEW keep, NEW rest,
         Screen!Load(db, f, s, chosen, keep, rest)
  PROVE  Agreeing'
  <1>1. CASE Kind = "site" /\ Screen!SitesLoaded(db, f, s, chosen.id)
    BY <1>1, RowFound DEF Screen!SitesLoaded, Screen!ClearSelection, Agreeing
  <1>2. CASE Screen!ClientsLoaded(db, f, s, keep)
    BY <1>2, RowFound DEF Screen!ClientsLoaded, Agreeing, Screen!ButtonsFollowTheRow
  <1>3. CASE Screen!EmptyList
    BY <1>3, RowFound DEF Screen!EmptyList, Screen!ClearSelection, Agreeing,
                          Screen!ButtonsFollowTheRow
  <1> QED
    BY <1>1, <1>2, <1>3 DEF Screen!Load

\* A load answers filter and text, or an error box comes up.
LEMMA LoadAnswers ==
  ASSUME NEW db, NEW f, NEW s, NEW chosen, NEW keep, NEW rest,
         Screen!Load(db, f, s, chosen, keep, rest)
  PROVE  (boxes' = rest /\ asked' = <<f, s>>) \/ asked' = <<>>
  BY DEF Screen!Load, Screen!SitesLoaded, Screen!ClientsLoaded, Screen!SitesNotLoaded,
         Screen!EmptyList

\* Which steps load, and what the others leave alone.
Loads(f, s, rest) ==
  \E db, chosen, keep : Screen!Load(db, f, s, chosen, keep, rest)

LEMMA SavesLoad ==
  ASSUME \/ \E r \in Shown, n \in Names : Screen!CreateRecord(r, n)
         \/ \E n \in Names : Screen!UpdateRecord(n)
         \/ Screen!ArchiveConfirmed \/ Screen!RestoreConfirmed
  PROVE  UNCHANGED <<filter, search, timer>> /\ Loads(filter, search, <<"told">>)
  <1>1. UNCHANGED <<filter, search, timer>>
    BY DEF Screen!CreateRecord, Screen!UpdateRecord, Screen!ArchiveConfirmed,
           Screen!RestoreConfirmed, Screen!SetStatus
  <1>2. ASSUME NEW r \in Shown, NEW n \in Names, Screen!CreateRecord(r, n)
        PROVE  Loads(filter, search, <<"told">>)
    BY <1>2 DEF Screen!CreateRecord, Screen!AfterSaved, Loads
  <1>3. ASSUME NEW n \in Names, Screen!UpdateRecord(n)
        PROVE  Loads(filter, search, <<"told">>)
    BY <1>3 DEF Screen!UpdateRecord, Screen!AfterSaved, Loads
  <1>4. ASSUME NEW box, NEW from, NEW to, Screen!SetStatus(box, from, to)
        PROVE  Loads(filter, search, <<"told">>)
    <2> DEFINE db == [table EXCEPT ![target.id].status = to]
               told == <<"told">>
    <2>1. \/ /\ Kind = "site"
             /\ \/ Screen!SitesLoaded(db, filter, search, target.id) /\ boxes' = told
                \/ /\ MayFail /\ boxes' = <<"error", "told">>
                   /\ Screen!SitesNotLoaded(selected) \/ Screen!EmptyList
          \/ Screen!Load(db, filter, search, Screen!Nothing, FALSE, told)
      BY <1>4 DEF Screen!SetStatus
    <2>2. <<"error">> \o told = <<"error", "told">>
      <3> DEFINE failed == <<"error">> \o told
      <3>1. failed \in Seq({"error", "told"}) /\ Len(failed) = 2
            /\ failed[1] = "error" /\ failed[2] = "told"
        OBVIOUS
      <3> HIDE DEF failed
      <3>2. failed = <<"error", "told">>
        BY <3>1
      <3> QED
        BY <3>2 DEF failed
    <2> HIDE DEF db, told
    <2>3. \/ Screen!Load(db, filter, search, target, TRUE, told)
          \/ Screen!Load(db, filter, search, selected, TRUE, told)
          \/ Screen!Load(db, filter, search, Screen!Nothing, FALSE, told)
      BY <2>1, <2>2 DEF Screen!Load
    <2> QED
      BY <2>3 DEF Loads, told
  <1> QED
    BY <1>1, <1>2, <1>3, <1>4 DEF Screen!ArchiveConfirmed, Screen!RestoreConfirmed

LEMMA OthersKeep ==
  ASSUME \/ \E s \in Texts : Screen!TypeSearch(s)
         \/ Screen!HandleNew \/ Screen!Dismiss \/ Screen!Refused
         \/ \E r \in Shown, x \in Screen!Row : Screen!ForeignChange(r, x)
  PROVE  UNCHANGED <<filter, rows, asked, highlight, selected, button>>
  BY DEF Screen!TypeSearch, Screen!HandleNew, Screen!Dismiss, Screen!Refused,
         Screen!ForeignChange

LEMMA AgreeingStep ==
  ASSUME Kind = "client" \/ ~MayFail, Agreeing, [Screen!Next]_(Screen!vars)
  PROVE  Agreeing'
  <1>1. CASE UNCHANGED <<rows, highlight, selected, button>>
    BY <1>1 DEF Agreeing, Screen!ButtonsFollowTheRow, Screen!RowOf
  <1>2. CASE Screen!RunDebouncedSearch \/ Screen!HandleRefresh
    <2>1. UNCHANGED <<rows, highlight, selected, button>> \/
          \E rest : Screen!Load(table, filter, search, selected, TRUE, rest)
      BY <1>2 DEF Screen!RunDebouncedSearch, Screen!HandleRefresh
    <2> QED
      BY <1>1, <2>1, LoadAgrees
  <1>3. CASE \E f \in Screen!Filters : Screen!HandleStatusChange(f)
    BY <1>3, RowFound DEF Screen!HandleStatusChange, Screen!EmptyList, Screen!ClearSelection,
                          Agreeing, Screen!ButtonsFollowTheRow
  <1>4. CASE \E r \in Shown : Screen!SelectRow(r)
    BY <1>4, RowFound DEF Screen!SelectRow, Agreeing, Screen!ButtonsFollowTheRow
  <1>5. ASSUME NEW box, NEW status, Screen!Open(box, status)
        PROVE  Agreeing'
    <2>1. /\ UNCHANGED <<rows, highlight, button>> /\ selected' = Screen!GetSelected
          /\ Screen!GetSelected # Screen!Nothing
      BY <1>5 DEF Screen!Open
    <2>2. CASE selected # Screen!Nothing
      BY <1>1, <2>1, <2>2 DEF Screen!GetSelected
    <2>3. CASE selected = Screen!Nothing
      <3>1. selected' = Screen!RowOf(rows, highlight)
        BY <2>1, <2>3 DEF Screen!GetSelected
      <3>2. Kind # "client"
        BY <2>1, <2>3, <3>1 DEF Agreeing, Screen!ButtonsFollowTheRow
      <3> QED
        BY <2>1, <3>1, <3>2, RowFound DEF Agreeing
    <2> QED
      BY <2>2, <2>3
  <1>6. CASE \/ \E r \in Shown, n \in Names : Screen!CreateRecord(r, n)
             \/ \E n \in Names : Screen!UpdateRecord(n)
             \/ Screen!ArchiveConfirmed \/ Screen!RestoreConfirmed
    BY <1>6, SavesLoad, LoadAgrees DEF Loads
  <1> QED
    BY <1>1, <1>2, <1>3, <1>4, <1>5, <1>6, OthersKeep
       DEF Screen!Next, Screen!vars, Texts, Screen!HandleEdit, Screen!HandleArchive,
           Screen!HandleRestore

\* The row that is highlighted on the client screen is the record the buttons
\* are enabled for and the commands act on, whatever fails, and also after a
\* client was saved that another user had archived meanwhile; and no screen
\* whose loads do not fail acts on a row that it does not show as it has it.
THEOREM ScreensAgreeWithRows ==
  /\ Screen!Spec /\ Kind = "client" => []Screen!ButtonsFollowTheRow
  /\ Screen!Spec /\ (Kind = "client" \/ ~MayFail) => []Screen!TargetIsShown
  <1>1. ASSUME Kind = "client" \/ ~MayFail
        PROVE  Screen!Spec => []Agreeing
    <2>1. Screen!Init => Agreeing
      BY RowFound DEF Screen!Init, Agreeing, Screen!ButtonsFollowTheRow
    <2>2. Agreeing /\ [Screen!Next]_(Screen!vars) => Agreeing'
      BY <1>1, AgreeingStep
    <2> QED
      BY <2>1, <2>2, PTL DEF Screen!Spec
  <1>2. Agreeing => Screen!TargetIsShown
    BY RowFound DEF Agreeing, Screen!TargetIsShown, Screen!GetSelected
  <1>3. ASSUME Kind = "client"
        PROVE  Screen!Spec => []Screen!ButtonsFollowTheRow
    <2>1. Agreeing => Screen!ButtonsFollowTheRow
      BY <1>3 DEF Agreeing
    <2>2. Screen!Spec => []Agreeing
      BY <1>1, <1>3
    <2> QED
      BY <2>1, <2>2, PTL
  <1>4. ASSUME Kind = "client" \/ ~MayFail
        PROVE  Screen!Spec => []Screen!TargetIsShown
    <2>1. Screen!Spec => []Agreeing
      BY <1>1, <1>4
    <2> QED
      BY <1>2, <2>1, PTL
  <1> QED
    BY <1>3, <1>4

LEMMA NoError ==
  ASSUME NEW open, open = <<>> \/ \E box : box # "error" /\ open = <<box>>
  PROVE  ~ \E i \in DOMAIN open : open[i] = "error"
  OBVIOUS

LEMMA AnsweringStep ==
  ASSUME ScreenInv, Answering, [Screen!Next]_(Screen!vars)
  PROVE  Answering'
  <1>1. CASE /\ UNCHANGED <<filter, asked>> /\ (Screen!IsLoading' => Screen!IsLoading)
             /\ timer' \/ UNCHANGED <<search, timer>>
    BY <1>1 DEF Answering, Screen!QuietMeansAnswered
  <1>2. ASSUME NEW rest, Loads(filter, search, rest), UNCHANGED <<filter, search>>,
               ~ \E i \in DOMAIN rest : rest[i] = "error"
        PROVE  Answering'
    <2>1. (boxes' = rest /\ asked' = <<filter, search>>) \/ asked' = <<>>
      BY <1>2, LoadAnswers DEF Loads
    <2> QED
      BY <1>2, <2>1 DEF Answering, Screen!QuietMeansAnswered, Screen!IsLoading
  <1>3. CASE Screen!RunDebouncedSearch
    <2>1. CASE Screen!IsLoading
      BY <1>3, <2>1 DEF Screen!RunDebouncedSearch, Answering, Screen!QuietMeansAnswered
    <2>2. CASE ~Screen!IsLoading
      <3>1. Loads(filter, search, boxes) /\ UNCHANGED <<filter, search>>
        BY <1>3, <2>2 DEF Screen!RunDebouncedSearch, Loads
      <3> QED
        BY <1>2, <2>2, <3>1 DEF Screen!IsLoading
    <2> QED
      BY <2>1, <2>2
  <1>4. CASE Screen!HandleRefresh
    <2>1. Loads(filter, search, <<>>) /\ UNCHANGED <<filter, search>>
      BY <1>4 DEF Screen!HandleRefresh, Loads
    <2> QED
      BY <1>2, <2>1, NoError
  <1>5. CASE \E f \in Screen!Filters : Screen!HandleStatusChange(f)
    <2>1. /\ search' = search
          /\ (boxes' = <<>> /\ asked' = <<filter', search>>) \/ asked' = <<>>
      BY <1>5 DEF Screen!HandleStatusChange, Screen!EmptyList
    <2>2. boxes' = <<>> => ~Screen!IsLoading'
      BY NoError DEF Screen!IsLoading
    <2> QED
      BY <2>1, <2>2 DEF Answering, Screen!QuietMeansAnswered
  <1>6. CASE \/ \E s \in Texts : Screen!TypeSearch(s)
             \/ \E r \in Shown : Screen!SelectRow(r)
             \/ \E r \in Shown, x \in Screen!Row : Screen!ForeignChange(r, x)
    <2>1. UNCHANGED <<filter, asked, boxes>> /\ (timer' \/ UNCHANGED <<search, timer>>)
      BY <1>6 DEF Screen!TypeSearch, Screen!SelectRow, Screen!ForeignChange
    <2> QED
      BY <1>1, <2>1 DEF Screen!IsLoading
  <1>7. CASE \/ Screen!HandleEdit \/ Screen!HandleArchive \/ Screen!HandleRestore
             \/ Screen!HandleNew \/ Screen!Refused
    <2>1. UNCHANGED <<filter, search, timer, asked>>
          /\ \E box : box # "error" /\ boxes' = <<box>>
      BY <1>7 DEF Screen!HandleEdit, Screen!HandleArchive, Screen!HandleRestore,
                  Screen!Open, Screen!HandleNew, Screen!Refused
    <2>2. ~Screen!IsLoading'
      BY <2>1, NoError DEF Screen!IsLoading
    <2> QED
      BY <1>1, <2>1, <2>2
  <1>8. CASE Screen!Dismiss
    <2>1. UNCHANGED <<filter, search, timer, asked>> /\ boxes # <<>> /\ boxes' = Tail(boxes)
      BY <1>8 DEF Screen!Dismiss
    <2>2. boxes \in Seq(Boxes)
      BY DEF ScreenInv, Screen!TypeOK, Boxes
    <2>3. Screen!IsLoading' => Screen!IsLoading
      BY <2>1, <2>2, BoxesKept DEF Screen!IsLoading
    <2> QED
      BY <1>1, <2>1, <2>3
  <1>9. CASE \/ \E r \in Shown, n \in Names : Screen!CreateRecord(r, n)
             \/ \E n \in Names : Screen!UpdateRecord(n)
             \/ Screen!ArchiveConfirmed \/ Screen!RestoreConfirmed
    <2>1. UNCHANGED <<filter, search, timer>> /\ Loads(filter, search, <<"told">>)
      BY <1>9, SavesLoad
    <2>2. "told" # "error"
      OBVIOUS
    <2> QED
      BY <1>2, <2>1, <2>2, NoError
  <1>10. CASE UNCHANGED Screen!vars
    BY <1>1, <1>10 DEF Screen!vars, Screen!IsLoading
  <1> QED
    BY <1>3, <1>4, <1>5, <1>6, <1>7, <1>8, <1>9, <1>10 DEF Screen!Next, Texts

\* With no search scheduled the grid answers the filter and the text of the
\* toolbar, or the user was told that the load failed.
THEOREM ScreensAnswer ==
  Screen!ScreenAssumption /\ Screen!Spec => []Screen!QuietMeansAnswered
  <1> SUFFICES ASSUME Screen!ScreenAssumption
               PROVE  Screen!Spec => []Screen!QuietMeansAnswered
    OBVIOUS
  <1>1. Screen!Init => ScreenInv /\ Answering
    <2>1. Screen!Init => Answering
      BY NoError DEF Screen!Init, Answering, Screen!QuietMeansAnswered, Screen!IsLoading
    <2> QED
      BY <2>1, ScreenInit
  <1>2. ScreenInv /\ Answering /\ [Screen!Next]_(Screen!vars) => (ScreenInv /\ Answering)'
    BY ScreenStep, AnsweringStep
  <1>3. Answering => Screen!QuietMeansAnswered
    BY DEF Answering
  <1> QED
    BY <1>1, <1>2, <1>3, PTL DEF Screen!Spec

\* A refresh or a search that still lists the selected record keeps it.
THEOREM SelectionsAreKept ==
  Screen!ScreenAssumption /\ Screen!Spec => [][Screen!SelectionKept]_(Screen!vars)
  <1> SUFFICES ASSUME Screen!ScreenAssumption
               PROVE  Screen!Spec => [][Screen!SelectionKept]_(Screen!vars)
    OBVIOUS
  <1> DEFINE OneSelection == Kind = "client" => Screen!ButtonsFollowTheRow
  <1>1. ASSUME ScreenInv, OneSelection, NEW rest, selected # Screen!Nothing,
               Screen!Load(table, filter, search, selected, TRUE, rest)
        PROVE  \/ rows'[selected.id] = Screen!Absent
               \/ asked' = <<>> \/ selected'.id = selected.id
    <2>1. selected \in Held
      BY <1>1, ScreenTypes DEF Holdable
    <2>2. selected.id # NoRecord
      BY <2>1 DEF Held, Screen!ScreenAssumption
    <2>3. CASE Kind = "site" /\ Screen!SitesLoaded(table, filter, search, selected.id)
      BY <2>2, <2>3, RowFound DEF Screen!SitesLoaded
    <2>4. CASE Kind # "site" /\ Screen!ClientsLoaded(table, filter, search, TRUE)
      <3> DEFINE list == Screen!Answer(table, filter, search)
      <3>1. Kind = "client"
        BY <2>4 DEF Screen!ScreenAssumption
      <3>2. selected = Screen!RowOf(rows, highlight)
        BY <1>1, <3>1 DEF Screen!ButtonsFollowTheRow
      <3>3. selected.id = highlight
        BY <1>1, <3>2, RowFound
      <3>4. /\ rows' = list
            /\ selected' = Screen!RowOf(list, Screen!StillListed(list, highlight))
        BY <2>4 DEF Screen!ClientsLoaded
      <3> HIDE DEF list
      <3> QED
        BY <2>2, <3>3, <3>4, RowFound DEF Screen!StillListed
    <2>5. CASE asked' = <<>>
      BY <2>5
    <2> QED
      BY <1>1, <2>3, <2>4, <2>5 DEF Screen!Load, Screen!SitesNotLoaded, Screen!EmptyList
  <1>2. ScreenInv /\ OneSelection /\ [Screen!Next]_(Screen!vars)
          => [Screen!SelectionKept]_(Screen!vars)
    <2> SUFFICES ASSUME ScreenInv, OneSelection,
                        Screen!RunDebouncedSearch \/ Screen!HandleRefresh,
                        selected # Screen!Nothing
                 PROVE  \/ rows'[selected.id] = Screen!Absent
                        \/ asked' = <<>> \/ selected'.id = selected.id
      BY DEF Screen!SelectionKept
    <2>1. \/ selected' = selected
          \/ \E rest : Screen!Load(table, filter, search, selected, TRUE, rest)
      BY DEF Screen!RunDebouncedSearch, Screen!HandleRefresh
    <2> QED
      BY <1>1, <2>1
  <1>3. Screen!Init => ScreenInv
    BY ScreenInit
  <1>4. ScreenInv /\ [Screen!Next]_(Screen!vars) => ScreenInv'
    BY ScreenStep
  <1>5. Screen!Spec => []OneSelection
    <2>1. CASE Kind = "client"
      <3>1. Screen!ButtonsFollowTheRow => OneSelection
        OBVIOUS
      <3>2. Screen!Spec => []Screen!ButtonsFollowTheRow
        BY <2>1, ScreensAgreeWithRows
      <3> HIDE DEF OneSelection
      <3> QED
        BY <3>1, <3>2, PTL
    <2>2. CASE Kind # "client"
      <3>1. OneSelection
        BY <2>2
      <3> HIDE DEF OneSelection
      <3> QED
        BY <3>1, PTL
    <2> QED
      BY <2>1, <2>2
  <1> HIDE DEF OneSelection
  <1> QED
    BY <1>2, <1>3, <1>4, <1>5, PTL DEF Screen!Spec
=============================================================================
