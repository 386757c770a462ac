--------------------------- MODULE Organization_proofs ---------------------------
(***************************************************************************)
(* Accounts and permissions, for any users, roles, clients and calls.      *)
(***************************************************************************)
EXTENDS Accounts, WellFoundedInduction, TLAPS

ColumnNames == {"number", "username", "role", "legacy", "department", "title", "active"}

\* What a call may write into one column.
Value(x) == CASE x = "number" -> Nat
              [] x = "username" -> Usernames
              [] x = "role" -> Roles
              [] x = "legacy" -> Legacies
              [] x = "department" -> Departments
              [] x = "title" -> Titles
              [] x = "active" -> BOOLEAN
IsChange(ch) == DOMAIN ch \subseteq ColumnNames /\ \A x \in DOMAIN ch : ch[x] \in Value(x)

Merged(r, ch) == [x \in DOMAIN r |-> IF x \in DOMAIN ch THEN ch[x] ELSE r[x]]

LEMMA MergedColumns ==
  ASSUME NEW r \in Columns, NEW ch, IsChange(ch)
  PROVE  /\ Merged(r, ch) \in Columns
         /\ \A x \in ColumnNames : Merged(r, ch)[x] = IF x \in DOMAIN ch THEN ch[x] ELSE r[x]
  <1>1. DOMAIN r = ColumnNames
    BY DEF Columns, ColumnNames
  <1>2. \A x \in DOMAIN ch : ch[x] \in Value(x)
    BY DEF IsChange
  <1>3. \A x \in ColumnNames : Merged(r, ch)[x] = IF x \in DOMAIN ch THEN ch[x] ELSE r[x]
    BY <1>1 DEF Merged
  <1>4. Merged(r, ch) = [x \in ColumnNames |-> Merged(r, ch)[x]]
    BY <1>1 DEF Merged
  <1>5. Merged(r, ch) \in Columns
    <2> DEFINE m == Merged(r, ch)
    <2>1. m.number \in Nat
      BY <1>2, <1>3 DEF ColumnNames, Columns, Value
    <2>2. m.username \in Usernames
      BY <1>2, <1>3 DEF ColumnNames, Columns, Value
    <2>3. m.role \in Roles \cup {None} /\ m.legacy \in Legacies \cup {None}
      BY <1>2, <1>3 DEF ColumnNames, Columns, Value
    <2>4. m.department \in Departments \cup {None} /\ m.title \in Titles \cup {None}
      BY <1>2, <1>3 DEF ColumnNames, Columns, Value
    <2>5. m.active \in BOOLEAN
      BY <1>2, <1>3 DEF ColumnNames, Columns, Value
    <2>6. m = [number |-> m.number, username |-> m.username, role |-> m.role,
               legacy |-> m.legacy, department |-> m.department, title |-> m.title,
               active |-> m.active]
      BY <1>4 DEF ColumnNames
    <2> HIDE DEF m
    <2> QED
      <3>1. m \in Columns
        BY <2>1, <2>2, <2>3, <2>4, <2>5, <2>6 DEF Columns
      <3> QED
        BY <3>1 DEF m
  <1> QED
    BY <1>3, <1>5

\* What the row of an account is when its call is written.
Row(k) == IF account[k.user] = None THEN k.changes
          ELSE Merged(account[k.user], k.changes)

\* A call writes columns; all of them, if the account is new; and the role and
\* its legacy text together.
CallSound(k) ==
  k # None =>
    /\ k.user \in Users /\ IsChange(k.changes)
    /\ k.user \notin Accounts => k.changes \in Columns
    /\ "role" \in DOMAIN k.changes <=> "legacy" \in DOMAIN k.changes
    /\ "role" \in DOMAIN k.changes => k.changes.legacy = LegacyOf[k.changes.role]

\* Nobody else has a call for an account that is being created.
OneCreator ==
  \A c, d \in Clients :
    /\ c # d /\ call[c] # None /\ call[d] # None
    /\ call[c].user \notin Accounts
    => call[d].user # call[c].user

\* Nothing but a call adds to the numbers.
NumbersBounded ==
  /\ \A u \in Accounts : account[u].number <= 3 + calls
  /\ \A c \in Clients : call[c] # None /\ "number" \in DOMAIN call[c].changes
       => call[c].changes.number <= 3 + calls

AccountsInv ==
  /\ TypeOK /\ OneCreator /\ NumbersBounded /\ LegacyRoleAgrees
  /\ \A c \in Clients : CallSound(call[c])

-----------------------------------------------------------------------------
(* Numbers.                                                                *)

\* A nonempty set of numbers that is bounded has a maximum.
LEMMA BoundedMax ==
  ASSUME NEW S \in SUBSET Nat, NEW n \in S, NEW b \in Nat, \A x \in S : x <= b
  PROVE  Max(S) \in S /\ \A x \in S : x <= Max(S)
  <1> DEFINE B == {y \in Nat : \A x \in S : x <= y}
  <1>1. PICK m \in B : \A y \in B : <<y, m>> \notin OpToRel(<, Nat)
    <2>1. b \in B /\ B \subseteq Nat
      OBVIOUS
    <2> HIDE DEF B
    <2> QED
      BY <2>1, WFMin, NatLessThanWellFounded, Zenon
  <1>2. m \in Nat /\ \A x \in S : x \in Nat /\ x <= m
    BY <1>1
  <1>3. m \in S
    <2> SUFFICES ASSUME m \notin S PROVE FALSE
      OBVIOUS
    <2>1. \A x \in S : x <= m - 1
      BY <1>2
    <2>2. m - 1 \in Nat
      BY <1>2, <2>1
    <2>3. m - 1 \in B
      BY <2>1, <2>2
    <2>4. <<m - 1, m>> \in OpToRel(<, Nat)
      BY <1>2, <2>2 DEF OpToRel
    <2> QED
      BY <1>1, <2>3, <2>4
  <1>4. \E x \in S : \A y \in S : x >= y
    BY <1>2, <1>3
  <1> QED
    BY <1>4 DEF Max

\* The number of a new account is above all others.
LEMMA NextIsNew ==
  ASSUME AccountsInv
  PROVE  /\ NextNumber \in Nat /\ NextNumber <= 4 + calls
         /\ \A u \in Accounts : account[u].number < NextNumber
  <1> DEFINE S == {account[u].number : u \in Accounts} \cup {0}
  <1>1. \A u \in Accounts : account[u].number \in Nat /\ account[u].number <= 3 + calls
    BY DEF AccountsInv, TypeOK, Accounts, Columns, NumbersBounded
  <1>2. calls \in Nat
    BY DEF AccountsInv, TypeOK
  <1>3. S \in SUBSET Nat /\ 0 \in S /\ 3 + calls \in Nat /\ \A x \in S : x <= 3 + calls
    BY <1>1, <1>2
  <1>4. NextNumber = Max(S) + 1
    BY DEF NextNumber
  <1>5. \A u \in Accounts : account[u].number \in S
    OBVIOUS
  <1> HIDE DEF S
  <1>6. Max(S) \in S /\ \A x \in S : x <= Max(S)
    BY <1>3, BoundedMax
  <1>7. Max(S) \in Nat /\ Max(S) <= 3 + calls
    BY <1>3, <1>6
  <1>8. NextNumber \in Nat /\ NextNumber <= 4 + calls
    BY <1>2, <1>4, <1>7
  <1>9. ASSUME NEW u \in Accounts PROVE account[u].number < NextNumber
    <2>1. account[u].number <= Max(S)
      BY <1>5, <1>6
    <2> QED
      BY <1>1, <1>4, <1>7, <2>1
  <1> QED
    BY <1>8, <1>9

-----------------------------------------------------------------------------
(* What the service's checks let through.                                  *)

\* Called, by a call that is sound and apart from the others.
LEMMA CallMade ==
  ASSUME OrganizationAssumption, AccountsInv, NEW c \in Clients, NEW k,
         Called(c, k), calls < MaxCalls, CallSound(k),
         k # None /\ "number" \in DOMAIN k.changes => k.changes.number <= 4 + calls,
         \A d \in Clients \ {c} : k # None /\ call[d] # None /\ k.user \notin Accounts
           => call[d].user # k.user
  PROVE  AccountsInv'
  <1>1. /\ call' = [call EXCEPT ![c] = k] /\ calls' = calls + 1
        /\ account' = account /\ session' = session
    BY DEF Called
  <1>2. DOMAIN call' = Clients /\ \A d \in Clients : call'[d] = IF d = c THEN k ELSE call[d]
    BY <1>1 DEF AccountsInv, TypeOK
  <1>3. Accounts' = Accounts
    BY <1>1 DEF Accounts
  <1>4. calls' \in 0..MaxCalls
    BY <1>1 DEF AccountsInv, TypeOK, OrganizationAssumption
  <1>5. TypeOK'
    BY <1>1, <1>2, <1>3, <1>4 DEF AccountsInv, TypeOK, CallSound
  <1>6. OneCreator'
    BY <1>2, <1>3 DEF AccountsInv, OneCreator
  <1>7. LegacyRoleAgrees'
    BY <1>1, <1>3 DEF AccountsInv, LegacyRoleAgrees
  <1>8. \A d \in Clients : CallSound(call[d])'
    BY <1>2, <1>3 DEF AccountsInv, CallSound
  <1>9. NumbersBounded'
    <2>1. calls \in Nat /\ \A u \in Accounts : account[u].number \in Nat
      BY DEF AccountsInv, TypeOK, Accounts, Columns
    <2>2. \A d \in Clients : call[d] # None /\ "number" \in DOMAIN call[d].changes
            => call[d].changes.number \in Nat
      BY DEF AccountsInv, CallSound, IsChange, Value
    <2> QED
      BY <1>1, <1>2, <1>3, <2>1, <2>2 DEF AccountsInv, NumbersBounded
  <1> QED
    BY <1>5, <1>6, <1>7, <1>8, <1>9 DEF AccountsInv

LEMMA LegacyOfRole ==
  ASSUME OrganizationAssumption, NEW role \in Roles PROVE LegacyOf[role] \in Legacies
  BY DEF OrganizationAssumption, Legacies, Range

LEMMA CreateStep ==
  ASSUME OrganizationAssumption, AccountsInv, NEW c \in Clients, NEW u \in Users,
         NEW name \in Usernames, NEW role \in Roles, NEW department \in Departments,
         NEW title \in Titles, CheckCreate(c, u, name, role, department, title)
  PROVE  AccountsInv'
  <1> DEFINE ch == [number |-> NextNumber, username |-> name, role |-> role,
                    legacy |-> LegacyOf[role], department |-> department, title |-> title,
                    active |-> TRUE]
             k == [user |-> u, changes |-> ch]
  <1>1. Called(c, k) /\ calls < MaxCalls /\ u \notin Accounts
        /\ \A d \in Clients : call[d] # None => call[d].user # u
    BY DEF CheckCreate, MayCall
  <1>0. NextNumber \in Nat /\ NextNumber <= 4 + calls
    BY NextIsNew
  <1>2. DOMAIN ch = ColumnNames /\ ch.number = NextNumber
    BY DEF ColumnNames
  <1>3. \A x \in ColumnNames : ch[x] \in Value(x)
    <2>1. ch["number"] \in Value("number") /\ ch["username"] \in Value("username")
      BY <1>0 DEF Value
    <2>2. ch["role"] \in Value("role") /\ ch["legacy"] \in Value("legacy")
      BY LegacyOfRole DEF Value
    <2>3. ch["department"] \in Value("department") /\ ch["title"] \in Value("title")
      BY DEF Value
    <2>4. ch["active"] \in Value("active")
      BY DEF Value
    <2> QED
      BY <2>1, <2>2, <2>3, <2>4 DEF ColumnNames
  <1>4. ch \in Columns
    BY <1>0, LegacyOfRole DEF Columns
  <1>5. ch.legacy = LegacyOf[ch.role] /\ "role" \in DOMAIN ch /\ "legacy" \in DOMAIN ch
    BY <1>2 DEF ColumnNames
  <1> HIDE DEF ch
  <1>6. k.user = u /\ k.changes = ch
    OBVIOUS
  <1>7. CallSound(k)
    BY <1>2, <1>3, <1>4, <1>5, <1>6 DEF CallSound, IsChange
  <1> HIDE DEF k
  <1> QED
    BY <1>0, <1>1, <1>2, <1>6, <1>7, CallMade

\* The columns that an update writes.
LEMMA UpdateStep ==
  ASSUME OrganizationAssumption, AccountsInv, NEW c \in Clients, NEW u \in Users,
         NEW name \in Usernames, NEW role \in Roles, NEW department \in Departments,
         NEW title \in Titles, CheckUpdate(c, u, name, role, department, title)
  PROVE  AccountsInv'
  <1> DEFINE new == [username |-> name, role |-> role, legacy |-> LegacyOf[role],
                     department |-> department, title |-> title]
             columns == RoleColumns(u, role) \cup
                        {x \in {"username", "department", "title"} : ~Same(u, x, new[x])}
             ch == Restrict(new, columns)
             k == [user |-> u, changes |-> ch]
  <1>1. Called(c, k) /\ calls < MaxCalls /\ u \in Accounts
    BY DEF CheckUpdate, MayCall
  <1>2. columns \subseteq ColumnNames \ {"number", "active"}
    BY DEF RoleColumns, ColumnNames
  <1>3. \A x \in ColumnNames \ {"number", "active"} : new[x] \in Value(x)
    BY LegacyOfRole DEF ColumnNames, Value
  <1>4. "role" \in columns <=> "legacy" \in columns
    BY DEF RoleColumns
  <1>5. new.legacy = LegacyOf[new.role]
    OBVIOUS
  <1> HIDE DEF new, columns
  <1>6. DOMAIN ch = columns /\ \A x \in columns : ch[x] = new[x]
    BY DEF Restrict
  <1>7. IsChange(ch)
    BY <1>2, <1>3, <1>6 DEF IsChange
  <1>8. "role" \in DOMAIN ch => ch.legacy = LegacyOf[ch.role]
    BY <1>4, <1>5, <1>6
  <1> HIDE DEF ch
  <1>9. k.user = u /\ k.changes = ch
    OBVIOUS
  <1>10. CallSound(k)
    BY <1>1, <1>4, <1>6, <1>7, <1>8, <1>9 DEF CallSound
  <1> HIDE DEF k
  <1> QED
    BY <1>1, <1>2, <1>6, <1>9, <1>10, CallMade

LEMMA ToggleStep ==
  ASSUME OrganizationAssumption, AccountsInv, NEW c \in Clients, NEW u \in Users,
         CheckToggle(c, u)
  PROVE  AccountsInv'
  <1> DEFINE ch == [active |-> ~account[u].active]
             k == [user |-> u, changes |-> ch]
  <1>1. Called(c, k) /\ calls < MaxCalls /\ u \in Accounts
    BY DEF CheckToggle, MayCall
  <1>2. DOMAIN ch = {"active"} /\ ch["active"] \in Value("active")
    BY DEF Value
  <1>3. IsChange(ch)
    BY <1>2 DEF IsChange, ColumnNames
  <1> HIDE DEF ch
  <1>4. k.user = u /\ k.changes = ch
    OBVIOUS
  <1>5. CallSound(k)
    BY <1>1, <1>2, <1>3, <1>4 DEF CallSound
  <1> HIDE DEF k
  <1> QED
    BY <1>1, <1>2, <1>4, <1>5, CallMade

-----------------------------------------------------------------------------
(* What a write leaves.                                                    *)

LEMMA Written ==
  ASSUME OrganizationAssumption, AccountsInv, NEW c \in Clients, Write(c)
  PROVE  LET k == call[c] IN
         /\ k # None /\ k.user \in Users /\ Row(k) \in Columns
         /\ account' = [account EXCEPT ![k.user] = Row(k)]
         /\ Accounts' = Accounts \cup {k.user}
         /\ \A u \in Users : account'[u] = IF u = k.user THEN Row(k) ELSE account[u]
         /\ call' = [call EXCEPT ![c] = None] /\ UNCHANGED <<session, calls>>
         /\ k.user \in Accounts => Row(k) = Merged(account[k.user], k.changes)
         /\ k.user \notin Accounts => Row(k) = k.changes
  <1> DEFINE k == call[c]
  <1>1. k # None /\ call' = [call EXCEPT ![c] = None] /\ UNCHANGED <<session, calls>>
    BY DEF Write
  <1>2. CallSound(k)
    BY DEF AccountsInv
  <1>3. k.user \in Users /\ account \in [Users -> Columns \cup {None}]
    BY <1>1, <1>2 DEF CallSound, AccountsInv, TypeOK
  <1>4. account' = [account EXCEPT ![k.user] = Row(k)]
    BY <1>3 DEF Write, Row, Merged
  <1>5. Row(k) \in Columns
    <2>1. CASE k.user \in Accounts
      BY <1>1, <1>2, <1>3, <2>1, MergedColumns DEF Row, CallSound, Accounts
    <2>2. CASE k.user \notin Accounts
      BY <1>1, <1>2, <1>3, <2>2 DEF Row, CallSound, Accounts
    <2> QED
      BY <2>1, <2>2
  <1>6. Row(k) # None
    BY <1>5 DEF OrganizationAssumption
  <1>7. \A u \in Users : account'[u] = IF u = k.user THEN Row(k) ELSE account[u]
    BY <1>3, <1>4
  <1>8. Accounts' = Accounts \cup {k.user}
    BY <1>3, <1>6, <1>7 DEF Accounts
  <1>9. k.user \in Accounts => Row(k) = Merged(account[k.user], k.changes)
    BY DEF Row, Accounts
  <1>10. k.user \notin Accounts => Row(k) = k.changes
    BY <1>3 DEF Row, Accounts
  <1> QED
    BY <1>1, <1>3, <1>4, <1>5, <1>7, <1>8, <1>9, <1>10

LEMMA WriteStep ==
  ASSUME OrganizationAssumption, AccountsInv, NEW c \in Clients, Write(c)
  PROVE  AccountsInv'
  <1> DEFINE k == call[c]
             r == Row(k)
  <1>1. /\ k # None /\ k.user \in Users /\ r \in Columns
        /\ account' = [account EXCEPT ![k.user] = r]
        /\ Accounts' = Accounts \cup {k.user}
        /\ \A u \in Users : account'[u] = IF u = k.user THEN r ELSE account[u]
        /\ call' = [call EXCEPT ![c] = None] /\ UNCHANGED <<session, calls>>
        /\ k.user \in Accounts => r = Merged(account[k.user], k.changes)
        /\ k.user \notin Accounts => r = k.changes
    BY Written
  <1>2. CallSound(k) /\ account \in [Users -> Columns \cup {None}]
    BY DEF AccountsInv, TypeOK
  <1>3. DOMAIN call' = Clients /\ \A d \in Clients : call'[d] = IF d = c THEN None ELSE call[d]
    BY <1>1 DEF AccountsInv, TypeOK
  <1>4. TypeOK'
    <2>1. account' \in [Users -> Columns \cup {None}]
      BY <1>1, <1>2
    <2>2. session' \in [Clients -> [user : Accounts', role : Roles \cup {None}] \cup {None}]
      BY <1>1 DEF AccountsInv, TypeOK
    <2> QED
      BY <1>1, <1>3, <2>1, <2>2 DEF AccountsInv, TypeOK
  <1>5. OneCreator'
    BY <1>1, <1>3 DEF AccountsInv, OneCreator
  <1>6. r.role # None => r.legacy = LegacyOf[r.role]
    <2>1. CASE k.user \in Accounts
      <3>1. account[k.user] \in Columns
        BY <1>1, <1>2, <2>1 DEF Accounts
      <3>2. \A x \in {"role", "legacy"} :
              r[x] = IF x \in DOMAIN k.changes THEN k.changes[x] ELSE account[k.user][x]
        BY <1>1, <1>2, <2>1, <3>1, MergedColumns DEF CallSound, ColumnNames
      <3>3. account[k.user].role # None => account[k.user].legacy = LegacyOf[account[k.user].role]
        BY <2>1 DEF AccountsInv, LegacyRoleAgrees
      <3> QED
        BY <1>1, <1>2, <3>2, <3>3 DEF CallSound
    <2>2. CASE k.user \notin Accounts
      <3>1. "role" \in DOMAIN k.changes
        BY <1>1, <1>2, <2>2 DEF CallSound, Columns
      <3> QED
        BY <1>1, <1>2, <2>2, <3>1 DEF CallSound
    <2> QED
      BY <2>1, <2>2
  <1> HIDE DEF r
  <1>7. LegacyRoleAgrees'
    <2> SUFFICES ASSUME NEW u \in Accounts', account'[u].role # None
                 PROVE  account'[u].legacy = LegacyOf[account'[u].role]
      BY DEF LegacyRoleAgrees
    <2>1. u \in Users
      BY DEF Accounts
    <2>2. CASE u = k.user
      BY <1>1, <1>6, <2>1, <2>2
    <2>3. CASE u # k.user
      BY <1>1, <2>1, <2>3 DEF AccountsInv, LegacyRoleAgrees
    <2> QED
      BY <2>2, <2>3
  <1>8. \A d \in Clients : CallSound(call[d])'
    <2> SUFFICES ASSUME NEW d \in Clients, d # c, call[d] # None
                 PROVE  CallSound(call[d])'
      BY <1>3 DEF CallSound
    <2>1. CallSound(call[d]) /\ call'[d] = call[d]
      BY <1>3 DEF AccountsInv
    <2> QED
      BY <1>1, <2>1 DEF CallSound
  <1>9. r.number <= 3 + calls
    <2>1. CASE k.user \in Accounts
      <3>1. account[k.user] \in Columns /\ account[k.user].number <= 3 + calls
        BY <1>1, <1>2, <2>1 DEF Accounts, AccountsInv, NumbersBounded
      <3>2. r.number = IF "number" \in DOMAIN k.changes THEN k.changes.number
                       ELSE account[k.user].number
        BY <1>1, <1>2, <2>1, <3>1, MergedColumns DEF CallSound, ColumnNames
      <3> QED
        BY <1>1, <3>1, <3>2 DEF AccountsInv, NumbersBounded
    <2>2. CASE k.user \notin Accounts
      BY <1>1, <1>2, <2>2 DEF CallSound, Columns, AccountsInv, NumbersBounded
    <2> QED
      BY <2>1, <2>2
  <1>10. NumbersBounded'
    BY <1>1, <1>3, <1>9 DEF Accounts, AccountsInv, NumbersBounded
  <1> QED
    BY <1>4, <1>5, <1>7, <1>8, <1>10 DEF AccountsInv

LEMMA AccountsStep ==
  ASSUME OrganizationAssumption, AccountsInv, [Next]_vars PROVE AccountsInv'
  <1>1. CASE UNCHANGED vars
    <2>1. \A k : CallSound(k)' <=> CallSound(k)
      BY <1>1 DEF vars, CallSound, Accounts
    <2> QED
      BY <1>1, <2>1 DEF vars, AccountsInv, TypeOK, OneCreator, NumbersBounded,
         LegacyRoleAgrees, Accounts
  <1>2. ASSUME NEW c \in Clients, NEW u \in Users, SignIn(c, u)
        PROVE  AccountsInv'
    <2>1. /\ u \in Accounts /\ UNCHANGED <<account, call, calls>> /\ Accounts' = Accounts
          /\ session' = [session EXCEPT ![c] = [user |-> u, role |-> account[u].role]]
      BY <1>2 DEF SignIn, Accounts
    <2>2. account[u].role \in Roles \cup {None}
      BY <2>1 DEF AccountsInv, TypeOK, Accounts, Columns
    <2>3. TypeOK'
      BY <2>1, <2>2 DEF AccountsInv, TypeOK
    <2>4. \A k : CallSound(k)' <=> CallSound(k)
      BY <2>1 DEF CallSound
    <2> QED
      BY <2>1, <2>3, <2>4 DEF AccountsInv, OneCreator, NumbersBounded, LegacyRoleAgrees
  <1>3. ASSUME NEW c \in Clients, SignOut(c)
        PROVE  AccountsInv'
    <2>1. /\ UNCHANGED <<account, call, calls>> /\ Accounts' = Accounts
          /\ session' = [session EXCEPT ![c] = None]
      BY <1>3 DEF SignOut, Accounts
    <2>2. TypeOK'
      BY <2>1 DEF AccountsInv, TypeOK
    <2>3. \A k : CallSound(k)' <=> CallSound(k)
      BY <2>1 DEF CallSound
    <2> QED
      BY <2>1, <2>2, <2>3 DEF AccountsInv, OneCreator, NumbersBounded, LegacyRoleAgrees
  <1>4. ASSUME NEW c \in Clients, Fail(c)
        PROVE  AccountsInv'
    <2>1. /\ UNCHANGED <<account, session, calls>> /\ Accounts' = Accounts
          /\ call' = [call EXCEPT ![c] = None]
      BY <1>4 DEF Fail, Accounts
    <2>2. TypeOK'
      BY <2>1 DEF AccountsInv, TypeOK
    <2>3. \A k : CallSound(k)' <=> CallSound(k)
      BY <2>1 DEF CallSound
    <2>4. \A d \in Clients : call'[d] = IF d = c THEN None ELSE call[d]
      BY <2>1 DEF AccountsInv, TypeOK
    <2>5. \A d \in Clients : CallSound(call'[d])
      BY <2>4 DEF AccountsInv, CallSound
    <2> QED
      BY <2>1, <2>2, <2>3, <2>4, <2>5
         DEF AccountsInv, OneCreator, NumbersBounded, LegacyRoleAgrees
  <1> QED
    BY <1>1, <1>2, <1>3, <1>4, CreateStep, UpdateStep, ToggleStep, WriteStep DEF Next

LEMMA AccountsInit ==
  ASSUME OrganizationAssumption, Init
  PROVE  /\ AccountsInv /\ AccountsDistinct /\ TitleInDepartment
         /\ \A c \in Clients : call[c] = None
  <1>1. PICK manager \in Users, old \in Users, role \in ManagerRoles, title \in Titles,
             names \in [Users -> Usernames], legacy \in Legacies :
          /\ manager # old /\ names[manager] # names[old]
          /\ account = [u \in Users |->
               CASE u = manager ->
                      [number |-> 3, username |-> names[u], role |-> role,
                       legacy |-> LegacyOf[role], title |-> title,
                       department |-> DepartmentOf[title], active |-> TRUE]
                 [] u = old ->
                      [number |-> 1, username |-> names[u], role |-> None,
                       legacy |-> legacy, title |-> None, department |-> None,
                       active |-> TRUE]
                 [] OTHER -> None]
    BY DEF Init
  <1>2. /\ account[manager] = [number |-> 3, username |-> names[manager], role |-> role,
                       legacy |-> LegacyOf[role], title |-> title,
                       department |-> DepartmentOf[title], active |-> TRUE]
        /\ account[old] = [number |-> 1, username |-> names[old], role |-> None,
                       legacy |-> legacy, title |-> None, department |-> None,
                       active |-> TRUE]
        /\ \A u \in Users \ {manager, old} : account[u] = None
        /\ account = [u \in Users |-> account[u]]
    BY <1>1
  <1>3. role \in Roles /\ LegacyOf[role] \in Legacies /\ DepartmentOf[title] \in Departments
    BY LegacyOfRole DEF OrganizationAssumption
  <1>4. account[manager] \in Columns /\ account[old] \in Columns
    BY <1>2, <1>3 DEF Columns
  <1>5. Accounts = {manager, old}
    BY <1>2, <1>4 DEF Accounts, OrganizationAssumption
  <1>6. calls = 0 /\ session = [c \in Clients |-> None] /\ call = [c \in Clients |-> None]
    BY DEF Init
  <1>7. account \in [Users -> Columns \cup {None}]
    BY <1>2, <1>4
  <1>8. TypeOK
    BY <1>6, <1>7 DEF TypeOK, OrganizationAssumption
  <1>9. LegacyRoleAgrees
    BY <1>2, <1>5 DEF LegacyRoleAgrees
  <1>10. NumbersBounded
    BY <1>2, <1>5, <1>6 DEF NumbersBounded
  <1>11. AccountsDistinct /\ TitleInDepartment
    BY <1>1, <1>2, <1>5 DEF AccountsDistinct, TitleInDepartment
  <1> QED
    BY <1>6, <1>8, <1>9, <1>10, <1>11 DEF AccountsInv, OneCreator, CallSound

\* Accounts keep their types and are never lost, whatever calls overlap.
THEOREM AccountsTyped ==
  ASSUME OrganizationAssumption PROVE Spec => []TypeOK
  <1>1. Init => AccountsInv
    BY AccountsInit
  <1>2. AccountsInv /\ [Next]_vars => AccountsInv'
    BY AccountsStep
  <1>3. AccountsInv => TypeOK
    BY DEF AccountsInv
  <1> QED
    BY <1>1, <1>2, <1>3, PTL DEF Spec

\* The legacy text is that of the role, whatever calls overlap.
THEOREM LegacyFollows ==
  ASSUME OrganizationAssumption PROVE Spec => []LegacyRoleAgrees
  <1>1. Init => AccountsInv
    BY AccountsInit
  <1>2. AccountsInv /\ [Next]_vars => AccountsInv'
    BY AccountsStep
  <1>3. AccountsInv => LegacyRoleAgrees
    BY DEF AccountsInv
  <1> QED
    BY <1>1, <1>2, <1>3, PTL DEF Spec

-----------------------------------------------------------------------------
(* Calls one after the other.                                              *)

\* The row that a call will write does not clash with the others.
RowFits(k) ==
  /\ \A v \in Accounts \ {k.user} : /\ account[v].username # Row(k).username
                                   /\ account[v].number # Row(k).number
  /\ Row(k).title # None => DepartmentOf[Row(k).title] = Row(k).department

AloneInv ==
  /\ AccountsInv /\ AccountsDistinct /\ TitleInDepartment
  /\ \A c, d \in Clients : call[c] # None /\ call[d] # None => c = d
  /\ \A c \in Clients : call[c] # None => RowFits(call[c])

LEMMA AloneCalled ==
  ASSUME AloneInv, AccountsInv', ~Overlap, NEW c \in Clients, NEW k,
         MayCall(c), Called(c, k), RowFits(k)
  PROVE  AloneInv'
  <1>1. /\ account' = account /\ Accounts' = Accounts
        /\ \A d \in Clients : call'[d] = IF d = c THEN k ELSE call[d]
    BY DEF Called, Accounts, AloneInv, AccountsInv, TypeOK
  <1>2. \A d \in Clients : call[d] = None
    BY DEF MayCall
  <1>3. RowFits(k)'
    BY <1>1 DEF RowFits, Row
  <1> QED
    BY <1>1, <1>2, <1>3 DEF AloneInv, AccountsDistinct, TitleInDepartment

LEMMA AloneCreate ==
  ASSUME OrganizationAssumption, AloneInv, ~Overlap, NEW c \in Clients, NEW u \in Users,
         NEW name \in Usernames, NEW role \in Roles, NEW department \in Departments,
         NEW title \in Titles, CheckCreate(c, u, name, role, department, title)
  PROVE  AloneInv'
  <1> DEFINE ch == [number |-> NextNumber, username |-> name, role |-> role,
                    legacy |-> LegacyOf[role], department |-> department, title |-> title,
                    active |-> TRUE]
             k == [user |-> u, changes |-> ch]
  <1>1. Called(c, k) /\ MayCall(c) /\ u \notin Accounts /\ Belongs(department, title)
        /\ ~UsernameExists(name, None)
    BY DEF CheckCreate
  <1>2. account[u] = None
    BY <1>1 DEF Accounts
  <1>3. Row(k) = ch
    BY <1>2 DEF Row
  <1>4. \A v \in Accounts : account[v].username # name
    BY <1>1 DEF UsernameExists, Accounts, OrganizationAssumption
  <1>5. \A v \in Accounts : account[v].number # NextNumber
    <2>1. \A v \in Accounts : account[v].number \in Nat
      BY DEF AloneInv, AccountsInv, TypeOK, Accounts, Columns
    <2> QED
      BY <2>1, NextIsNew DEF AloneInv
  <1>6. ch.title = title /\ ch.department = department /\ ch.username = name
        /\ ch.number = NextNumber
    OBVIOUS
  <1> HIDE DEF ch, k
  <1>7. RowFits(k)
    BY <1>1, <1>3, <1>4, <1>5, <1>6 DEF RowFits, Belongs
  <1>8. AccountsInv'
    BY CreateStep DEF AloneInv
  <1> QED
    BY <1>1, <1>7, <1>8, AloneCalled

LEMMA AloneUpdate ==
  ASSUME OrganizationAssumption, AloneInv, ~Overlap, NEW c \in Clients, NEW u \in Users,
         NEW name \in Usernames, NEW role \in Roles, NEW department \in Departments,
         NEW title \in Titles, CheckUpdate(c, u, name, role, department, title)
  PROVE  AloneInv'
  <1> DEFINE new == [username |-> name, role |-> role, legacy |-> LegacyOf[role],
                     department |-> department, title |-> title]
             columns == RoleColumns(u, role) \cup
                        {x \in {"username", "department", "title"} : ~Same(u, x, new[x])}
             ch == Restrict(new, columns)
             k == [user |-> u, changes |-> ch]
  <1>1. Called(c, k) /\ MayCall(c) /\ u \in Accounts /\ Belongs(department, title)
        /\ ~UsernameExists(name, u)
    BY DEF CheckUpdate
  <1>2. columns \subseteq ColumnNames \ {"number", "active"}
    BY DEF RoleColumns, ColumnNames
  <1>3. \A x \in {"username", "department", "title"} :
          x \notin columns => account[u][x] = new[x]
    BY DEF Same
  <1>4. new.username = name /\ new.department = department /\ new.title = title
    OBVIOUS
  <1>5. \A x \in ColumnNames \ {"number", "active"} : new[x] \in Value(x)
    BY LegacyOfRole DEF ColumnNames, Value
  <1> HIDE DEF new, columns
  <1>6. DOMAIN ch = columns /\ \A x \in columns : ch[x] = new[x]
    BY DEF Restrict
  <1>7. IsChange(ch)
    BY <1>2, <1>5, <1>6 DEF IsChange
  <1> HIDE DEF ch
  <1>8. account[u] \in Columns /\ account[u] # None
    BY <1>1 DEF AloneInv, AccountsInv, TypeOK, Accounts
  <1>9. \A x \in ColumnNames : Row(k)[x] = IF x \in columns THEN new[x] ELSE account[u][x]
    BY <1>6, <1>7, <1>8, MergedColumns DEF Row, IsChange
  <1>10. k.user = u
    OBVIOUS
  <1> HIDE DEF k
  <1>11. Row(k).username = name /\ Row(k).department = department /\ Row(k).title = title
    BY <1>3, <1>4, <1>9 DEF ColumnNames
  <1>12. Row(k).number = account[u].number
    BY <1>2, <1>9 DEF ColumnNames
  <1>13. RowFits(k)
    BY <1>1, <1>10, <1>11, <1>12 DEF RowFits, Belongs, UsernameExists, AloneInv,
       AccountsDistinct
  <1>14. AccountsInv'
    BY UpdateStep DEF AloneInv
  <1> QED
    BY <1>1, <1>13, <1>14, AloneCalled

LEMMA AloneToggle ==
  ASSUME OrganizationAssumption, AloneInv, ~Overlap, NEW c \in Clients, NEW u \in Users,
         CheckToggle(c, u)
  PROVE  AloneInv'
  <1> DEFINE ch == [active |-> ~account[u].active]
             k == [user |-> u, changes |-> ch]
  <1>1. Called(c, k) /\ MayCall(c) /\ u \in Accounts
    BY DEF CheckToggle
  <1>0. DOMAIN ch = {"active"} /\ ch["active"] \in Value("active")
    BY DEF Value
  <1>2. IsChange(ch)
    BY <1>0 DEF IsChange, ColumnNames
  <1>3. account[u] \in Columns /\ account[u] # None
    BY <1>1 DEF AloneInv, AccountsInv, TypeOK, Accounts
  <1> HIDE DEF ch
  <1>4. \A x \in {"username", "number", "title", "department"} : Row(k)[x] = account[u][x]
    BY <1>0, <1>2, <1>3, MergedColumns DEF Row, ColumnNames
  <1>5. k.user = u
    OBVIOUS
  <1> HIDE DEF k
  <1>6. RowFits(k)
    BY <1>1, <1>4, <1>5 DEF RowFits, AloneInv, AccountsDistinct, TitleInDepartment
  <1>7. AccountsInv'
    BY ToggleStep DEF AloneInv
  <1> QED
    BY <1>1, <1>6, <1>7, AloneCalled

LEMMA AloneWrite ==
  ASSUME OrganizationAssumption, AloneInv, NEW c \in Clients, Write(c)
  PROVE  AloneInv'
  <1> DEFINE k == call[c]
  <1>1. /\ k # None /\ k.user \in Users
        /\ Accounts' = Accounts \cup {k.user}
        /\ \A u \in Users : account'[u] = IF u = k.user THEN Row(k) ELSE account[u]
    BY Written DEF AloneInv
  <1>2. \A d \in Clients : call'[d] = None
    BY <1>1, Written DEF AloneInv, AccountsInv, TypeOK
  <1>3. RowFits(k)
    BY <1>1 DEF AloneInv
  <1>4. Accounts \subseteq Users
    BY DEF Accounts
  <1> HIDE DEF k
  <1>5. AccountsDistinct'
    BY <1>1, <1>3, <1>4 DEF AloneInv, AccountsDistinct, RowFits
  <1>6. TitleInDepartment'
    BY <1>1, <1>3, <1>4 DEF AloneInv, TitleInDepartment, RowFits
  <1>7. AccountsInv'
    BY WriteStep DEF AloneInv
  <1> QED
    BY <1>2, <1>5, <1>6, <1>7 DEF AloneInv

LEMMA AloneStep ==
  ASSUME OrganizationAssumption, ~Overlap, AloneInv, [Next]_vars PROVE AloneInv'
  <1>1. CASE UNCHANGED <<account, call>>
    <2>1. \A k : RowFits(k)' <=> RowFits(k)
      BY <1>1 DEF RowFits, Row, Accounts
    <2>2. AccountsInv'
      BY AccountsStep DEF AloneInv
    <2> QED
      BY <1>1, <2>1, <2>2 DEF AloneInv, AccountsDistinct, TitleInDepartment, Accounts
  <1>2. ASSUME NEW c \in Clients, Fail(c)
        PROVE  AloneInv'
    <2>1. account' = account /\ call' = [call EXCEPT ![c] = None] /\ call[c] # None
      BY <1>2 DEF Fail
    <2>2. \A d \in Clients : call'[d] = None
      BY <2>1 DEF AloneInv, AccountsInv, TypeOK
    <2>3. AccountsInv'
      BY AccountsStep DEF AloneInv
    <2> QED
      BY <2>1, <2>2, <2>3 DEF AloneInv, AccountsDistinct, TitleInDepartment, Accounts
  <1> QED
    BY <1>1, <1>2, AloneCreate, AloneUpdate, AloneToggle, AloneWrite
       DEF Next, vars, SignIn, SignOut

\* User names and numbers stay distinct and titles in their department, when no
\* two calls overlap.
THEOREM AccountsSound ==
  ASSUME OrganizationAssumption, ~Overlap
  PROVE  Spec => [](AccountsDistinct /\ TitleInDepartment)
  <1>1. Init => AloneInv
    BY AccountsInit DEF AloneInv
  <1>2. AloneInv /\ [Next]_vars => AloneInv'
    BY AloneStep
  <1>3. AloneInv => AccountsDistinct /\ TitleInDepartment
    BY DEF AloneInv
  <1> QED
    BY <1>1, <1>2, <1>3, PTL DEF Spec

-----------------------------------------------------------------------------
(* The permissions of roles.                                               *)
(*                                                                         *)
(* Nobody can save less for the administrators, however saves overlap.  As *)
(* long as no two of one role do, a transaction knows all the rows that it *)
(* replaces: what it read when it checked is what it deletes.              *)

CONSTANTS Administrator, Permissions, Manage, RoleOf, MaxSaves
VARIABLES granted, screen, tx, log, saved, saves

R == INSTANCE RolePermissions

\* No transaction is about the administrators' role.
RightsInv ==
  /\ R!TypeOK /\ R!AdministratorKeepsAll
  /\ \A c \in Clients : R!Running(c) => tx[c].role # Administrator

\* A transaction is its role's only one, and knows the role's rows.
Knows(t) ==
  /\ t.seen = granted[t.role]
  /\ t.step # "checked" => t.removed = granted[t.role]
  /\ t.step = "inserted" => t.added = t.selection
ReplacesInv ==
  /\ RightsInv /\ R!RoleHasWhatWasSaved /\ R!LogTellsTheTruth
  /\ \A c \in Clients : R!Running(c) =>
       Knows(tx[c]) /\ R!Others(c, tx[c].role) = {}

LEMMA IdleIsNone == R!Idle \notin R!Transaction
  BY DEF R!Idle, R!Transaction

\* A step of one transaction.
LEMMA StepTaken ==
  ASSUME RightsInv, NEW c \in Clients, NEW t \in R!Transaction \cup {R!Idle},
         R!Step(c, t), t # R!Idle => t.role # Administrator,
         UNCHANGED <<granted, screen, log, saved>>, saves' \in 0..MaxSaves
  PROVE  /\ RightsInv'
         /\ \A d \in Clients : tx'[d] = IF d = c THEN t ELSE tx[d]
  BY DEF RightsInv, R!Step, R!TypeOK, R!AdministratorKeepsAll, R!Running, R!Idle

LEMMA RightsStep ==
  ASSUME R!RolesAssumption, RightsInv, [R!Next]_(R!vars) PROVE RightsInv'
  <1>1. CASE UNCHANGED R!vars
    BY <1>1 DEF R!vars, RightsInv, R!TypeOK, R!AdministratorKeepsAll, R!Running, R!Idle
  <1>2. ASSUME NEW c \in Clients, NEW r \in Roles, R!LoadEditor(c, r)
        PROVE  RightsInv'
    BY <1>2 DEF R!LoadEditor, RightsInv, R!TypeOK, R!AdministratorKeepsAll, R!Running, R!Idle
  <1>3. ASSUME NEW c \in Clients, NEW selection \in R!Selections, R!BeginSave(c, selection)
        PROVE  RightsInv'
    <2> DEFINE r == screen[c].role
               t == [step |-> "checked", role |-> r, selection |-> selection,
                     seen |-> R!RoleHas(c, r), removed |-> {}, added |-> {}]
    <2>1. /\ screen[c] # R!Nothing /\ saves < MaxSaves /\ saves' = saves + 1
          /\ ~R!Refused(c, r, selection) /\ R!Step(c, t)
          /\ UNCHANGED <<granted, screen, log, saved>>
      BY <1>3 DEF R!BeginSave
    <2>2. r \in Roles
      BY <2>1 DEF RightsInv, R!TypeOK
    <2>3. t \in R!Transaction
      BY <2>2 DEF R!Transaction, R!RoleHas, R!Selections, RightsInv, R!TypeOK
    <2>4. t.role # Administrator
      BY <2>1 DEF R!Refused
    <2>5. saves' \in 0..MaxSaves
      BY <2>1 DEF RightsInv, R!TypeOK, R!RolesAssumption
    <2> HIDE DEF t
    <2> QED
      BY <2>1, <2>3, <2>4, <2>5, StepTaken
  <1>4. ASSUME NEW c \in Clients, R!BeginDelete(c) \/ R!FinishDelete(c) \/ R!Insert(c)
        PROVE  RightsInv'
    <2>1. tx[c] \in R!Transaction /\ R!Running(c) /\ granted[tx[c].role] \in R!Selections
      BY <1>4 DEF R!BeginDelete, R!FinishDelete, R!Insert, RightsInv, R!TypeOK, R!Running,
         R!Transaction
    <2>2. PICK t \in R!Transaction : R!Step(c, t) /\ t.role = tx[c].role
      <3>1. CASE R!BeginDelete(c)
        <4> DEFINE t == [tx[c] EXCEPT !.step = "deleting", !.removed = granted[tx[c].role]]
        <4>1. t \in R!Transaction /\ t.role = tx[c].role
          BY <2>1 DEF R!Transaction
        <4>2. R!Step(c, t)
          BY <3>1 DEF R!BeginDelete
        <4> QED
          BY <4>1, <4>2
      <3>2. CASE R!FinishDelete(c)
        BY <2>1, <3>2 DEF R!FinishDelete, R!Transaction
      <3>3. CASE R!Insert(c)
        <4> DEFINE added == tx[c].selection \ (granted[tx[c].role] \ tx[c].removed)
                   t == [tx[c] EXCEPT !.step = "inserted", !.added = added]
        <4>1. added \in R!Selections
          BY <2>1 DEF R!Transaction, R!Selections
        <4>2. R!Step(c, t)
          BY <3>3 DEF R!Insert
        <4> HIDE DEF added
        <4>3. t \in R!Transaction /\ t.role = tx[c].role
          BY <2>1, <4>1 DEF R!Transaction
        <4> QED
          BY <4>2, <4>3
      <3> QED
        BY <1>4, <3>1, <3>2, <3>3
    <2>3. UNCHANGED <<granted, screen, log, saved, saves>>
      BY <1>4 DEF R!BeginDelete, R!FinishDelete, R!Insert
    <2> QED
      BY <2>1, <2>2, <2>3, StepTaken DEF RightsInv, R!TypeOK
  <1>5. ASSUME NEW c \in Clients, R!Commit(c)
        PROVE  RightsInv'
    <2>1. tx[c] \in R!Transaction /\ tx[c] # R!Idle
      BY <1>5 DEF R!Commit, RightsInv, R!TypeOK
    <2>2. PICK r \in Roles, g \in R!Selections, l \in R!Selections, s \in R!Selections :
            /\ granted' = [granted EXCEPT ![r] = g] /\ log' = [log EXCEPT ![r] = l]
            /\ saved' = [saved EXCEPT ![r] = s] /\ r = tx[c].role
            /\ screen' = [screen EXCEPT ![c] = [role |-> r, ticked |-> granted'[r]]]
      <3>1. /\ tx[c].role \in Roles
            /\ {tx[c].seen, tx[c].selection, tx[c].added, tx[c].removed,
                granted[tx[c].role], log[tx[c].role]} \subseteq R!Selections
        BY <2>1 DEF R!Transaction, RightsInv, R!TypeOK
      <3> QED
        BY <1>5, <3>1 DEF R!Commit, R!Replaced, R!Selections, RightsInv, R!TypeOK
    <2>3. r # Administrator
      BY <2>1, <2>2 DEF RightsInv, R!Running
    <2>4. \A d \in Clients : tx[d] # R!Idle =>
            [tx[d] EXCEPT !.removed = @ \ tx[c].removed] \in R!Transaction
      BY DEF RightsInv, R!TypeOK, R!Transaction, R!Selections
    <2>5. /\ tx' \in [Clients -> R!Transaction \cup {R!Idle}]
          /\ \A d \in Clients : tx'[d] # R!Idle => tx[d] # R!Idle /\ tx'[d].role = tx[d].role
      BY <1>5, <2>4 DEF R!Commit, R!Ended, R!Others, R!Running, RightsInv, R!TypeOK,
         R!Transaction
    <2>6. UNCHANGED saves
      BY <1>5 DEF R!Commit
    <2>7. R!TypeOK'
      <3>1. {granted', saved', log'} \subseteq [Roles -> R!Selections]
        BY <2>2 DEF RightsInv, R!TypeOK
      <3>2. granted'[r] \in R!Selections
        BY <3>1
      <3>3. screen' \in [Clients -> [role : Roles, ticked : R!Selections] \cup {R!Nothing}]
        BY <2>2, <3>2 DEF RightsInv, R!TypeOK
      <3> QED
        BY <2>5, <2>6, <3>1, <3>3 DEF RightsInv, R!TypeOK
    <2> QED
      BY <2>2, <2>3, <2>5, <2>7 DEF RightsInv, R!AdministratorKeepsAll, R!Running, R!TypeOK, R!Idle
  <1>6. ASSUME NEW c \in Clients, R!RollBack(c)
        PROVE  RightsInv'
    BY <1>6, StepTaken DEF R!RollBack, RightsInv, R!TypeOK
  <1> QED
    BY <1>1, <1>2, <1>3, <1>4, <1>5, <1>6 DEF R!Next

\* The rest of a step: with its transaction the only one of its role.
LEMMA AloneStepTaken ==
  ASSUME ReplacesInv, RightsInv', NEW c \in Clients, NEW t \in R!Transaction \cup {R!Idle},
         R!Step(c, t), UNCHANGED <<granted, log, saved>>,
         t # R!Idle => Knows(t) /\ R!Others(c, t.role) = {}
  PROVE  ReplacesInv'
  <1>1. \A d \in Clients : tx'[d] = IF d = c THEN t ELSE tx[d]
    BY DEF R!Step, ReplacesInv, RightsInv, R!TypeOK
  <1>2. \A d \in Clients : R!Running(d)' => Knows(tx[d])'
    BY <1>1 DEF ReplacesInv, R!Running, R!Idle, Knows
  <1>3. \A d \in Clients : R!Running(d)' => R!Others(d, tx[d].role)' = {}
    BY <1>1 DEF ReplacesInv, R!Running, R!Others, R!Idle
  <1> QED
    BY <1>2, <1>3 DEF ReplacesInv, R!RoleHasWhatWasSaved, R!LogTellsTheTruth, Knows

LEMMA ReplacesStep ==
  ASSUME R!RolesAssumption, ~Overlap, ReplacesInv, [R!Next]_(R!vars) PROVE ReplacesInv'
  <1>1. RightsInv'
    BY RightsStep DEF ReplacesInv
  <1>2. CASE UNCHANGED <<granted, tx, log, saved>>
    BY <1>1, <1>2 DEF ReplacesInv, R!RoleHasWhatWasSaved, R!LogTellsTheTruth, R!Running,
       R!Idle, R!Others, Knows
  <1>3. ASSUME NEW c \in Clients, NEW selection \in R!Selections, R!BeginSave(c, selection)
        PROVE  ReplacesInv'
    <2> DEFINE r == screen[c].role
               t == [step |-> "checked", role |-> r, selection |-> selection,
                     seen |-> R!RoleHas(c, r), removed |-> {}, added |-> {}]
    <2>1. /\ screen[c] # R!Nothing /\ R!Step(c, t) /\ R!Others(c, r) = {}
          /\ UNCHANGED <<granted, log, saved>>
      BY <1>3 DEF R!BeginSave
    <2>2. r \in Roles
      BY <2>1 DEF ReplacesInv, RightsInv, R!TypeOK
    <2>3. t \in R!Transaction
      BY <2>2 DEF R!Transaction, R!RoleHas, R!Selections, ReplacesInv, RightsInv, R!TypeOK
    <2>4. Knows(t) /\ t.role = r
      BY DEF Knows, R!RoleHas
    <2> HIDE DEF t
    <2> QED
      BY <1>1, <2>1, <2>3, <2>4, AloneStepTaken
  <1>4. ASSUME NEW c \in Clients, R!BeginDelete(c) \/ R!FinishDelete(c) \/ R!Insert(c)
        PROVE  ReplacesInv'
    <2>1. tx[c] \in R!Transaction /\ R!Running(c) /\ granted[tx[c].role] \in R!Selections
      BY <1>4 DEF R!BeginDelete, R!FinishDelete, R!Insert, ReplacesInv, RightsInv, R!TypeOK,
         R!Running, R!Transaction
    <2>2. Knows(tx[c]) /\ R!Others(c, tx[c].role) = {}
      BY <2>1 DEF ReplacesInv
    <2>3. PICK t \in R!Transaction : R!Step(c, t) /\ t.role = tx[c].role /\ Knows(t)
      <3>1. CASE R!BeginDelete(c)
        <4> DEFINE t == [tx[c] EXCEPT !.step = "deleting", !.removed = granted[tx[c].role]]
        <4>1. t \in R!Transaction /\ t.role = tx[c].role /\ Knows(t)
          BY <2>1, <2>2 DEF R!Transaction, Knows
        <4>2. R!Step(c, t)
          BY <3>1 DEF R!BeginDelete
        <4> QED
          BY <4>1, <4>2
      <3>2. CASE R!FinishDelete(c)
        <4> DEFINE t == [tx[c] EXCEPT !.step = "deleted"]
        <4>1. R!Step(c, t) /\ tx[c].step = "deleting"
          BY <3>2 DEF R!FinishDelete
        <4>2. t \in R!Transaction /\ t.role = tx[c].role /\ Knows(t)
          BY <2>1, <2>2, <4>1 DEF R!Transaction, Knows
        <4> QED
          BY <4>1, <4>2
      <3>3. CASE R!Insert(c)
        <4> DEFINE added == tx[c].selection \ (granted[tx[c].role] \ tx[c].removed)
                   t == [tx[c] EXCEPT !.step = "inserted", !.added = added]
        <4>1. R!Step(c, t) /\ tx[c].step = "deleted"
          BY <3>3 DEF R!Insert
        <4>2. added \in R!Selections /\ added = tx[c].selection
          BY <2>1, <2>2, <4>1 DEF R!Transaction, R!Selections, Knows
        <4> HIDE DEF added
        <4>3. t \in R!Transaction /\ t.role = tx[c].role /\ Knows(t)
          BY <2>1, <2>2, <4>1, <4>2 DEF R!Transaction, Knows
        <4> QED
          BY <4>1, <4>3
      <3> QED
        BY <1>4, <3>1, <3>2, <3>3
    <2>4. UNCHANGED <<granted, log, saved>>
      BY <1>4 DEF R!BeginDelete, R!FinishDelete, R!Insert
    <2> QED
      BY <1>1, <2>2, <2>3, <2>4, AloneStepTaken
  <1>5. ASSUME NEW c \in Clients, R!Commit(c)
        PROVE  ReplacesInv'
    <2> DEFINE t == tx[c]
               r == t.role
    <2>1. t \in R!Transaction /\ R!Running(c) /\ t.step = "inserted" /\ r \in Roles
      BY <1>5 DEF R!Commit, ReplacesInv, RightsInv, R!TypeOK, R!Transaction, R!Running
    <2>2. /\ t.seen = granted[r] /\ t.removed = granted[r] /\ t.added = t.selection
          /\ R!Others(c, r) = {}
      BY <2>1 DEF ReplacesInv, Knows
    <2>3. /\ granted' = [granted EXCEPT ![r] = t.selection]
          /\ saved' = [saved EXCEPT ![r] = t.selection]
      BY <1>5, <2>1, <2>2 DEF R!Commit, R!Replaced, ReplacesInv, RightsInv, R!TypeOK
    <2>4. log' = [log EXCEPT ![r] = t.selection]
      <3>1. log[r] = t.seen
        BY <2>2 DEF ReplacesInv, R!LogTellsTheTruth
      <3>2. (log[r] \ (t.seen \ t.selection)) \cup (t.selection \ t.seen) = t.selection
        BY <3>1
      <3> QED
        BY <1>5, <3>2 DEF R!Commit
    <2>5. \A d \in Clients : tx'[d] = IF d = c THEN R!Idle ELSE tx[d]
      BY <1>5, <2>2 DEF R!Commit, R!Ended
    <2>6. \A d \in Clients \ {c} : R!Running(d) => tx[d].role # r
      BY <2>1, <2>2 DEF R!Others
    <2>7. \A d \in Clients : R!Running(d)' => d # c /\ R!Running(d) /\ tx'[d] = tx[d]
      BY <2>5 DEF R!Running, R!Idle
    <2>8. ASSUME NEW d \in Clients, R!Running(d)'
          PROVE  Knows(tx[d])' /\ R!Others(d, tx[d].role)' = {}
      <3>1. R!Running(d) /\ tx'[d] = tx[d] /\ tx[d].role # r /\ tx[d].role \in Roles
        BY <2>6, <2>7, <2>8 DEF ReplacesInv, RightsInv, R!TypeOK, R!Running, R!Transaction
      <3>2. granted'[tx[d].role] = granted[tx[d].role]
        BY <2>3, <3>1 DEF ReplacesInv, RightsInv, R!TypeOK
      <3>3. Knows(tx[d])'
        BY <3>1, <3>2 DEF ReplacesInv, Knows
      <3>4. R!Others(d, tx[d].role)' = {}
        BY <2>7, <3>1 DEF ReplacesInv, R!Others
      <3> QED
        BY <3>3, <3>4
    <2> QED
      BY <1>1, <2>3, <2>4, <2>8 DEF ReplacesInv, R!RoleHasWhatWasSaved, R!LogTellsTheTruth
  <1>6. ASSUME NEW c \in Clients, R!RollBack(c)
        PROVE  ReplacesInv'
    BY <1>1, <1>6, AloneStepTaken DEF R!RollBack
  <1> QED
    BY <1>2, <1>3, <1>4, <1>5, <1>6 DEF R!Next, R!vars, R!LoadEditor

LEMMA RightsInit ==
  ASSUME R!RolesAssumption, R!Init PROVE ReplacesInv
  <1>1. granted \in [Roles -> R!Selections] /\ log = granted /\ saved = granted
    BY DEF R!Init
  <1> QED
    BY <1>1 DEF R!Init, R!RolesAssumption, ReplacesInv, RightsInv, R!TypeOK,
       R!AdministratorKeepsAll, R!RoleHasWhatWasSaved, R!LogTellsTheTruth, R!Running

\* Somebody can always manage the roles: whatever is saved, also at once, the
\* administrators keep every permission.
THEOREM AdministratorsKeepAll ==
  ASSUME R!RolesAssumption
  PROVE  R!Spec => [](R!TypeOK /\ R!AdministratorKeepsAll)
  <1>1. R!Init => RightsInv
    BY RightsInit DEF ReplacesInv
  <1>2. RightsInv /\ [R!Next]_(R!vars) => RightsInv'
    BY RightsStep
  <1>3. RightsInv => R!TypeOK /\ R!AdministratorKeepsAll
    BY DEF RightsInv
  <1> QED
    BY <1>1, <1>2, <1>3, PTL DEF R!Spec

\* A role has what was saved for it last, and the log says so, as long as no two
\* saves of one role overlap.
THEOREM SavesReplace ==
  ASSUME R!RolesAssumption, ~Overlap
  PROVE  R!Spec => [](R!RoleHasWhatWasSaved /\ R!LogTellsTheTruth)
  <1>1. R!Init => ReplacesInv
    BY RightsInit
  <1>2. ReplacesInv /\ [R!Next]_(R!vars) => ReplacesInv'
    BY ReplacesStep
  <1>3. ReplacesInv => R!RoleHasWhatWasSaved /\ R!LogTellsTheTruth
    BY DEF ReplacesInv
  <1> QED
    BY <1>1, <1>2, <1>3, PTL DEF R!Spec

-----------------------------------------------------------------------------
(* The forms.                                                              *)

CONSTANTS Windows, SignedIn, Names, Lower, Active, Start, MayFail, MaxTouches, MaxCommits
VARIABLES form, known, touches, commits

F == INSTANCE AccountForm

Fields == {"user", "seen", "ready", "name", "role", "department", "title", "titles",
           "button", "asked", "step"}
KeptBut(g, f, changed) == \A x \in Fields \ changed : g[x] = f[x]

LEMMA FirstIsOne ==
  ASSUME NEW S PROVE F!First(S) \in S \cup {None}
  BY DEF F!First

\* A form whose titles were loaded: one of them is chosen, the rest is kept.
LEMMA TitlesLoaded ==
  ASSUME NEW f \in F!Forms, NEW department, NEW title
  PROVE  LET g == F!LoadJobTitles(f, department, title) IN
         /\ g \in F!Forms
         /\ KeptBut(g, f, {"title", "titles"})
         /\ g.titles = F!TitlesOf(department)
         /\ title \in g.titles => g.title = title
  <1>1. F!TitlesOf(department) \in SUBSET Titles
    BY DEF F!TitlesOf
  <1>2. PICK t \in Titles \cup {None} :
          /\ F!LoadJobTitles(f, department, title)
               = [f EXCEPT !.titles = F!TitlesOf(department), !.title = t]
          /\ title \in F!TitlesOf(department) => t = title
    BY <1>1, FirstIsOne DEF F!LoadJobTitles
  <1> QED
    BY <1>1, <1>2 DEF F!Forms, KeptBut, Fields

\* What a form shows of the row that it has read.
LEMMA FormFilled ==
  ASSUME F!FormAssumption, NEW f \in F!Forms, f.seen \in F!Rows, NEW failed \in BOOLEAN
  PROVE  LET g == F!Populated(f, failed) IN
         /\ g \in F!Forms
         /\ g.name = f.seen.name /\ g.role \in {f.seen.role, f.role}
         /\ g.department \in {f.seen.department, f.department}
         /\ KeptBut(g, f, {"name", "role", "department", "title", "titles"})
         /\ g.title = f.seen.title \/ f.seen.title \notin g.titles
            \/ (g.title = f.title /\ g.titles = f.titles)
         /\ failed => g.title = f.title /\ g.titles = f.titles
  <1> DEFINE row == f.seen
             g0 == [f EXCEPT !.name = row.name,
                      !.role = IF row.role \in Active THEN row.role ELSE @,
                      !.department = IF row.department \in Active THEN row.department
                                     ELSE @]
  <1>1. g0 \in F!Forms /\ g0.name = row.name
        /\ g0.role \in {row.role, f.role} /\ g0.department \in {row.department, f.department}
        /\ KeptBut(g0, f, {"name", "role", "department"})
    <2>1. PICK name \in Names, role \in {row.role, f.role},
               department \in {row.department, f.department} :
            g0 = [f EXCEPT !.name = name, !.role = role, !.department = department]
            /\ name = row.name
      BY DEF F!Rows
    <2>2. role \in Roles \cup {None} /\ department \in Departments \cup {None}
      BY DEF F!Forms, F!Rows
    <2> HIDE DEF g0
    <2> QED
      BY <2>1, <2>2 DEF F!Forms, KeptBut, Fields
  <1>2. CASE row.department \in Active /\ ~failed
    <2>1. F!Populated(f, failed) = F!LoadJobTitles(g0, row.department, row.title)
      BY <1>2 DEF F!Populated
    <2> HIDE DEF g0
    <2> QED
      BY <1>1, <1>2, <2>1, TitlesLoaded DEF KeptBut, Fields
  <1>3. CASE ~(row.department \in Active /\ ~failed)
    <2>1. F!Populated(f, failed) = g0
      BY <1>3 DEF F!Populated
    <2> HIDE DEF g0
    <2> QED
      BY <1>1, <2>1 DEF KeptBut, Fields
  <1> QED
    BY <1>2, <1>3

\* A form without an account has none to disable; another shows what it has
\* read of the account or was given by hand, but for a title that it fell back to.
\* A dialog is open over an idle form only.
Sound(f, k) ==
  /\ k # {} /\ (f.asked # None => f.step = "idle")
  /\ f.user = None => f.button = "None" /\ f.asked = None /\ f.step # "toggled"
  /\ f.user # None =>
       /\ f.user \in F!Accounts /\ f.seen \in F!Rows
       /\ \A x \in {"name", "role", "department"} : f[x] = None \/ <<x, f[x]>> \in k
       /\ \/ <<"title", f.title>> \in k
          \/ \E t : <<"title", t>> \in k /\ t \notin f.titles

FormInv ==
  /\ F!TypeOK /\ F!PairKept
  /\ \A w \in Windows : form[w] # None => Sound(form[w], known[w])

\* One window gets another form; accounts may change too.
LEMMA OneFormChanges ==
  ASSUME F!FormAssumption, FormInv, NEW w \in Windows, NEW g \in F!Forms \cup {None}, NEW k,
         form' = [form EXCEPT ![w] = g], DOMAIN known' = Windows,
         \A v \in Windows : known'[v] = IF v = w THEN k ELSE known[v],
         g = None => k = {}, g # None => Sound(g, k),
         account' \in [Users -> F!Rows \cup {None}], F!Accounts \subseteq F!Accounts',
         F!PairKept', touches' \in 0..MaxTouches, commits' \in 0..MaxCommits
  PROVE  FormInv'
  <1>1. \A v \in Windows : form'[v] = IF v = w THEN g ELSE form[v]
    BY DEF FormInv, F!TypeOK
  <1>2. F!TypeOK'
    <2>1. form' \in [Windows -> F!Forms \cup {None}]
      BY DEF FormInv, F!TypeOK
    <2>2. \A v \in Windows : form'[v] = None <=> known'[v] = {}
      BY <1>1 DEF FormInv, F!TypeOK, Sound
    <2> QED
      BY <2>1, <2>2 DEF F!TypeOK
  <1>3. ASSUME NEW v \in Windows, form'[v] # None
        PROVE  Sound(form[v], known[v])'
    <2>1. Sound(form'[v], known'[v])
      BY <1>1, <1>3 DEF FormInv
    <2> QED
      BY <2>1 DEF Sound
  <1> QED
    BY <1>2, <1>3 DEF FormInv

LEMMA LoadedUser ==
  ASSUME F!FormAssumption, FormInv, NEW w \in Windows, NEW u \in F!Accounts, F!LoadUser(w, u)
  PROVE  \E g \in F!Forms :
           /\ form' = [form EXCEPT ![w] = g]
           /\ known' = [known EXCEPT ![w] = F!RowPairs(account[u])]
           /\ Sound(g, F!RowPairs(account[u]))
           /\ g.user = u /\ g.step = "idle"
           /\ ~MayFail => g.seen = account[u] /\ g.button = F!ButtonOf(w, u, account[u])
  <1> DEFINE f == [F!Blank EXCEPT !.user = u, !.seen = account[u]]
             row == account[u]
             p == F!Populated(f, FALSE)
             q == [p EXCEPT !.ready = TRUE]
             g == F!RefreshAccountStatus(w, q)
  <1>1. u \in Users /\ row \in F!Rows
    BY DEF F!Accounts, FormInv, F!TypeOK
  <1>2. PICK failed \in F!Fails :
          /\ form' = [form EXCEPT ![w] = IF failed THEN f ELSE g]
          /\ known' = [known EXCEPT ![w] = F!RowPairs(row)]
    BY DEF F!LoadUser
  <1>3. f \in F!Forms
    BY <1>1 DEF F!Blank, F!Forms
  <1>4. /\ f.user = u /\ f.seen = row /\ f.name = None /\ f.role = None /\ f.department = None
        /\ f.title = None /\ f.titles = {} /\ f.step = "idle"
    BY DEF F!Blank
  <1>5. /\ <<"name", row.name>> \in F!RowPairs(row) /\ <<"role", row.role>> \in F!RowPairs(row)
        /\ <<"department", row.department>> \in F!RowPairs(row)
        /\ <<"title", row.title>> \in F!RowPairs(row)
    BY DEF F!RowPairs, F!Columns
  <1>6. u # None
    BY <1>1 DEF F!FormAssumption
  <1> HIDE DEF f
  <1>7. Sound(f, F!RowPairs(row))
    BY <1>1, <1>4, <1>5, <1>6 DEF Sound
  <1>8. /\ p \in F!Forms /\ p.name = row.name /\ p.role \in {row.role, None}
        /\ p.department \in {row.department, None} /\ p.user = u /\ p.seen = row
        /\ p.step = "idle"
        /\ p.title = row.title \/ row.title \notin p.titles
    <2>1. /\ p \in F!Forms
          /\ p.name = f.seen.name /\ p.role \in {f.seen.role, f.role}
          /\ p.department \in {f.seen.department, f.department}
          /\ KeptBut(p, f, {"name", "role", "department", "title", "titles"})
          /\ p.title = f.seen.title \/ f.seen.title \notin p.titles
             \/ (p.title = f.title /\ p.titles = f.titles)
      <3>1. FALSE \in BOOLEAN
        OBVIOUS
      <3> QED
        BY <1>1, <1>3, <1>4, <3>1, FormFilled
    <2>2. p.user = f.user /\ p.seen = f.seen /\ p.step = f.step
      BY <2>1 DEF KeptBut, Fields
    <2> HIDE DEF p
    <2> QED
      BY <1>4, <2>1, <2>2
  <1> HIDE DEF p
  <1>9. F!ButtonOf(w, u, row) \in {"Disable", "Enable", "Current", "None"}
    BY DEF F!ButtonOf
  <1>10. /\ g \in F!Forms /\ g.name = p.name /\ g.role = p.role /\ g.department = p.department
         /\ g.user = u /\ g.seen = row /\ g.title = p.title /\ g.titles = p.titles
         /\ g.step = "idle" /\ g.button = F!ButtonOf(w, u, row)
    BY <1>8, <1>9 DEF F!RefreshAccountStatus, F!Forms
  <1> HIDE DEF g, q
  <1>11. Sound(g, F!RowPairs(row))
    BY <1>1, <1>5, <1>6, <1>8, <1>10 DEF Sound
  <1>12. ~MayFail => ~failed
    BY DEF F!Fails
  <1> QED
    BY <1>2, <1>3, <1>4, <1>7, <1>10, <1>11, <1>12

\* The window's form and what it knows.
LEMMA OpenForm ==
  ASSUME FormInv, NEW w \in Windows, form[w] # None
  PROVE  form[w] \in F!Forms /\ Sound(form[w], known[w]) /\ known[w] # {}
  BY DEF FormInv, F!TypeOK, Sound

LEMMA FormCommitted ==
  ASSUME F!FormAssumption, FormInv, NEW w \in Windows, NEW u \in Users, NEW row \in F!Rows,
         row.title # None => DepartmentOf[row.title] = row.department,
         F!Commit(w, u, row)
  PROVE  /\ account' \in [Users -> F!Rows \cup {None}] /\ F!Accounts \subseteq F!Accounts'
         /\ F!PairKept' /\ touches' \in 0..MaxTouches /\ commits' \in 0..MaxCommits
         /\ known' = known
         /\ \A v \in Users : account'[v] = IF v = u THEN row ELSE account[v]
  <1>1. /\ account' = [account EXCEPT ![u] = row] /\ commits < MaxCommits
        /\ commits' = commits + 1 /\ UNCHANGED <<known, touches>>
    BY DEF F!Commit
  <1>2. account \in [Users -> F!Rows \cup {None}]
    BY DEF FormInv, F!TypeOK
  <1>3. \A v \in Users : account'[v] = IF v = u THEN row ELSE account[v]
    BY <1>1, <1>2
  <1>4. row # None
    BY DEF F!FormAssumption
  <1>5. F!Accounts' = F!Accounts \cup {u}
    BY <1>3, <1>4 DEF F!Accounts
  <1>6. F!PairKept'
    BY <1>3, <1>5 DEF FormInv, F!PairKept, F!Accounts
  <1>7. account' \in [Users -> F!Rows \cup {None}]
    BY <1>1, <1>2
  <1> QED
    BY <1>1, <1>3, <1>5, <1>6, <1>7 DEF FormInv, F!TypeOK, F!FormAssumption

\* What a save writes.
LEMMA RowWritten ==
  ASSUME F!FormAssumption, NEW f \in F!Forms, F!Valid(f), F!Belongs(f), NEW active \in BOOLEAN
  PROVE  LET row == F!Written(f, active) IN
         /\ row \in F!Rows /\ row.name = Lower[f.name] /\ row.role = f.role
         /\ row.department = f.department /\ row.title = f.title /\ row.active = active
         /\ DepartmentOf[row.title] = row.department
  <1>1. f.name \in Names /\ f.role \in Roles /\ f.department \in Departments /\ f.title \in Titles
    BY DEF F!Valid, F!Forms
  <1>2. Lower[f.name] \in Names
    BY <1>1 DEF F!FormAssumption
  <1> QED
    BY <1>1, <1>2 DEF F!Written, F!Rows, F!Belongs

\* An entry.
LEMMA EntryMade ==
  ASSUME F!FormAssumption, FormInv, NEW w \in Windows, NEW g \in F!Forms, NEW pairs,
         F!Touched(w, g, pairs), Sound(g, known[w] \cup pairs)
  PROVE  FormInv'
  <1>1. /\ touches < MaxTouches /\ touches' = touches + 1 /\ UNCHANGED <<account, commits>>
        /\ form' = [form EXCEPT ![w] = g]
        /\ known' = [known EXCEPT ![w] = known[w] \cup pairs]
    BY DEF F!Touched
  <1>2. touches' \in 0..MaxTouches /\ commits' \in 0..MaxCommits
    BY <1>1 DEF FormInv, F!TypeOK, F!FormAssumption
  <1>3. g # None
    BY DEF F!FormAssumption
  <1>4. F!PairKept' /\ F!Accounts' = F!Accounts
        /\ account' \in [Users -> F!Rows \cup {None}]
    BY <1>1 DEF FormInv, F!TypeOK, F!PairKept, F!Accounts
  <1>5. DOMAIN known' = Windows
        /\ \A v \in Windows : known'[v] = IF v = w THEN known[w] \cup pairs ELSE known[v]
    BY <1>1 DEF FormInv, F!TypeOK
  <1> QED
    BY <1>1, <1>2, <1>3, <1>4, <1>5, OneFormChanges

LEMMA EntriesStep ==
  ASSUME F!FormAssumption, FormInv, NEW w \in Windows,
         \/ \E name \in Names : F!TypeName(w, name)
         \/ \E role \in Roles : F!ChooseRole(w, role)
         \/ \E department \in Departments : F!HandleDepartmentChange(w, department)
         \/ \E title \in Titles : F!ChooseTitle(w, title)
  PROVE  FormInv'
  <1>1. form[w] # None
    BY DEF F!TypeName, F!ChooseRole, F!HandleDepartmentChange, F!ChooseTitle, F!Idle
  <1>2. form[w] \in F!Forms /\ Sound(form[w], known[w])
    BY <1>1, OpenForm
  <1>3. ASSUME NEW name \in Names, F!TypeName(w, name)
        PROVE  FormInv'
    <2> DEFINE g == [form[w] EXCEPT !.name = name]
    <2>1. g \in F!Forms /\ g.name = name /\ KeptBut(g, form[w], {"name"})
      BY <1>2 DEF F!Forms, KeptBut, Fields
    <2>2. F!Touched(w, g, {<<"name", name>>})
      BY <1>3 DEF F!TypeName
    <2> HIDE DEF g
    <2>3. Sound(g, known[w] \cup {<<"name", name>>})
      BY <1>2, <2>1 DEF Sound, KeptBut, Fields
    <2> QED
      BY <2>1, <2>2, <2>3, EntryMade
  <1>4. ASSUME NEW role \in Roles, F!ChooseRole(w, role)
        PROVE  FormInv'
    <2> DEFINE g == [form[w] EXCEPT !.role = role]
    <2>1. g \in F!Forms /\ g.role = role /\ KeptBut(g, form[w], {"role"})
      BY <1>2 DEF F!Forms, KeptBut, Fields
    <2>2. F!Touched(w, g, {<<"role", role>>})
      BY <1>4 DEF F!ChooseRole
    <2> HIDE DEF g
    <2>3. Sound(g, known[w] \cup {<<"role", role>>})
      BY <1>2, <2>1 DEF Sound, KeptBut, Fields
    <2> QED
      BY <2>1, <2>2, <2>3, EntryMade
  <1>5. ASSUME NEW title \in Titles, F!ChooseTitle(w, title)
        PROVE  FormInv'
    <2> DEFINE g == [form[w] EXCEPT !.title = title]
    <2>1. g \in F!Forms /\ g.title = title /\ KeptBut(g, form[w], {"title"})
      BY <1>2 DEF F!Forms, KeptBut, Fields
    <2>2. F!Touched(w, g, {<<"title", title>>})
      BY <1>5 DEF F!ChooseTitle
    <2> HIDE DEF g
    <2>3. Sound(g, known[w] \cup {<<"title", title>>})
      BY <1>2, <2>1 DEF Sound, KeptBut, Fields
    <2> QED
      BY <2>1, <2>2, <2>3, EntryMade
  <1>6. ASSUME NEW department \in Departments, F!HandleDepartmentChange(w, department)
        PROVE  FormInv'
    <2> DEFINE f == [form[w] EXCEPT !.department = department]
    <2>1. f \in F!Forms /\ f.department = department /\ KeptBut(f, form[w], {"department"})
      BY <1>2 DEF F!Forms, KeptBut, Fields
    <2>2. \/ F!Touched(w, f, {<<"department", department>>} \cup {})
          \/ LET g == F!LoadJobTitles(f, department, None) IN
             F!Touched(w, g, {<<"department", department>>} \cup {<<"title", g.title>>})
      BY <1>6 DEF F!HandleDepartmentChange
    <2> HIDE DEF f
    <2>3. CASE F!Touched(w, f, {<<"department", department>>} \cup {})
      <3>1. Sound(f, known[w] \cup ({<<"department", department>>} \cup {}))
        BY <1>2, <2>1 DEF Sound, KeptBut, Fields
      <3> QED
        BY <2>1, <2>3, <3>1, EntryMade
    <2>4. ASSUME NEW g, g = F!LoadJobTitles(f, department, None),
                 F!Touched(w, g, {<<"department", department>>} \cup {<<"title", g.title>>})
          PROVE  FormInv'
      <3>1. g \in F!Forms /\ KeptBut(g, f, {"title", "titles"})
        BY <2>1, <2>4, TitlesLoaded
      <3>2. Sound(g, known[w] \cup ({<<"department", department>>} \cup {<<"title", g.title>>}))
        BY <1>2, <2>1, <3>1 DEF Sound, KeptBut, Fields
      <3> QED
        BY <2>4, <3>1, <3>2, EntryMade
    <2> QED
      BY <2>2, <2>3, <2>4
  <1> QED
    BY <1>3, <1>4, <1>5, <1>6

\* A step that leaves the accounts alone: one window gets the form g.
LEMMA ViewChanges ==
  ASSUME F!FormAssumption, FormInv, NEW w \in Windows, NEW g \in F!Forms \cup {None}, NEW k,
         UNCHANGED <<account, touches, commits>>,
         form' = [form EXCEPT ![w] = g],
         known' = [known EXCEPT ![w] = k] \/ (known' = known /\ k = known[w]),
         g = None => k = {}, g # None => Sound(g, k)
  PROVE  FormInv'
  <1>1. touches' \in 0..MaxTouches /\ commits' \in 0..MaxCommits
    BY DEF FormInv, F!TypeOK
  <1>2. F!PairKept' /\ F!Accounts' = F!Accounts
        /\ account' \in [Users -> F!Rows \cup {None}]
    BY DEF FormInv, F!TypeOK, F!PairKept, F!Accounts
  <1>3. DOMAIN known' = Windows
        /\ \A v \in Windows : known'[v] = IF v = w THEN k ELSE known[v]
    BY DEF FormInv, F!TypeOK
  <1> QED
    BY <1>1, <1>2, <1>3, OneFormChanges

\* A form that has been loaded, left or asked, and one that the service has
\* answered.
LEMMA OpeningStep ==
  ASSUME F!FormAssumption, FormInv, NEW w \in Windows,
         \/ \E u \in Users : F!ShowEditUser(w, u)
         \/ F!ShowCreateUser(w) \/ F!HandleBack(w)
  PROVE  FormInv'
  <1>1. ASSUME NEW u \in Users, F!ShowEditUser(w, u)
        PROVE  FormInv'
    <2>1. u \in F!Accounts /\ F!LoadUser(w, u) /\ UNCHANGED <<account, touches, commits>>
      BY <1>1 DEF F!ShowEditUser
    <2>2. PICK g \in F!Forms :
            /\ form' = [form EXCEPT ![w] = g]
            /\ known' = [known EXCEPT ![w] = F!RowPairs(account[u])]
            /\ Sound(g, F!RowPairs(account[u]))
      BY <2>1, LoadedUser
    <2>3. g # None
      BY DEF F!FormAssumption
    <2> QED
      BY <2>1, <2>2, <2>3, ViewChanges
  <1>2. ASSUME F!ShowCreateUser(w)
        PROVE  FormInv'
    <2> DEFINE department == F!First(Departments \cap Active)
               role == F!First(Roles \cap Active)
               f == [F!Blank EXCEPT !.ready = TRUE, !.role = role, !.department = department]
               g == F!LoadJobTitles(f, department, None)
               k == {<<"new", None>>}
    <2>1. UNCHANGED <<account, touches, commits>> /\ known' = [known EXCEPT ![w] = k]
          /\ \/ form' = [form EXCEPT ![w] = F!Blank]
             \/ form' = [form EXCEPT ![w] = g]
      BY <1>2 DEF F!ShowCreateUser, F!LoadReferenceData
    <2>2. department \in Departments \cup {None} /\ role \in Roles \cup {None}
      BY FirstIsOne
    <2> HIDE DEF department, role
    <2>3. F!Blank \in F!Forms /\ F!Blank.user = None /\ F!Blank.button = "None"
          /\ F!Blank.asked = None /\ F!Blank.step # "toggled"
      BY DEF F!Blank, F!Forms
    <2>4. f \in F!Forms /\ KeptBut(f, F!Blank, {"ready", "role", "department"})
      BY <2>2, <2>3 DEF F!Forms, KeptBut, Fields
    <2> HIDE DEF f
    <2>5. g \in F!Forms /\ KeptBut(g, f, {"title", "titles"})
      BY <2>4, TitlesLoaded
    <2> HIDE DEF g
    <2>6. Sound(F!Blank, k)
      BY <2>3 DEF Sound
    <2>7. Sound(g, k)
      BY <2>3, <2>4, <2>5 DEF Sound, KeptBut, Fields
    <2>8. F!Blank # None /\ g # None
      BY <2>3, <2>5 DEF F!FormAssumption
    <2> HIDE DEF k
    <2> QED
      BY <2>1, <2>3, <2>5, <2>6, <2>7, <2>8, ViewChanges
  <1>3. ASSUME F!HandleBack(w)
        PROVE  FormInv'
    <2>1. UNCHANGED <<account, touches, commits>> /\ form' = [form EXCEPT ![w] = None]
          /\ known' = [known EXCEPT ![w] = {}]
      BY <1>3 DEF F!HandleBack
    <2> QED
      BY <2>1, ViewChanges
  <1> QED
    BY <1>1, <1>2, <1>3

LEMMA SavingStep ==
  ASSUME F!FormAssumption, FormInv, NEW w \in Windows,
         F!SaveChanges(w) \/ \E u \in Users : F!SaveUser(w, u)
  PROVE  FormInv'
  <1> DEFINE f == form[w]
             g == [f EXCEPT !.step = "saved"]
  <1>1. f # None /\ F!Accepted(f) /\ f.asked = None
    BY DEF F!SaveChanges, F!SaveUser, F!Idle
  <1>2. f \in F!Forms /\ Sound(f, known[w])
    BY <1>1, OpenForm
  <1>3. g \in F!Forms /\ KeptBut(g, f, {"step"}) /\ g.step = "saved"
    BY <1>2 DEF F!Forms, KeptBut, Fields
  <1>4. form' = [form EXCEPT ![w] = g]
    BY DEF F!SaveChanges, F!SaveUser
  <1> HIDE DEF g, f
  <1>5. Sound(g, known[w])
    BY <1>1, <1>2, <1>3 DEF Sound, KeptBut, Fields
  <1>6. F!Valid(f) /\ F!Belongs(f)
    BY <1>1 DEF F!Accepted
  <1>7. PICK u \in Users, active \in BOOLEAN : F!Commit(w, u, F!Written(f, active))
    <2>1. CASE F!SaveChanges(w)
      <3>1. f.user # None /\ F!Commit(w, f.user, F!Written(f, account[f.user].active))
        BY <2>1 DEF F!SaveChanges, f
      <3>2. f.user \in Users /\ account[f.user].active \in BOOLEAN
        BY <1>2, <3>1 DEF Sound, F!Accounts, FormInv, F!TypeOK, F!Rows
      <3> QED
        BY <3>1, <3>2
    <2>2. ASSUME NEW u \in Users, F!SaveUser(w, u)
          PROVE  F!Commit(w, u, F!Written(f, TRUE))
      BY <2>2 DEF F!SaveUser, F!Created, f
    <2> QED
      BY <2>1, <2>2
  <1> DEFINE row == F!Written(f, active)
  <1>8. row \in F!Rows /\ DepartmentOf[row.title] = row.department
    BY <1>2, <1>6, RowWritten
  <1> HIDE DEF row
  <1>9. /\ account' \in [Users -> F!Rows \cup {None}] /\ F!Accounts \subseteq F!Accounts'
        /\ F!PairKept' /\ touches' \in 0..MaxTouches /\ commits' \in 0..MaxCommits
        /\ known' = known
    BY <1>7, <1>8, FormCommitted DEF row
  <1>10. DOMAIN known' = Windows
         /\ \A v \in Windows : known'[v] = IF v = w THEN known[w] ELSE known[v]
    BY <1>9 DEF FormInv, F!TypeOK
  <1>11. g # None
    BY <1>3 DEF F!FormAssumption
  <1> QED
    BY <1>3, <1>4, <1>5, <1>9, <1>10, <1>11, OneFormChanges

LEMMA SavedStep ==
  ASSUME F!FormAssumption, FormInv, NEW w \in Windows, F!AfterChanges(w) \/ F!AfterCreate(w)
  PROVE  FormInv'
  <1> DEFINE f == form[w]
             h == [f EXCEPT !.step = "idle"]
             fresh == [h EXCEPT !.seen = account[h.user]]
  <1>1. f # None /\ UNCHANGED <<account, touches, commits>>
    BY DEF F!AfterChanges, F!AfterCreate
  <1>2. f \in F!Forms /\ Sound(f, known[w])
    BY <1>1, OpenForm
  <1>3. h \in F!Forms /\ KeptBut(h, f, {"step"}) /\ h.step = "idle"
    BY <1>2 DEF F!Forms, KeptBut, Fields
  <1>4. \/ F!AfterChanges(w) /\ f.user # None /\
           \/ F!LoadUser(w, h.user)
           \/ form' = [form EXCEPT ![w] = h] /\ UNCHANGED known
           \/ /\ form' = [form EXCEPT ![w] = F!Populated(fresh, TRUE)]
              /\ known' = [known EXCEPT ![w] = known[w] \cup F!RowPairs(fresh.seen)]
        \/ form' = [form EXCEPT ![w] = None] /\ known' = [known EXCEPT ![w] = {}]
        \/ form' = [form EXCEPT ![w] = h] /\ UNCHANGED known
    BY DEF F!AfterChanges, F!AfterCreate
  <1> HIDE DEF f, h
  <1>5. Sound(h, known[w]) /\ h.user = f.user
    BY <1>2, <1>3 DEF Sound, KeptBut, Fields
  <1>6. CASE f.user # None /\ F!LoadUser(w, h.user)
    <2>1. h.user \in F!Accounts
      BY <1>5, <1>6 DEF Sound
    <2>2. PICK g \in F!Forms :
            /\ form' = [form EXCEPT ![w] = g]
            /\ known' = [known EXCEPT ![w] = F!RowPairs(account[h.user])]
            /\ Sound(g, F!RowPairs(account[h.user]))
      BY <1>6, <2>1, LoadedUser
    <2>3. g # None
      BY DEF F!FormAssumption
    <2> QED
      BY <1>1, <2>2, <2>3, ViewChanges
  <1>7. CASE form' = [form EXCEPT ![w] = h] /\ UNCHANGED known
    <2>1. h # None
      BY <1>3 DEF F!FormAssumption
    <2> QED
      BY <1>1, <1>3, <1>5, <1>7, <2>1, ViewChanges
  <1>8. CASE form' = [form EXCEPT ![w] = None] /\ known' = [known EXCEPT ![w] = {}]
    BY <1>1, <1>8, ViewChanges
  <1>9. CASE /\ f.user # None
             /\ form' = [form EXCEPT ![w] = F!Populated(fresh, TRUE)]
             /\ known' = [known EXCEPT ![w] = known[w] \cup F!RowPairs(fresh.seen)]
    <2>1. h.user \in F!Accounts /\ account[h.user] \in F!Rows
      BY <1>5, <1>9 DEF Sound, F!Accounts, FormInv, F!TypeOK
    <2>2. fresh \in F!Forms /\ KeptBut(fresh, h, {"seen"}) /\ fresh.seen = account[h.user]
      BY <1>3, <2>1 DEF F!Forms, KeptBut, Fields
    <2> HIDE DEF fresh
    <2> DEFINE g == F!Populated(fresh, TRUE)
               k == known[w] \cup F!RowPairs(fresh.seen)
    <2>3. /\ g \in F!Forms
          /\ g.name = fresh.seen.name /\ g.role \in {fresh.seen.role, fresh.role}
          /\ g.department \in {fresh.seen.department, fresh.department}
          /\ KeptBut(g, fresh, {"name", "role", "department", "title", "titles"})
          /\ g.title = fresh.title /\ g.titles = fresh.titles
      <3>1. TRUE \in BOOLEAN
        OBVIOUS
      <3> QED
        BY <2>1, <2>2, <3>1, FormFilled
    <2>4. known[w] \subseteq k /\ <<"name", fresh.seen.name>> \in k
          /\ <<"role", fresh.seen.role>> \in k /\ <<"department", fresh.seen.department>> \in k
      BY DEF F!RowPairs, F!Columns
    <2> HIDE DEF g, k
    <2>5. /\ g.user = h.user /\ g.seen = account[h.user] /\ g.title = h.title
          /\ g.titles = h.titles /\ fresh.role = h.role /\ fresh.department = h.department
          /\ g.step = h.step
      BY <2>2, <2>3 DEF KeptBut, Fields
    <2>6. Sound(g, k)
      BY <1>3, <1>5, <1>9, <2>1, <2>3, <2>4, <2>5 DEF Sound
    <2>7. g # None
      BY <2>3 DEF F!FormAssumption
    <2> QED
      BY <1>1, <1>9, <2>3, <2>6, <2>7, ViewChanges DEF g, k
  <1> QED
    BY <1>4, <1>6, <1>7, <1>8, <1>9

LEMMA AskingStep ==
  ASSUME F!FormAssumption, FormInv, NEW w \in Windows,
         F!ToggleAccountStatus(w) \/ F!Unconfirmed(w) \/ F!AfterToggle(w)
  PROVE  FormInv'
  <1> DEFINE f == form[w]
  <1>1. f # None /\ UNCHANGED <<account, touches, commits>>
    BY DEF F!ToggleAccountStatus, F!Unconfirmed, F!AfterToggle, F!Idle
  <1>2. f \in F!Forms /\ Sound(f, known[w])
    BY <1>1, OpenForm
  <1>3. \A g \in F!Forms : g # None
    BY DEF F!FormAssumption
  <1>4. CASE F!ToggleAccountStatus(w)
    <2> DEFINE g == [f EXCEPT !.asked = ~f.seen.active]
    <2>1. /\ f.button \in {"Disable", "Enable"} /\ f.step = "idle"
          /\ form' = [form EXCEPT ![w] = g] /\ known' = known
      BY <1>4 DEF F!ToggleAccountStatus, F!Idle
    <2>2. f.user # None /\ f.seen.active \in BOOLEAN
      BY <1>2, <2>1 DEF Sound, F!Rows
    <2>3. g \in F!Forms /\ KeptBut(g, f, {"asked"})
      BY <1>2, <2>2 DEF F!Forms, KeptBut, Fields
    <2> HIDE DEF g, f
    <2>4. Sound(g, known[w])
      BY <1>2, <2>1, <2>2, <2>3 DEF Sound, KeptBut, Fields
    <2> QED
      BY <1>1, <1>3, <2>1, <2>3, <2>4, ViewChanges
  <1>5. CASE F!Unconfirmed(w)
    <2> DEFINE g == [f EXCEPT !.asked = None]
    <2>1. form' = [form EXCEPT ![w] = g] /\ known' = known
      BY <1>5 DEF F!Unconfirmed
    <2>2. g \in F!Forms /\ KeptBut(g, f, {"asked"}) /\ g.asked = None
      BY <1>2 DEF F!Forms, KeptBut, Fields
    <2> HIDE DEF g, f
    <2>3. Sound(g, known[w])
      BY <1>2, <2>2 DEF Sound, KeptBut, Fields
    <2> QED
      BY <1>1, <1>3, <2>1, <2>2, <2>3, ViewChanges
  <1>6. CASE F!AfterToggle(w)
    <2> DEFINE h == [f EXCEPT !.step = "idle"]
               fresh == [h EXCEPT !.seen = account[h.user]]
               g == F!RefreshAccountStatus(w, fresh)
    <2>1. f.step = "toggled"
          /\ \/ /\ form' = [form EXCEPT ![w] = h]
                /\ known' = [known EXCEPT ![w] = known[w]]
             \/ /\ form' = [form EXCEPT ![w] = g]
                /\ known' = [known EXCEPT ![w] = known[w] \cup F!RowPairs(fresh.seen)]
      BY <1>6 DEF F!AfterToggle, F!FormKept
    <2>2. h \in F!Forms /\ KeptBut(h, f, {"step"}) /\ h.step = "idle"
      BY <1>2 DEF F!Forms, KeptBut, Fields
    <2> HIDE DEF f, h
    <2>3. f.user # None /\ Sound(h, known[w]) /\ h.user = f.user
      BY <1>2, <2>1, <2>2 DEF Sound, KeptBut, Fields
    <2>4. account[h.user] \in F!Rows
      BY <2>3 DEF Sound, F!Accounts, FormInv, F!TypeOK
    <2>5. fresh \in F!Forms /\ KeptBut(fresh, h, {"seen"}) /\ fresh.seen = account[h.user]
      BY <2>2, <2>4 DEF F!Forms, KeptBut, Fields
    <2> HIDE DEF fresh
    <2>6. F!ButtonOf(w, fresh.user, fresh.seen) \in {"Disable", "Enable", "Current", "None"}
      BY DEF F!ButtonOf
    <2>7. g \in F!Forms /\ KeptBut(g, fresh, {"button"})
      BY <2>5, <2>6 DEF F!RefreshAccountStatus, F!Forms, KeptBut, Fields
    <2> HIDE DEF g
    <2>8. Sound(g, known[w] \cup F!RowPairs(fresh.seen))
      <3>1. KeptBut(g, h, {"seen", "button"}) /\ g.seen = account[h.user]
        BY <2>5, <2>7 DEF KeptBut, Fields
      <3> QED
        BY <2>3, <2>4, <3>1 DEF Sound, KeptBut, Fields
    <2> QED
      BY <1>1, <1>3, <2>1, <2>2, <2>3, <2>7, <2>8, ViewChanges
  <1> QED
    BY <1>4, <1>5, <1>6

LEMMA ConfirmedStep ==
  ASSUME F!FormAssumption, FormInv, NEW w \in Windows, F!Confirmed(w)
  PROVE  FormInv'
  <1> DEFINE f == form[w]
             g == [f EXCEPT !.asked = None, !.step = "toggled"]
             row == [account[f.user] EXCEPT !.active = f.asked]
  <1>1. f # None /\ f.asked # None /\ F!Commit(w, f.user, row) /\ form' = [form EXCEPT ![w] = g]
    BY DEF F!Confirmed, F!Wish
  <1>2. f \in F!Forms /\ Sound(f, known[w])
    BY <1>1, OpenForm
  <1>3. f.user \in F!Accounts /\ f.asked \in BOOLEAN
    BY <1>1, <1>2 DEF Sound, F!Forms
  <1>4. g \in F!Forms /\ KeptBut(g, f, {"asked", "step"}) /\ g.asked = None
    BY <1>2 DEF F!Forms, KeptBut, Fields
  <1> HIDE DEF f, g
  <1>5. Sound(g, known[w])
    <2>1. f.user # None
      BY <1>3 DEF F!FormAssumption, F!Accounts
    <2> QED
      BY <1>2, <1>4, <2>1 DEF Sound, KeptBut, Fields
  <1>6. f.user \in Users /\ account[f.user] \in F!Rows
    BY <1>3 DEF F!Accounts, FormInv, F!TypeOK
  <1>7. row \in F!Rows /\ row.title = account[f.user].title
        /\ row.department = account[f.user].department
    BY <1>3, <1>6 DEF F!Rows
  <1> HIDE DEF row
  <1>8. row.title # None => DepartmentOf[row.title] = row.department
    BY <1>3, <1>7 DEF FormInv, F!PairKept
  <1>9. /\ account' \in [Users -> F!Rows \cup {None}] /\ F!Accounts \subseteq F!Accounts'
        /\ F!PairKept' /\ touches' \in 0..MaxTouches /\ commits' \in 0..MaxCommits
        /\ known' = known
    BY <1>1, <1>6, <1>7, <1>8, FormCommitted
  <1>10. DOMAIN known' = Windows
         /\ \A v \in Windows : known'[v] = IF v = w THEN known[w] ELSE known[v]
    BY <1>9 DEF FormInv, F!TypeOK
  <1>11. g # None
    BY <1>4 DEF F!FormAssumption
  <1> QED
    BY <1>1, <1>4, <1>5, <1>9, <1>10, <1>11, OneFormChanges

LEMMA FormStep ==
  ASSUME F!FormAssumption, FormInv, [F!Next]_(F!vars)
  PROVE  FormInv'
  <1>1. CASE UNCHANGED F!vars
    BY <1>1 DEF FormInv, F!TypeOK, F!PairKept, F!Accounts, Sound, F!vars
  <1>2. CASE F!Next
    <2>1. PICK w \in Windows :
            \/ \E u \in Users : F!ShowEditUser(w, u)
            \/ \E u \in Users : F!SaveUser(w, u)
            \/ F!ShowCreateUser(w) \/ F!HandleBack(w)
            \/ \E name \in Names : F!TypeName(w, name)
            \/ \E role \in Roles : F!ChooseRole(w, role)
            \/ \E department \in Departments : F!HandleDepartmentChange(w, department)
            \/ \E title \in Titles : F!ChooseTitle(w, title)
            \/ F!SaveChanges(w) \/ F!AfterChanges(w) \/ F!AfterCreate(w)
            \/ F!ToggleAccountStatus(w) \/ F!Unconfirmed(w)
            \/ F!Confirmed(w) \/ F!AfterToggle(w)
      BY <1>2 DEF F!Next
    <2> QED
      BY <2>1, OpeningStep, EntriesStep, SavingStep, SavedStep, AskingStep, ConfirmedStep
  <1> QED
    BY <1>1, <1>2

LEMMA FormInit ==
  ASSUME F!FormAssumption, F!Init
  PROVE  FormInv
  <1>1. /\ account \in Start /\ form = [w \in Windows |-> None]
        /\ known = [w \in Windows |-> {}] /\ touches = 0 /\ commits = 0
    BY DEF F!Init
  <1>2. F!TypeOK
    BY <1>1 DEF F!FormAssumption, F!TypeOK
  <1>3. F!PairKept
    BY <1>1 DEF F!FormAssumption, F!PairKept, F!Accounts
  <1> QED
    BY <1>1, <1>2, <1>3 DEF FormInv

\* No save gives an account a job title of another department, whatever fails
\* and however many windows save, disable and enable.
THEOREM FormsKeepThePair == F!FormAssumption /\ F!Spec => [](F!TypeOK /\ F!PairKept)
  <1> SUFFICES ASSUME F!FormAssumption PROVE F!Spec => [](F!TypeOK /\ F!PairKept)
    OBVIOUS
  <1>1. F!Init => FormInv
    BY FormInit
  <1>2. FormInv /\ [F!Next]_(F!vars) => FormInv'
    BY FormStep
  <1>3. FormInv => F!TypeOK /\ F!PairKept
    BY DEF FormInv
  <1> QED
    BY <1>1, <1>2, <1>3, PTL DEF F!Spec

\* What a step does to the one form that it changes.
Saves(w) == F!SaveChanges(w) \/ \E u \in Users : F!SaveUser(w, u)
Follows(w, g) == g # None /\ g.user # None => g.button = F!ButtonOf(w, g.user, g.seen)
Moved(w, g) ==
  /\ form' = [form EXCEPT ![w] = g]
  /\ account' = account \/ Saves(w) \/ F!Confirmed(w)
  /\ form[w] # None /\ g # None /\ form[w].step # "saved" /\ touches' = touches =>
       \A x \in F!Columns : g[x] = form[w][x]
  /\ g # None /\ g.step = "saved" => Saves(w)
  /\ ~MayFail /\ Follows(w, form[w]) => Follows(w, g)

\* A form that keeps its fields moves like that.
LEMMA FieldsKept ==
  ASSUME NEW w \in Windows, NEW g, form[w] # None, form' = [form EXCEPT ![w] = g],
         account' = account \/ Saves(w) \/ F!Confirmed(w),
         KeptBut(g, form[w], {"asked", "step"}), g.step = "saved" => Saves(w)
  PROVE  Moved(w, g)
  <1>1. /\ g.user = form[w].user /\ g.seen = form[w].seen /\ g.button = form[w].button
        /\ \A x \in F!Columns : g[x] = form[w][x]
    BY DEF KeptBut, Fields, F!Columns
  <1> QED
    BY <1>1 DEF Moved, Follows

LEMMA OpeningMoves ==
  ASSUME F!FormAssumption, FormInv, NEW w \in Windows,
         \/ \E u \in Users : F!ShowEditUser(w, u)
         \/ F!ShowCreateUser(w) \/ F!HandleBack(w)
  PROVE  \E g : Moved(w, g)
  <1>1. account' = account
    BY DEF F!ShowEditUser, F!ShowCreateUser, F!HandleBack
  <1>2. ASSUME NEW u \in Users, F!ShowEditUser(w, u)
        PROVE  \E g : Moved(w, g)
    <2>1. u \in F!Accounts /\ F!LoadUser(w, u) /\ form[w] = None
      BY <1>2 DEF F!ShowEditUser
    <2>2. PICK g \in F!Forms :
            /\ form' = [form EXCEPT ![w] = g] /\ g.user = u /\ g.step = "idle"
            /\ ~MayFail => g.seen = account[u] /\ g.button = F!ButtonOf(w, u, account[u])
      BY <2>1, LoadedUser
    <2>3. Moved(w, g)
      BY <1>1, <2>1, <2>2 DEF Moved, Follows
    <2> QED
      BY <2>3
  <1>3. ASSUME F!ShowCreateUser(w)
        PROVE  \E g : Moved(w, g)
    <2> DEFINE department == F!First(Departments \cap Active)
               role == F!First(Roles \cap Active)
               f == [F!Blank EXCEPT !.ready = TRUE, !.role = role, !.department = department]
               g == F!LoadJobTitles(f, department, None)
    <2>1. form[w] = None
          /\ \/ form' = [form EXCEPT ![w] = F!Blank]
             \/ form' = [form EXCEPT ![w] = g]
      BY <1>3 DEF F!ShowCreateUser, F!LoadReferenceData
    <2>2. department \in Departments \cup {None} /\ role \in Roles \cup {None}
      BY FirstIsOne
    <2> HIDE DEF department, role
    <2>3. F!Blank \in F!Forms /\ F!Blank.user = None /\ F!Blank.step = "idle"
      BY DEF F!Blank, F!Forms
    <2>4. f \in F!Forms /\ KeptBut(f, F!Blank, {"ready", "role", "department"})
      BY <2>2, <2>3 DEF F!Forms, KeptBut, Fields
    <2> HIDE DEF f
    <2>5. KeptBut(g, f, {"title", "titles"})
      BY <2>4, TitlesLoaded
    <2> HIDE DEF g
    <2>6. g.user = None /\ g.step = "idle"
      BY <2>3, <2>4, <2>5 DEF KeptBut, Fields
    <2>7. Moved(w, F!Blank) \/ Moved(w, g)
      BY <1>1, <2>1, <2>3, <2>6 DEF Moved, Follows
    <2> QED
      BY <2>7
  <1>4. ASSUME F!HandleBack(w)
        PROVE  Moved(w, None)
    BY <1>1, <1>4 DEF F!HandleBack, Moved, Follows
  <1> QED
    BY <1>2, <1>3, <1>4

LEMMA EntriesMove ==
  ASSUME F!FormAssumption, FormInv, NEW w \in Windows,
         \/ \E name \in Names : F!TypeName(w, name)
         \/ \E role \in Roles : F!ChooseRole(w, role)
         \/ \E department \in Departments : F!HandleDepartmentChange(w, department)
         \/ \E title \in Titles : F!ChooseTitle(w, title)
  PROVE  \E g : Moved(w, g)
  <1>1. form[w] # None /\ form[w].step = "idle"
    BY DEF F!TypeName, F!ChooseRole, F!HandleDepartmentChange, F!ChooseTitle, F!Idle
  <1>2. form[w] \in F!Forms
    BY <1>1, OpenForm
  <1>3. PICK g, pairs :
          F!Touched(w, g, pairs) /\ KeptBut(g, form[w], F!Columns \cup {"titles"})
    <2>1. ASSUME NEW name \in Names, F!TypeName(w, name)
          PROVE  \E g, pairs :
                   F!Touched(w, g, pairs) /\ KeptBut(g, form[w], F!Columns \cup {"titles"})
      <3> DEFINE g == [form[w] EXCEPT !.name = name]
      <3>1. KeptBut(g, form[w], F!Columns \cup {"titles"})
        BY <1>2 DEF F!Forms, KeptBut, Fields, F!Columns
      <3>2. F!Touched(w, g, {<<"name", name>>})
        BY <2>1 DEF F!TypeName
      <3> QED
        BY <3>1, <3>2
    <2>2. ASSUME NEW role \in Roles, F!ChooseRole(w, role)
          PROVE  \E g, pairs :
                   F!Touched(w, g, pairs) /\ KeptBut(g, form[w], F!Columns \cup {"titles"})
      <3> DEFINE g == [form[w] EXCEPT !.role = role]
      <3>1. KeptBut(g, form[w], F!Columns \cup {"titles"})
        BY <1>2 DEF F!Forms, KeptBut, Fields, F!Columns
      <3>2. F!Touched(w, g, {<<"role", role>>})
        BY <2>2 DEF F!ChooseRole
      <3> QED
        BY <3>1, <3>2
    <2>3. ASSUME NEW title \in Titles, F!ChooseTitle(w, title)
          PROVE  \E g, pairs :
                   F!Touched(w, g, pairs) /\ KeptBut(g, form[w], F!Columns \cup {"titles"})
      <3> DEFINE g == [form[w] EXCEPT !.title = title]
      <3>1. KeptBut(g, form[w], F!Columns \cup {"titles"})
        BY <1>2 DEF F!Forms, KeptBut, Fields, F!Columns
      <3>2. F!Touched(w, g, {<<"title", title>>})
        BY <2>3 DEF F!ChooseTitle
      <3> QED
        BY <3>1, <3>2
    <2>4. ASSUME NEW department \in Departments, F!HandleDepartmentChange(w, department)
          PROVE  \E g, pairs :
                   F!Touched(w, g, pairs) /\ KeptBut(g, form[w], F!Columns \cup {"titles"})
      <3> DEFINE f == [form[w] EXCEPT !.department = department]
                 h == F!LoadJobTitles(f, department, None)
      <3>1. f \in F!Forms /\ KeptBut(f, form[w], F!Columns \cup {"titles"})
        BY <1>2 DEF F!Forms, KeptBut, Fields, F!Columns
      <3>2. (\E pairs : F!Touched(w, f, pairs)) \/ (\E pairs : F!Touched(w, h, pairs))
        BY <2>4 DEF F!HandleDepartmentChange
      <3> HIDE DEF f
      <3>3. KeptBut(h, f, {"title", "titles"})
        BY <3>1, TitlesLoaded
      <3> HIDE DEF h
      <3>4. KeptBut(h, form[w], F!Columns \cup {"titles"})
        BY <3>1, <3>3 DEF KeptBut, Fields, F!Columns
      <3> QED
        BY <3>1, <3>2, <3>4
    <2> QED
      BY <2>1, <2>2, <2>3, <2>4
  <1>4. touches' = touches + 1 /\ touches \in Nat /\ form' = [form EXCEPT ![w] = g]
        /\ account' = account
    BY <1>3 DEF F!Touched, FormInv, F!TypeOK, F!FormAssumption
  <1>5. /\ g.user = form[w].user /\ g.seen = form[w].seen /\ g.button = form[w].button
        /\ g.step = "idle"
    BY <1>1, <1>3 DEF KeptBut, Fields, F!Columns
  <1>6. touches' # touches
    BY <1>4
  <1>7. Moved(w, g)
    BY <1>1, <1>4, <1>5, <1>6 DEF Moved, Follows
  <1> QED
    BY <1>7

LEMMA CallsMove ==
  ASSUME F!FormAssumption, FormInv, NEW w \in Windows,
         Saves(w) \/ F!ToggleAccountStatus(w) \/ F!Unconfirmed(w) \/ F!Confirmed(w)
  PROVE  \E g : Moved(w, g)
  <1> DEFINE f == form[w]
  <1>1. f # None
    BY DEF Saves, F!SaveChanges, F!SaveUser, F!ToggleAccountStatus, F!Unconfirmed,
           F!Confirmed, F!Idle
  <1>2. f \in F!Forms /\ Sound(f, known[w])
    BY <1>1, OpenForm
  <1>3. CASE Saves(w)
    <2> DEFINE g == [f EXCEPT !.step = "saved"]
    <2>1. KeptBut(g, f, {"asked", "step"})
      BY <1>2 DEF F!Forms, KeptBut, Fields
    <2>2. form' = [form EXCEPT ![w] = g]
      BY <1>3 DEF Saves, F!SaveChanges, F!SaveUser
    <2> HIDE DEF g
    <2> QED
      BY <1>1, <1>3, <2>1, <2>2, FieldsKept
  <1>4. CASE F!ToggleAccountStatus(w)
    <2> DEFINE g == [f EXCEPT !.asked = ~f.seen.active]
    <2>1. KeptBut(g, f, {"asked", "step"}) /\ g.step = f.step /\ f.step = "idle"
      BY <1>2, <1>4 DEF F!Forms, KeptBut, Fields, F!ToggleAccountStatus, F!Idle
    <2>2. form' = [form EXCEPT ![w] = g] /\ account' = account
      BY <1>4 DEF F!ToggleAccountStatus
    <2> HIDE DEF g
    <2> QED
      BY <1>1, <2>1, <2>2, FieldsKept
  <1>5. CASE F!Unconfirmed(w)
    <2> DEFINE g == [f EXCEPT !.asked = None]
    <2>1. KeptBut(g, f, {"asked", "step"}) /\ g.step = f.step
      BY <1>2 DEF F!Forms, KeptBut, Fields
    <2>2. form' = [form EXCEPT ![w] = g] /\ account' = account /\ f.step # "saved"
      BY <1>2, <1>5 DEF F!Unconfirmed, Sound
    <2> HIDE DEF g
    <2> QED
      BY <1>1, <2>1, <2>2, FieldsKept
  <1>6. CASE F!Confirmed(w)
    <2> DEFINE g == [f EXCEPT !.asked = None, !.step = "toggled"]
    <2>1. KeptBut(g, f, {"asked", "step"}) /\ g.step = "toggled"
      BY <1>2 DEF F!Forms, KeptBut, Fields
    <2>2. form' = [form EXCEPT ![w] = g]
      BY <1>6 DEF F!Confirmed
    <2> HIDE DEF g
    <2> QED
      BY <1>1, <1>6, <2>1, <2>2, FieldsKept
  <1> QED
    BY <1>3, <1>4, <1>5, <1>6

LEMMA AnswersMove ==
  ASSUME F!FormAssumption, FormInv, NEW w \in Windows,
         F!AfterChanges(w) \/ F!AfterCreate(w) \/ F!AfterToggle(w)
  PROVE  \E g : Moved(w, g)
  <1> DEFINE f == form[w]
             h == [f EXCEPT !.step = "idle"]
             fresh == [h EXCEPT !.seen = account[h.user]]
  <1>1. f # None /\ account' = account
    BY DEF F!AfterChanges, F!AfterCreate, F!AfterToggle
  <1>2. f \in F!Forms /\ Sound(f, known[w])
    BY <1>1, OpenForm
  <1>3. h \in F!Forms /\ KeptBut(h, f, {"step"}) /\ h.step = "idle"
    BY <1>2 DEF F!Forms, KeptBut, Fields
  <1>4. \/ f.step = "saved" /\ f.user # None /\ F!LoadUser(w, h.user)
        \/ form' = [form EXCEPT ![w] = h]
        \/ /\ MayFail /\ f.step = "saved" /\ f.user # None
           /\ form' = [form EXCEPT ![w] = F!Populated(fresh, TRUE)]
        \/ form' = [form EXCEPT ![w] = None]
        \/ f.step = "toggled" /\ form' = [form EXCEPT ![w] = F!RefreshAccountStatus(w, fresh)]
    BY DEF F!AfterChanges, F!AfterCreate, F!AfterToggle, F!FormKept
  <1> HIDE DEF h
  <1>5. h.user = f.user /\ h.step # "saved"
    BY <1>3 DEF KeptBut, Fields
  <1>6. CASE f.step = "saved" /\ f.user # None /\ F!LoadUser(w, h.user)
    <2>1. h.user \in F!Accounts
      BY <1>2, <1>5, <1>6 DEF Sound
    <2>2. PICK g \in F!Forms :
            /\ form' = [form EXCEPT ![w] = g] /\ g.user = h.user /\ g.step = "idle"
            /\ ~MayFail => g.seen = account[h.user] /\ g.button = F!ButtonOf(w, h.user, account[h.user])
      BY <1>6, <2>1, LoadedUser
    <2>3. Moved(w, g)
      BY <1>1, <1>6, <2>2 DEF Moved, Follows
    <2> QED
      BY <2>3
  <1>7. CASE form' = [form EXCEPT ![w] = h]
    <2>1. KeptBut(h, form[w], {"asked", "step"})
      BY <1>3 DEF KeptBut, Fields
    <2> QED
      BY <1>1, <1>5, <1>7, <2>1, FieldsKept
  <1>8. CASE form' = [form EXCEPT ![w] = None]
    <2>1. Moved(w, None)
      BY <1>1, <1>8 DEF Moved, Follows
    <2> QED
      BY <2>1
  <1>9. CASE f.user # None /\ (f.step = "saved" \/ f.step = "toggled")
    <2>1. account[h.user] \in F!Rows
      BY <1>2, <1>5, <1>9 DEF Sound, F!Accounts, FormInv, F!TypeOK
    <2>2. fresh \in F!Forms /\ KeptBut(fresh, h, {"seen"}) /\ fresh.seen \in F!Rows
      BY <1>3, <2>1 DEF F!Forms, KeptBut, Fields
    <2> HIDE DEF fresh
    <2>3. KeptBut(fresh, f, {"seen", "step"}) /\ fresh.step = "idle"
      BY <1>3, <2>2 DEF KeptBut, Fields
    <2>4. CASE MayFail /\ f.step = "saved" /\ form' = [form EXCEPT ![w] = F!Populated(fresh, TRUE)]
      <3> DEFINE g == F!Populated(fresh, TRUE)
      <3>1. KeptBut(g, fresh, {"name", "role", "department", "title", "titles"})
        <4>1. TRUE \in BOOLEAN
          OBVIOUS
        <4> QED
          BY <2>2, <4>1, FormFilled
      <3> HIDE DEF g
      <3>2. g.step = "idle"
        BY <2>3, <3>1 DEF KeptBut, Fields
      <3>3. Moved(w, g)
        BY <1>1, <2>4, <3>2 DEF Moved, g
      <3> QED
        BY <3>3
    <2>5. CASE /\ f.step = "toggled"
               /\ form' = [form EXCEPT ![w] = F!RefreshAccountStatus(w, fresh)]
      <3> DEFINE g == F!RefreshAccountStatus(w, fresh)
      <3>1. F!ButtonOf(w, fresh.user, fresh.seen) \in {"Disable", "Enable", "Current", "None"}
        BY DEF F!ButtonOf
      <3>2. KeptBut(g, fresh, {"button"}) /\ g.button = F!ButtonOf(w, fresh.user, fresh.seen)
        BY <2>2, <3>1 DEF F!RefreshAccountStatus, F!Forms, KeptBut, Fields
      <3> HIDE DEF g
      <3>3. /\ g.user = fresh.user /\ g.seen = fresh.seen /\ g.step = "idle"
            /\ \A x \in F!Columns : g[x] = f[x]
        BY <2>3, <3>2 DEF KeptBut, Fields, F!Columns
      <3>4. Moved(w, g)
        BY <1>1, <2>5, <3>2, <3>3 DEF Moved, Follows, g
      <3> QED
        BY <3>4
    <2> QED
      BY <1>4, <1>6, <1>7, <1>8, <1>9, <2>4, <2>5
  <1>10. f.step = "toggled" => f.user # None
    BY <1>2 DEF Sound
  <1> QED
    BY <1>4, <1>6, <1>7, <1>8, <1>9, <1>10

LEMMA FormMoves ==
  ASSUME F!FormAssumption, FormInv, F!Next
  PROVE  \E w \in Windows : \E g : Moved(w, g)
  <1>1. PICK w \in Windows :
          \/ \E u \in Users : F!ShowEditUser(w, u)
          \/ F!ShowCreateUser(w) \/ F!HandleBack(w)
          \/ \E name \in Names : F!TypeName(w, name)
          \/ \E role \in Roles : F!ChooseRole(w, role)
          \/ \E department \in Departments : F!HandleDepartmentChange(w, department)
          \/ \E title \in Titles : F!ChooseTitle(w, title)
          \/ Saves(w) \/ F!AfterChanges(w) \/ F!AfterCreate(w)
          \/ F!ToggleAccountStatus(w) \/ F!Unconfirmed(w)
          \/ F!Confirmed(w) \/ F!AfterToggle(w)
    BY DEF F!Next, Saves
  <1>2. \E g : Moved(w, g)
    BY <1>1, OpeningMoves, EntriesMove, CallsMove, AnswersMove
  <1> QED
    BY <1>2

\* Without failing queries the button says what the dialog will ask.
THEOREM ButtonsFollow ==
  ASSUME F!FormAssumption, ~MayFail
  PROVE  F!Spec => []F!ButtonFollowsSeen
  <1> DEFINE Inv == FormInv /\ \A w \in Windows : Follows(w, form[w])
  <1>1. F!Init => Inv
    BY FormInit DEF F!Init, Follows
  <1>2. Inv /\ [F!Next]_(F!vars) => Inv'
    <2> SUFFICES ASSUME Inv, [F!Next]_(F!vars) PROVE (\A w \in Windows : Follows(w, form[w]))'
      BY FormStep
    <2>1. CASE UNCHANGED F!vars
      BY <2>1 DEF F!vars, Follows
    <2>2. CASE F!Next
      <3>0. PICK w \in Windows : \E g : Moved(w, g)
        BY <2>2, FormMoves
      <3>1. PICK g : Moved(w, g)
        BY <3>0
      <3>2. form \in [Windows -> F!Forms \cup {None}]
        BY DEF FormInv, F!TypeOK
      <3>3. \A v \in Windows : form'[v] = IF v = w THEN g ELSE form[v]
        BY <3>1, <3>2 DEF Moved
      <3>4. \A v \in Windows : Follows(v, form'[v])
        BY <3>1, <3>3 DEF Moved
      <3> QED
        BY <3>4 DEF Follows, F!ButtonOf
    <2> QED
      BY <2>1, <2>2
  <1>3. Inv => F!ButtonFollowsSeen
    BY DEF Follows, F!ButtonFollowsSeen
  <1> HIDE DEF Inv
  <1> QED
    BY <1>1, <1>2, <1>3, PTL DEF F!Spec

\* The fields of a form stay until it is saved, overwritten by hand or left.
THEOREM EntriesStay ==
  ASSUME F!FormAssumption
  PROVE  F!Spec => [][F!EntriesKept]_(F!vars)
  <1>1. FormInv /\ [F!Next]_(F!vars) => [F!EntriesKept]_(F!vars)
    <2> SUFFICES ASSUME FormInv, F!Next PROVE F!EntriesKept
      BY DEF F!vars
    <2>0. PICK w \in Windows : \E g : Moved(w, g)
      BY FormMoves
    <2>1. PICK g : Moved(w, g)
      BY <2>0
    <2>2. form \in [Windows -> F!Forms \cup {None}]
      BY DEF FormInv, F!TypeOK
    <2>3. \A v \in Windows : form'[v] = IF v = w THEN g ELSE form[v]
      BY <2>1, <2>2 DEF Moved
    <2> QED
      BY <2>1, <2>3 DEF Moved, F!EntriesKept
  <1>2. F!Init => FormInv
    BY FormInit
  <1>3. FormInv /\ [F!Next]_(F!vars) => FormInv'
    BY FormStep
  <1> QED
    BY <1>1, <1>2, <1>3, PTL DEF F!Spec

\* A save writes what its form has read or was given, but for a title that the
\* form had to fall back to.
THEOREM SavesAreSeen ==
  ASSUME F!FormAssumption
  PROVE  F!Spec => [][F!SavesWhatWasSeen]_(F!vars)
  <1>1. FormInv /\ [F!Next]_(F!vars) => [F!SavesWhatWasSeen]_(F!vars)
    <2> SUFFICES ASSUME FormInv, F!Next PROVE F!SavesWhatWasSeen
      BY DEF F!vars
    <2> SUFFICES ASSUME NEW v \in Windows, form[v] # None, form[v].user # None,
                        form[v].step = "idle", form'[v] # None, form'[v].step = "saved"
                 PROVE  LET u == form[v].user
                            Seen(x) == {p[2] : p \in {q \in known[v] : q[1] = x}}
                        IN  /\ account'[u].name \in {Lower[n] : n \in Seen("name")}
                            /\ \A x \in {"role", "department"} : account'[u][x] \in Seen(x)
                            /\ \/ account'[u].title \in Seen("title")
                               \/ ~(Seen("title") \subseteq form[v].titles)
      BY DEF F!SavesWhatWasSeen
    <2> DEFINE f == form[v]
               Seen(x) == {p[2] : p \in {q \in known[v] : q[1] = x}}
    <2>0. PICK w \in Windows : \E g : Moved(w, g)
      BY FormMoves
    <2>1. PICK g : Moved(w, g)
      BY <2>0
    <2>2. form \in [Windows -> F!Forms \cup {None}]
      BY DEF FormInv, F!TypeOK
    <2>3. \A x \in Windows : form'[x] = IF x = w THEN g ELSE form[x]
      BY <2>1, <2>2 DEF Moved
    <2>4. v = w /\ Saves(v)
      BY <2>1, <2>3 DEF Moved
    <2>5. F!SaveChanges(v)
      BY <2>4 DEF Saves, F!SaveUser
    <2>6. /\ F!Valid(f) /\ F!Belongs(f)
          /\ F!Commit(v, f.user, F!Written(f, account[f.user].active))
      BY <2>5 DEF F!SaveChanges, F!Accepted
    <2>7. f \in F!Forms /\ Sound(f, known[v])
      BY OpenForm
    <2>8. f.user \in Users /\ account[f.user].active \in BOOLEAN
      BY <2>7 DEF Sound, F!Accounts, FormInv, F!TypeOK, F!Rows
    <2> DEFINE row == F!Written(f, account[f.user].active)
    <2>9. /\ row.name = Lower[f.name] /\ row.role = f.role
          /\ row.department = f.department /\ row.title = f.title
      BY DEF F!Written
    <2>10. account'[f.user] = row
      BY <2>6, <2>8 DEF F!Commit, FormInv, F!TypeOK
    <2>11. \A x, y : <<x, y>> \in known[v] => y \in Seen(x)
      <3> SUFFICES ASSUME NEW x, NEW y, <<x, y>> \in known[v] PROVE y \in Seen(x)
        OBVIOUS
      <3>1. <<x, y>>[1] = x /\ <<x, y>>[2] = y
        OBVIOUS
      <3> QED
        BY <3>1
    <2>12. /\ \A x \in {"name", "role", "department"} : f[x] \in Seen(x)
           /\ f.title \in Seen("title") \/ \E t \in Seen("title") : t \notin f.titles
      <3>1. f.name # None /\ f.role # None /\ f.department # None
        BY <2>6 DEF F!Valid
      <3> HIDE DEF f, Seen
      <3>2. /\ \A x \in {"name", "role", "department"} : f[x] = None \/ <<x, f[x]>> \in known[v]
            /\ \/ <<"title", f.title>> \in known[v]
               \/ \E t : <<"title", t>> \in known[v] /\ t \notin f.titles
        BY <2>7 DEF Sound, f
      <3> QED
        BY <2>11, <3>1, <3>2
    <2> HIDE DEF row, Seen
    <2>13. /\ account'[f.user].name \in {Lower[n] : n \in Seen("name")}
           /\ \A x \in {"role", "department"} : account'[f.user][x] \in Seen(x)
           /\ \/ account'[f.user].title \in Seen("title")
              \/ ~(Seen("title") \subseteq f.titles)
      BY <2>9, <2>10, <2>12
    <2> QED
      BY <2>13 DEF Seen
  <1>2. F!Init => FormInv
    BY FormInit
  <1>3. FormInv /\ [F!Next]_(F!vars) => FormInv'
    BY FormStep
  <1> QED
    BY <1>1, <1>2, <1>3, PTL DEF F!Spec

\* An account is disabled or enabled only when a dialog that an administrator
\* confirmed asked for just that.
THEOREM DirectionConfirmed ==
  ASSUME F!FormAssumption
  PROVE  F!Spec => [][F!ConfirmedDirection]_(F!vars)
  <1>1. FormInv /\ [F!Next]_(F!vars) => [F!ConfirmedDirection]_(F!vars)
    <2> SUFFICES ASSUME FormInv, F!Next PROVE F!ConfirmedDirection
      BY DEF F!vars
    <2> SUFFICES ASSUME NEW u \in F!Accounts, account'[u].active # account[u].active
                 PROVE  \E w \in Windows : /\ form[w] # None /\ form[w].user = u
                                           /\ form[w].asked = account'[u].active
      BY DEF F!ConfirmedDirection
    <2>0. PICK w \in Windows : \E g : Moved(w, g)
      BY FormMoves
    <2>1. PICK g : Moved(w, g)
      BY <2>0
    <2>2. Saves(w) \/ F!Confirmed(w)
      BY <2>1 DEF Moved
    <2>3. account \in [Users -> F!Rows \cup {None}] /\ u \in Users
      BY DEF FormInv, F!TypeOK, F!Accounts
    <2>4. ASSUME NEW v, NEW row, F!Commit(w, v, row), u # v \/ row.active = account[u].active
          PROVE  FALSE
      BY <2>3, <2>4 DEF F!Commit
    <2>5. CASE F!SaveChanges(w)
      <3>1. F!Commit(w, form[w].user, F!Written(form[w], account[form[w].user].active))
        BY <2>5 DEF F!SaveChanges
      <3>2. F!Written(form[w], account[form[w].user].active).active = account[form[w].user].active
        BY DEF F!Written
      <3> QED
        BY <2>4, <3>1, <3>2
    <2>6. ASSUME NEW v \in Users, F!SaveUser(w, v)
          PROVE  FALSE
      <3>1. F!Commit(w, v, F!Created(form[w])) /\ v \notin F!Accounts
        BY <2>6 DEF F!SaveUser
      <3> QED
        BY <2>4, <3>1
    <2>7. CASE F!Confirmed(w)
      <3> DEFINE v == form[w].user
                 row == [account[v] EXCEPT !.active = form[w].asked]
      <3>1. form[w] # None /\ form[w].asked # None /\ F!Commit(w, v, row)
        BY <2>7 DEF F!Confirmed, F!Wish
      <3>2. u = v
        BY <2>4, <3>1
      <3>3. account'[u] = row
        BY <2>3, <3>1, <3>2 DEF F!Commit
      <3>4. account[u] \in F!Rows
        BY <2>3 DEF F!Accounts
      <3>5. row.active = form[w].asked
        BY <3>2, <3>4 DEF F!Rows
      <3> QED
        BY <3>1, <3>2, <3>3, <3>5
    <2> QED
      BY <2>2, <2>5, <2>6, <2>7 DEF Saves
  <1>2. F!Init => FormInv
    BY FormInit
  <1>3. FormInv /\ [F!Next]_(F!vars) => FormInv'
    BY FormStep
  <1> QED
    BY <1>1, <1>2, <1>3, PTL DEF F!Spec
=============================================================================
