------------------------ MODULE AutoAssignment_proofs ------------------------
(***************************************************************************)
(* The unattended worker, in any number of processes: what one of them has *)
(* claimed stays its own, and, as long as only they assign, they share the *)
(* work out evenly although their counts overlap.                          *)
(***************************************************************************)
EXTENDS AutoAssignment, FiniteSetTheorems, TLAPS

WorkInv == TypeOK /\ ClaimStands

LEMMA AsleepType == Asleep \in WorkerStates
  BY WorkAssumption DEF Asleep, WorkerStates

\* An officer has some number of open assignments.
LEMMA WorkloadType == ASSUME NEW o PROVE Workload(o) \in Nat
  <1> DEFINE S == {m \in Requests : request[m].state = "Assigned"
                                    /\ request[m].assigned_to = o}
  <1>1. IsFiniteSet(S)
    BY WorkAssumption, FS_Subset
  <1> QED
    BY <1>1, FS_CardinalityType DEF Workload

-----------------------------------------------------------------------------
(* The invariant holds.                                                    *)

LEMMA WorkInit == Init => WorkInv
  <1> SUFFICES ASSUME Init PROVE WorkInv
    OBVIOUS
  <1>1. request \in [Requests -> RequestRows]
    BY DEF Init, RequestRows
  <1>2. Asleep.step = "asleep" /\ Asleep.mr \notin Requests
    BY WorkAssumption DEF Asleep
  <1>3. \A w \in Workers : worker[w] = Asleep
    BY DEF Init
  <1> QED
    BY <1>1, <1>2, <1>3, AsleepType DEF Init, WorkInv, TypeOK, ClaimStands

\* w may be at v: v is a state of a worker, and what it claims is w's.
Proper(w, v) ==
    /\ v \in WorkerStates
    /\ v.step \in {"claimed", "ranking"} <=> v.mr \in Requests
    /\ v.step \in {"claimed", "ranking"} =>
          request'[v.mr].state = "New" /\ rowLock'[v.mr] = w

\* A step of one process keeps the invariant when the rows that others have
\* claimed stay as they are.
LEMMA WorkerKeeps ==
    ASSUME WorkInv, NEW w \in Workers, NEW v, Proper(w, v),
           worker' = [worker EXCEPT ![w] = v],
           request' \in [Requests -> RequestRows],
           rowLock' \in [Requests -> Workers \union {"client", Null}],
           active' = active, account' = account, clock' = clock,
           failures' \in Nat,
           \A m \in Requests : rowLock[m] \in Workers \ {w} =>
              request'[m] = request[m] /\ rowLock'[m] = rowLock[m]
    PROVE  WorkInv'
  <1>1. \A u \in Workers : worker'[u] = IF u = w THEN v ELSE worker[u]
    BY DEF WorkInv, TypeOK
  <1>2. TypeOK'
    BY <1>1 DEF WorkInv, TypeOK, Proper
  <1>3. ASSUME NEW u \in Workers, worker'[u].step \in {"claimed", "ranking"}
        PROVE  /\ request'[worker'[u].mr].state = "New"
               /\ rowLock'[worker'[u].mr] = u
    BY <1>1, <1>3 DEF WorkInv, TypeOK, ClaimStands, Proper
  <1> QED
    BY <1>2, <1>3 DEF WorkInv, ClaimStands

\* So does a step of somebody else.
LEMMA OthersKeep ==
    ASSUME WorkInv,
           request' \in [Requests -> RequestRows],
           rowLock' \in [Requests -> Workers \union {"client", Null}],
           UNCHANGED worker,
           active' \in SUBSET Officers, account' \in BOOLEAN, clock' \in Nat,
           failures' \in Nat,
           \A m \in Requests : rowLock[m] \in Workers /\ request[m].state = "New" =>
              request'[m] = request[m] /\ rowLock'[m] = rowLock[m]
    PROVE  WorkInv'
  BY DEF WorkInv, TypeOK, ClaimStands

\* A worker at v sleeps, or runs its cycle: nothing is claimed.
LEMMA IdleIsProper ==
    ASSUME NEW w \in Workers, NEW v \in WorkerStates,
           v.step \notin {"claimed", "ranking"}, v.mr = Null
    PROVE  Proper(w, v)
  BY WorkAssumption DEF Proper

LEMMA SleepKeeps ==
    ASSUME WorkInv, NEW w \in Workers, NEW step \in {"asleep", "stopped"},
           worker' = [worker EXCEPT ![w] = [Asleep EXCEPT !.step = step]],
           rowLock' \in {rowLock, Unclaimed(w)}, failures' \in Nat,
           UNCHANGED <<request, active, account, clock>>
    PROVE  WorkInv'
  <1> DEFINE v == [Asleep EXCEPT !.step = step]
  <1>1. v \in WorkerStates /\ v.step = step /\ v.mr = Null
    BY AsleepType DEF Asleep, WorkerStates
  <1>2. Proper(w, v)
    BY <1>1, IdleIsProper
  <1>3. /\ rowLock' \in [Requests -> Workers \union {"client", Null}]
        /\ \A m \in Requests : rowLock[m] \in Workers \ {w} =>
              rowLock'[m] = rowLock[m]
    BY DEF WorkInv, TypeOK, Unclaimed
  <1> QED
    BY <1>2, <1>3, WorkerKeeps DEF WorkInv, TypeOK

LEMMA ClaimKeeps ==
    ASSUME WorkInv, NEW w \in Workers, Claim(w)
    PROVE  WorkInv'
  <1>1. PICK m \in Requests :
           /\ Claimable(m)
           /\ rowLock' = [rowLock EXCEPT ![m] = w]
           /\ worker' = [worker EXCEPT ![w].step = "claimed", ![w].mr = m]
    BY DEF Claim
  <1> DEFINE v == [worker[w] EXCEPT !.step = "claimed", !.mr = m]
  <1>2. v \in WorkerStates /\ v.step = "claimed" /\ v.mr = m
    BY DEF WorkInv, TypeOK, WorkerStates
  <1>3. worker' = [worker EXCEPT ![w] = v]
    BY <1>1 DEF WorkInv, TypeOK
  <1>4. /\ rowLock' \in [Requests -> Workers \union {"client", Null}]
        /\ rowLock'[m] = w
        /\ \A n \in Requests \ {m} : rowLock'[n] = rowLock[n]
        /\ rowLock[m] = Null /\ request'[m].state = "New"
    BY <1>1 DEF WorkInv, TypeOK, Claimable, Due, Claim
  <1>5. Proper(w, v)
    BY <1>2, <1>4 DEF Proper
  <1> QED
    BY <1>3, <1>4, <1>5, WorkerKeeps, WorkAssumption DEF WorkInv, TypeOK, Claim

\* Listing and counting go on with the same request.
LEMMA GoOnKeeps ==
    ASSUME WorkInv, NEW w \in Workers, NEW v \in WorkerStates,
           worker[w].step \in {"claimed", "ranking"},
           v.step = "ranking", v.mr = worker[w].mr,
           worker' = [worker EXCEPT ![w] = v],
           UNCHANGED <<request, rowLock, active, account, clock, failures>>
    PROVE  WorkInv'
  <1>1. Proper(w, v)
    BY DEF WorkInv, TypeOK, ClaimStands, Proper
  <1> QED
    BY <1>1, WorkerKeeps DEF WorkInv, TypeOK

LEMMA ListKeeps ==
    ASSUME WorkInv, NEW w \in Workers, ListOfficers(w)
    PROVE  WorkInv'
  <1> DEFINE v == [worker[w] EXCEPT !.step = "ranking", !.officers = active]
  <1>1. v \in WorkerStates /\ v.step = "ranking" /\ v.mr = worker[w].mr
    BY DEF WorkInv, TypeOK, WorkerStates
  <1>2. worker' = [worker EXCEPT ![w] = v]
    BY DEF ListOfficers, WorkInv, TypeOK
  <1> QED
    BY <1>1, <1>2, GoOnKeeps DEF ListOfficers

\* What a worker has after it counted the work of o.
HasCounted(v, o) ==
    [v EXCEPT !.counted = v.counted \union {o},
              !.workload = [v.workload EXCEPT ![o] = Workload(o)]]

LEMMA CountWrites ==
    ASSUME WorkInv, NEW w \in Workers, NEW o \in Officers, CountWorkload(w, o)
    PROVE  /\ HasCounted(worker[w], o) \in WorkerStates
           /\ worker' = [worker EXCEPT ![w] = HasCounted(worker[w], o)]
  <1>1. worker[w] \in WorkerStates /\ Workload(o) \in Nat
    BY WorkloadType DEF WorkInv, TypeOK
  <1>2. worker' = [worker EXCEPT ![w].counted = @ \union {o},
                                 ![w].workload[o] = Workload(o)]
    BY DEF CountWorkload
  <1>3. HasCounted(worker[w], o) \in WorkerStates
    BY <1>1 DEF HasCounted, WorkerStates
  <1>4. worker' = [worker EXCEPT ![w] = HasCounted(worker[w], o)]
    BY <1>1, <1>2 DEF HasCounted, WorkInv, TypeOK, WorkerStates
  <1> QED
    BY <1>3, <1>4

LEMMA CountKeeps ==
    ASSUME WorkInv, NEW w \in Workers, NEW o \in Officers, CountWorkload(w, o)
    PROVE  WorkInv'
  <1>1. /\ HasCounted(worker[w], o).step = worker[w].step
        /\ HasCounted(worker[w], o).mr = worker[w].mr
    BY DEF HasCounted, WorkInv, TypeOK, WorkerStates
  <1>2. /\ HasCounted(worker[w], o) \in WorkerStates
        /\ worker' = [worker EXCEPT ![w] = HasCounted(worker[w], o)]
    BY CountWrites
  <1>3. /\ worker[w].step = "ranking"
        /\ UNCHANGED <<request, rowLock, active, account, clock, failures>>
    BY DEF CountWorkload
  <1> QED
    BY <1>1, <1>2, <1>3, GoOnKeeps

\* What a worker is after an assignment.
HasAssigned(w) ==
    IF worker[w].done + 1 = MaxAssignments
      THEN Asleep
      ELSE [Asleep EXCEPT !.step = "running", !.done = worker[w].done + 1]

\* r as the assignment to o leaves it.
InWork(r, o) == [r EXCEPT !.state = "Assigned", !.assigned_to = o]

\* An assignment gives the claimed request an officer and the row back.
LEMMA CommitWrites ==
    ASSUME WorkInv, NEW w \in Workers, Commit(w)
    PROVE  /\ worker[w].mr \in Requests
           /\ rowLock[worker[w].mr] = w /\ request[worker[w].mr].state = "New"
           /\ rowLock' = [rowLock EXCEPT ![worker[w].mr] = Null]
           /\ \E o \in Officers :
                 /\ LeastLoaded(o, worker[w].officers, worker[w].workload)
                 /\ request' = [request EXCEPT ![worker[w].mr] =
                        InWork(request[worker[w].mr], o)]
           /\ worker' = [worker EXCEPT ![w] = HasAssigned(w)]
           /\ HasAssigned(w) \in WorkerStates
           /\ HasAssigned(w).step \in {"asleep", "running"}
           /\ HasAssigned(w).mr = Null /\ HasAssigned(w).counted = {}
  <1> DEFINE m == worker[w].mr
  <1>1. m \in Requests /\ rowLock[m] = w /\ request[m].state = "New"
    BY DEF Commit, WorkInv, TypeOK, ClaimStands
  <1>2. worker[w].done \in 0 .. MaxAssignments - 1
    BY DEF WorkInv, TypeOK, WorkerStates
  <1>3. /\ HasAssigned(w) \in WorkerStates
        /\ HasAssigned(w).step \in {"asleep", "running"}
        /\ HasAssigned(w).mr = Null /\ HasAssigned(w).counted = {}
    <2>1. CASE worker[w].done + 1 = MaxAssignments
      BY <2>1, AsleepType DEF HasAssigned, Asleep
    <2>2. CASE worker[w].done + 1 # MaxAssignments
      <3>1. worker[w].done + 1 \in 0 .. MaxAssignments - 1
        BY <1>2, <2>2, WorkAssumption
      <3> QED
        BY <2>2, <3>1, AsleepType DEF HasAssigned, Asleep, WorkerStates
    <2> QED
      BY <2>1, <2>2
  <1>4. worker' = [worker EXCEPT ![w] = HasAssigned(w)]
    BY DEF Commit, HasAssigned
  <1>5. ASSUME NEW o \in Officers,
               request' = [request EXCEPT ![m].state = "Assigned",
                                          ![m].assigned_to = o]
        PROVE  request' = [request EXCEPT ![m] = InWork(request[m], o)]
    BY <1>1, <1>5 DEF WorkInv, TypeOK, RequestRows, InWork
  <1> QED
    BY <1>1, <1>3, <1>4, <1>5 DEF Commit

LEMMA CommitKeeps ==
    ASSUME WorkInv, NEW w \in Workers, Commit(w)
    PROVE  WorkInv'
  <1> DEFINE m == worker[w].mr
  <1>1. PICK o \in Officers :
           request' = [request EXCEPT ![m] = InWork(request[m], o)]
    BY CommitWrites
  <1>2. /\ m \in Requests /\ rowLock[m] = w
        /\ rowLock' = [rowLock EXCEPT ![m] = Null]
        /\ worker' = [worker EXCEPT ![w] = HasAssigned(w)]
    BY CommitWrites
  <1>3. Proper(w, HasAssigned(w))
    BY CommitWrites, IdleIsProper
  <1>4. request' \in [Requests -> RequestRows]
    BY <1>1, <1>2 DEF WorkInv, TypeOK, RequestRows, InWork
  <1>5. rowLock' \in [Requests -> Workers \union {"client", Null}]
    BY <1>2 DEF WorkInv, TypeOK
  <1>6. \A n \in Requests : rowLock[n] \in Workers \ {w} =>
           request'[n] = request[n] /\ rowLock'[n] = rowLock[n]
    BY <1>1, <1>2 DEF WorkInv, TypeOK
  <1> QED
    BY <1>2, <1>3, <1>4, <1>5, <1>6, WorkerKeeps DEF WorkInv, TypeOK, Commit

LEMMA WakeKeeps ==
    ASSUME WorkInv, NEW w \in Workers, Wake(w)
    PROVE  WorkInv'
  <1> DEFINE v == [worker[w] EXCEPT !.step = "running"]
  <1>1. v \in WorkerStates /\ v.step = "running" /\ v.mr = worker[w].mr
    BY DEF WorkInv, TypeOK, WorkerStates
  <1>2. v.mr \notin Requests
    BY <1>1 DEF Wake, WorkInv, TypeOK
  <1>3. worker' = [worker EXCEPT ![w] = v]
    BY DEF Wake, WorkInv, TypeOK
  <1>4. Proper(w, v)
    BY <1>1, <1>2 DEF Proper
  <1> QED
    BY <1>3, <1>4, WorkerKeeps DEF Wake, WorkInv, TypeOK

\* A client writes the row of m, which no worker has.
LEMMA RowKeeps ==
    ASSUME WorkInv, NEW m \in Requests, NEW r \in RequestRows, NEW l \in {"client", Null},
           rowLock[m] \notin Workers \/ request[m].state # "New",
           request' = [request EXCEPT ![m] = r],
           rowLock' \in {rowLock, [rowLock EXCEPT ![m] = l]},
           UNCHANGED <<worker, active, account, clock, failures>>
    PROVE  WorkInv'
  <1>1. /\ request' \in [Requests -> RequestRows]
        /\ rowLock' \in [Requests -> Workers \union {"client", Null}]
        /\ \A n \in Requests \ {m} : request'[n] = request[n]
                                      /\ rowLock'[n] = rowLock[n]
    BY DEF WorkInv, TypeOK
  <1> QED
    BY <1>1, OthersKeep DEF WorkInv, TypeOK

\* The steps of the clients are writes of one row.
LEMMA ClientsKeep ==
    ASSUME WorkInv, NEW m \in Requests,
           \/ CreateRequest(m) \/ LockRow(m) \/ ReleaseRow(m) \/ DeleteRequest(m)
           \/ \E o \in Officers : AssignManually(m, o)
    PROVE  WorkInv'
  <1>1. /\ request[m] \in RequestRows /\ request = [request EXCEPT ![m] = request[m]]
        /\ "client" \notin Workers /\ Null \notin Workers
    BY WorkAssumption DEF WorkInv, TypeOK
  <1>2. CASE CreateRequest(m)
    <2> DEFINE r == [request[m] EXCEPT !.state = "New", !.created_at = clock]
    <2>1. r \in RequestRows /\ request' = [request EXCEPT ![m] = r]
      BY <1>1, <1>2 DEF CreateRequest, WorkInv, TypeOK, RequestRows
    <2> QED
      BY <1>2, <2>1, RowKeeps DEF CreateRequest
  <1>3. CASE LockRow(m)
    BY <1>1, <1>3, RowKeeps DEF LockRow
  <1>4. CASE ReleaseRow(m)
    BY <1>1, <1>4, RowKeeps DEF ReleaseRow
  <1>5. CASE DeleteRequest(m)
    <2> DEFINE r == [request[m] EXCEPT !.state = "deleted"]
    <2>1. r \in RequestRows /\ request' = [request EXCEPT ![m] = r]
      BY <1>1, <1>5 DEF DeleteRequest, WorkInv, TypeOK, RequestRows
    <2> QED
      BY <1>1, <1>5, <2>1, RowKeeps DEF DeleteRequest
  <1>6. ASSUME NEW o \in Officers, AssignManually(m, o) PROVE WorkInv'
    <2> DEFINE r == [request[m] EXCEPT !.state = "Assigned", !.assigned_to = o]
    <2>1. r \in RequestRows /\ request' = [request EXCEPT ![m] = r]
      BY <1>1, <1>6 DEF AssignManually, WorkInv, TypeOK, RequestRows
    <2> QED
      BY <1>1, <1>6, <2>1, RowKeeps DEF AssignManually
  <1> QED
    BY <1>2, <1>3, <1>4, <1>5, <1>6

LEMMA WorkStep == WorkInv /\ [Next]_vars => WorkInv'
  <1> SUFFICES ASSUME WorkInv, [Next]_vars PROVE WorkInv'
    OBVIOUS
  <1>1. CASE UNCHANGED vars
    BY <1>1, OthersKeep DEF vars, WorkInv, TypeOK
  <1>2. ASSUME NEW w \in Workers, WorkerStep(w) \/ FailCycle(w) \/ Stop(w)
        PROVE  WorkInv'
    <2>1. CASE Wake(w)
      BY <2>1, WakeKeeps
    <2>2. CASE Claim(w)
      BY <2>2, ClaimKeeps
    <2>3. CASE ListOfficers(w)
      BY <2>3, ListKeeps
    <2>4. ASSUME NEW o \in Officers, CountWorkload(w, o) PROVE WorkInv'
      BY <2>4, CountKeeps
    <2>5. CASE Commit(w)
      BY <2>5, CommitKeeps
    <2>6. CASE EndCycle(w) \/ RaiseNoOfficer(w) \/ FailCycle(w) \/ Stop(w)
      <3>1. /\ \E step \in {"asleep", "stopped"} :
                  worker' = [worker EXCEPT ![w] = [Asleep EXCEPT !.step = step]]
            /\ rowLock' \in {rowLock, Unclaimed(w)} /\ failures' \in Nat
            /\ UNCHANGED <<request, active, account, clock>>
        <4>1. Asleep = [Asleep EXCEPT !.step = "asleep"]
          BY DEF Asleep
        <4>2. failures \in Nat /\ failures + 1 \in Nat
          BY DEF WorkInv, TypeOK
        <4>3. \/ worker' = [worker EXCEPT ![w] = Asleep]
              \/ worker' = [worker EXCEPT ![w] = [Asleep EXCEPT !.step = "stopped"]]
          BY <2>6 DEF EndCycle, RaiseNoOfficer, FailCycle, Stop, Sleep
        <4>4. /\ rowLock' \in {rowLock, Unclaimed(w)} /\ failures' \in Nat
              /\ UNCHANGED <<request, active, account, clock>>
          BY <2>6, <4>2 DEF EndCycle, RaiseNoOfficer, FailCycle, Stop
        <4> QED
          BY <4>1, <4>3, <4>4
      <3> QED
        BY <3>1, SleepKeeps
    <2> QED
      BY <1>2, <2>1, <2>2, <2>3, <2>4, <2>5, <2>6 DEF WorkerStep
  <1>3. ASSUME NEW m \in Requests,
               \/ CreateRequest(m) \/ LockRow(m) \/ ReleaseRow(m)
               \/ DeleteRequest(m)
               \/ \E o \in Officers : AssignManually(m, o)
        PROVE  WorkInv'
    BY <1>3, ClientsKeep
  <1>4. CASE \/ \E o \in Officers : ToggleOfficer(o)
             \/ ToggleAccount \/ Tick
    <2>1. /\ active' \in SUBSET Officers /\ account' \in BOOLEAN /\ clock' \in Nat
          /\ UNCHANGED <<request, rowLock, worker, failures>>
      <3>1. active \in SUBSET Officers /\ account \in BOOLEAN /\ clock \in Nat
        BY DEF WorkInv, TypeOK
      <3>2. CASE \E o \in Officers : ToggleOfficer(o)
        BY <3>1, <3>2 DEF ToggleOfficer
      <3>3. CASE ToggleAccount
        <4>1. account' \in BOOLEAN
          BY <3>3 DEF ToggleAccount
        <4> QED
          BY <3>1, <3>3, <4>1 DEF ToggleAccount
      <3>4. CASE Tick
        BY <3>1, <3>4 DEF Tick
      <3> QED
        BY <1>4, <3>2, <3>3, <3>4
    <2> QED
      BY <2>1, OthersKeep DEF WorkInv, TypeOK
  <1> QED
    BY <1>1, <1>2, <1>3, <1>4 DEF Next

\* The columns, the row locks and the states of the processes are what they
\* should be: a process has a request exactly between claim and commit, and
\* never makes more assignments in a cycle than it may.
THEOREM WorkTypeCorrect == Spec => []TypeOK
  <1>1. WorkInv => TypeOK
    BY DEF WorkInv
  <1> QED
    BY WorkInit, WorkStep, <1>1, PTL DEF Spec

\* What a process claimed stays New, and its own, until its transaction ends.
THEOREM ClaimsStand == Spec => []ClaimStands
  <1>1. WorkInv => ClaimStands
    BY DEF WorkInv
  <1> QED
    BY WorkInit, WorkStep, <1>1, PTL DEF Spec

-----------------------------------------------------------------------------
(* The work is spread evenly.                                              *)

\* The load of o that the choice of v goes by: what v has counted, or would
\* count now.
Believes(v, o) ==
    IF o \in worker[v].counted THEN worker[v].workload[o] ELSE Workload(o)

\* The processes that do not take o for an officer with a load of at most t.
Beyond(o, t) == {v \in Workers : Believes(v, o) > t}

\* Every process ranks all officers, by counts that are right or too low.
CountsAreOld ==
    \A v \in Workers :
        /\ worker[v].step = "ranking" => worker[v].officers = Officers
        /\ worker[v].step # "ranking" => worker[v].counted = {}
        /\ \A o \in worker[v].counted : worker[v].workload[o] <= Workload(o)

\* The assignments that took o above t, while some officer had no more than t,
\* were each made by another process, and none of those believes any longer
\* that o has at most t.
OnePerProcess ==
    \A o, p \in Officers, t \in Nat :
        Workload(p) <= t => Workload(o) <= t + Cardinality(Beyond(o, t))

LevelInv == WorkInv /\ active = Officers /\ CountsAreOld /\ OnePerProcess

LEMMA BeyondFinite ==
    ASSUME NEW o, NEW t
    PROVE  IsFiniteSet(Beyond(o, t)) /\ Cardinality(Beyond(o, t)) \in Nat
  <1>1. IsFiniteSet(Beyond(o, t))
    BY WorkAssumption, FS_Subset DEF Beyond
  <1> QED
    BY <1>1, FS_CardinalityType

LEMMA BelievesType ==
    ASSUME TypeOK, NEW v \in Workers, NEW o \in Officers
    PROVE  Believes(v, o) \in Nat
  BY WorkloadType DEF Believes, TypeOK, WorkerStates

LEMMA LevelIsEven == LevelInv => WorkSpreadEvenly
  <1> SUFFICES ASSUME LevelInv, NEW o \in Officers, NEW p \in Officers
               PROVE  Workload(o) <= Workload(p) + Cardinality(Workers)
    BY DEF WorkSpreadEvenly
  <1> DEFINE S == Beyond(o, Workload(p))
  <1>1. Workload(o) <= Workload(p) + Cardinality(S)
    BY WorkloadType DEF LevelInv, OnePerProcess
  <1>2. Cardinality(S) <= Cardinality(Workers)
    BY WorkAssumption, FS_Subset DEF Beyond
  <1>3. Cardinality(Workers) \in Nat
    BY WorkAssumption, FS_CardinalityType
  <1> QED
    BY <1>1, <1>2, <1>3, WorkloadType, BeyondFinite

LEMMA LevelInit == Init => LevelInv
  <1> SUFFICES ASSUME Init PROVE LevelInv
    OBVIOUS
  <1>1. ASSUME NEW o PROVE Workload(o) = 0
    <2>1. {m \in Requests : request[m].state = "Assigned"
                            /\ request[m].assigned_to = o} = {}
      BY DEF Init
    <2> QED
      BY <2>1, FS_EmptySet DEF Workload
  <1>2. CountsAreOld
    BY DEF Init, CountsAreOld, Asleep
  <1>3. OnePerProcess
    BY <1>1, BeyondFinite DEF OnePerProcess
  <1> QED
    BY <1>2, <1>3, WorkInit DEF LevelInv, Init

\* The loads are as they are when nobody assigns.
LEMMA LoadsStay ==
    ASSUME \A m \in Requests :
              \/ request'[m] = request[m]
              \/ request[m].state # "Assigned" /\ request'[m].state # "Assigned",
           NEW o
    PROVE  Workload(o)' = Workload(o)
  <1>1. {m \in Requests : request'[m].state = "Assigned"
                          /\ request'[m].assigned_to = o}
        = {m \in Requests : request[m].state = "Assigned"
                            /\ request[m].assigned_to = o}
    OBVIOUS
  <1> QED
    BY <1>1 DEF Workload

\* Believing in more work does no harm.
LEMMA BelieveMore ==
    ASSUME LevelInv, WorkInv', UNCHANGED active, CountsAreOld',
           \A o \in Officers : Workload(o)' = Workload(o),
           \A v \in Workers, o \in Officers : Believes(v, o) <= Believes(v, o)'
    PROVE  LevelInv'
  <1> SUFFICES ASSUME NEW o \in Officers, NEW p \in Officers, NEW t \in Nat,
                      Workload(p)' <= t
               PROVE  Workload(o)' <= t + Cardinality(Beyond(o, t)')
    BY DEF LevelInv, OnePerProcess
  <1>1. Workload(o) <= t + Cardinality(Beyond(o, t))
    BY DEF LevelInv, OnePerProcess
  <1>2. Beyond(o, t) \subseteq Beyond(o, t)'
    <2> SUFFICES ASSUME NEW v \in Workers, Believes(v, o) > t
                 PROVE  Believes(v, o)' > t
      BY DEF Beyond
    <2>1. Believes(v, o) \in Nat
      BY BelievesType DEF LevelInv, WorkInv
    <2>2. Believes(v, o)' \in Nat
      BY WorkloadType DEF Believes, WorkInv, TypeOK, WorkerStates
    <2> QED
      BY <2>1, <2>2
  <1>3. /\ IsFiniteSet(Beyond(o, t)') /\ Cardinality(Beyond(o, t)') \in Nat
        /\ Cardinality(Beyond(o, t)) \in Nat
    BY BeyondFinite, WorkAssumption, FS_Subset, FS_CardinalityType DEF Beyond
  <1>4. Cardinality(Beyond(o, t)) <= Cardinality(Beyond(o, t)')
    BY <1>2, <1>3, FS_Subset
  <1> QED
    BY <1>1, <1>3, <1>4, WorkloadType

\* A process that lists, counts or starts again, while nobody assigns.
LEMMA OneGoesOn ==
    ASSUME LevelInv, WorkInv', UNCHANGED active,
           \A o \in Officers : Workload(o)' = Workload(o),
           NEW w \in Workers, NEW v \in WorkerStates,
           worker' = [worker EXCEPT ![w] = v],
           v.step = "ranking" => v.officers = Officers,
           v.step # "ranking" => v.counted = {},
           \A o \in v.counted : v.workload[o] <= Workload(o),
           \A o \in Officers :
              Believes(w, o) <= IF o \in v.counted THEN v.workload[o] ELSE Workload(o)
    PROVE  LevelInv'
  <1>1. \A u \in Workers : worker'[u] = IF u = w THEN v ELSE worker[u]
    BY DEF LevelInv, WorkInv, TypeOK
  <1>2. \A u \in Workers : worker'[u].counted \subseteq Officers
    BY DEF WorkInv, TypeOK, WorkerStates
  <1>3. CountsAreOld'
    BY <1>1, <1>2 DEF LevelInv, CountsAreOld
  <1>4. ASSUME NEW u \in Workers, NEW o \in Officers
        PROVE  Believes(u, o) <= Believes(u, o)'
    <2>1. CASE u = w
      BY <1>1, <2>1 DEF Believes
    <2>2. CASE u # w
      <3>1. Believes(u, o)' = Believes(u, o)
        BY <1>1, <2>2 DEF Believes
      <3>2. Believes(u, o) \in Nat
        BY BelievesType DEF LevelInv, WorkInv
      <3> QED
        BY <3>1, <3>2
    <2> QED
      BY <2>1, <2>2
  <1> QED
    BY <1>3, <1>4, BelieveMore

\* What a process has counted is too low at worst.
LEMMA BelievesAtMost ==
    ASSUME LevelInv, NEW w \in Workers, NEW o \in Officers
    PROVE  Believes(w, o) <= Workload(o)
  BY WorkloadType DEF LevelInv, CountsAreOld, Believes

\* An assignment to o: its load grows by one, and the process that made it,
\* which took o for an officer with the least load, no longer does.
LEMMA AssignmentKeepsLevel ==
    ASSUME LevelInv, WorkInv', NEW w \in Workers, Commit(w)
    PROVE  LevelInv'
  <1> DEFINE m == worker[w].mr
  <1>1. PICK x \in Officers :
           /\ LeastLoaded(x, worker[w].officers, worker[w].workload)
           /\ request' = [request EXCEPT ![m] = InWork(request[m], x)]
    BY CommitWrites DEF LevelInv
  <1>2. /\ m \in Requests /\ request[m].state = "New"
        /\ worker' = [worker EXCEPT ![w] = HasAssigned(w)]
        /\ HasAssigned(w).step # "ranking" /\ HasAssigned(w).counted = {}
    BY CommitWrites DEF LevelInv
  <1>3. \A u \in Workers : worker'[u] = IF u = w THEN HasAssigned(w) ELSE worker[u]
    BY <1>2 DEF LevelInv, WorkInv, TypeOK
  <1>4. \A o \in Officers : Workload(o)' = IF o = x THEN Workload(o) + 1 ELSE Workload(o)
    <2> SUFFICES ASSUME NEW o \in Officers
                 PROVE  Workload(o)' = IF o = x THEN Workload(o) + 1 ELSE Workload(o)
      OBVIOUS
    <2> DEFINE S == {n \in Requests : request[n].state = "Assigned"
                                      /\ request[n].assigned_to = o}
               T == {n \in Requests : request'[n].state = "Assigned"
                                      /\ request'[n].assigned_to = o}
    <2>1. /\ request'[m].state = "Assigned" /\ request'[m].assigned_to = x
          /\ \A n \in Requests \ {m} : request'[n] = request[n]
      BY <1>1, <1>2 DEF LevelInv, WorkInv, TypeOK, RequestRows, InWork
    <2>2. IsFiniteSet(S)
      BY WorkAssumption, FS_Subset
    <2>3. m \notin S
      BY <1>2
    <2>4. CASE o = x
      <3>1. T = S \union {m}
        BY <1>2, <2>1, <2>4
      <3>2. Cardinality(T) = Cardinality(S) + 1
        BY <2>2, <2>3, <3>1, FS_AddElement
      <3> QED
        BY <2>4, <3>2 DEF Workload
    <2>5. CASE o # x
      <3>1. T = S
        BY <1>2, <2>1, <2>5
      <3> QED
        BY <2>5, <3>1 DEF Workload
    <2> QED
      BY <2>4, <2>5
  <1>5. \A o \in Officers : Workload(o) <= Workload(o)'
    BY <1>4, WorkloadType
  <1>6. CountsAreOld'
    <2> SUFFICES ASSUME NEW u \in Workers
                 PROVE  /\ worker'[u].step = "ranking" => worker'[u].officers = Officers
                        /\ worker'[u].step # "ranking" => worker'[u].counted = {}
                        /\ \A o \in worker'[u].counted :
                              worker'[u].workload[o] <= Workload(o)'
      BY DEF CountsAreOld
    <2>1. CASE u = w
      BY <1>2, <1>3, <2>1
    <2>2. CASE u # w
      <3>1. worker'[u] = worker[u] /\ worker[u] \in WorkerStates
        BY <1>3, <2>2 DEF LevelInv, WorkInv, TypeOK
      <3>2. \A o \in worker[u].counted :
               /\ o \in Officers /\ worker[u].workload[o] \in Nat
               /\ worker[u].workload[o] <= Workload(o)
        BY <3>1 DEF LevelInv, CountsAreOld, WorkerStates
      <3>3. \A o \in worker[u].counted : worker[u].workload[o] <= Workload(o)'
        BY <1>4, <3>2, WorkloadType
      <3> QED
        BY <3>1, <3>3 DEF LevelInv, CountsAreOld
    <2> QED
      BY <2>1, <2>2
  <1>7. ASSUME NEW u \in Workers, NEW o \in Officers
        PROVE  Believes(u, o) \in Nat /\ Believes(u, o)' \in Nat
               /\ Believes(u, o) <= Believes(u, o)'
    <2>1. /\ Believes(u, o) \in Nat /\ Workload(o) \in Nat /\ Workload(o)' \in Nat
          /\ Believes(u, o) <= Workload(o) /\ Workload(o) <= Workload(o)'
      BY <1>4, <1>5, WorkloadType, BelievesType, BelievesAtMost DEF LevelInv, WorkInv
    <2>2. CASE u = w
      <3>1. Believes(u, o)' = Workload(o)'
        BY <1>2, <1>3, <2>2 DEF Believes
      <3> QED
        BY <2>1, <3>1
    <2>3. CASE u # w
      <3>1. Believes(u, o)' = IF o \in worker[u].counted THEN worker[u].workload[o]
                                                         ELSE Workload(o)'
        BY <1>3, <2>3 DEF Believes
      <3> QED
        BY <2>1, <3>1 DEF Believes
    <2> QED
      BY <2>2, <2>3
  <1>8. OnePerProcess'
    <2> SUFFICES ASSUME NEW o \in Officers, NEW p \in Officers, NEW t \in Nat,
                        Workload(p)' <= t
                 PROVE  Workload(o)' <= t + Cardinality(Beyond(o, t)')
      BY DEF OnePerProcess
    <2>1. Beyond(o, t) \subseteq Beyond(o, t)'
      BY <1>7 DEF Beyond
    <2>2. /\ IsFiniteSet(Beyond(o, t)') /\ Cardinality(Beyond(o, t)') \in Nat
          /\ IsFiniteSet(Beyond(o, t)) /\ Cardinality(Beyond(o, t)) \in Nat
      BY BeyondFinite, WorkAssumption, FS_Subset, FS_CardinalityType DEF Beyond
    <2>3. Cardinality(Beyond(o, t)) <= Cardinality(Beyond(o, t)')
      BY <2>1, <2>2, FS_Subset
    <2>4. Workload(p) <= t /\ Workload(o) <= t + Cardinality(Beyond(o, t))
      BY <1>4, WorkloadType DEF LevelInv, OnePerProcess
    <2>5. CASE o # x
      BY <1>4, <2>2, <2>3, <2>4, <2>5, WorkloadType
    <2>6. CASE o = x /\ Workload(o) + 1 <= t
      BY <1>4, <2>2, <2>6, WorkloadType
    <2>7. CASE o = x /\ t < Workload(o) + 1
      <3>1. p # x
        BY <1>4, <2>7, WorkloadType
      \* x was chosen, not p.
      <3>2. /\ worker[w].officers = Officers /\ worker[w].counted = Officers
            /\ worker[w].workload \in [Officers -> Nat]
        BY DEF Commit, LevelInv, CountsAreOld, WorkInv, TypeOK, WorkerStates
      <3>3. worker[w].workload[x] <= worker[w].workload[p]
        BY <1>1, <3>1, <3>2 DEF LeastLoaded
      <3>4. worker[w].workload[p] <= Workload(p)
        BY <3>2 DEF LevelInv, CountsAreOld
      <3>5. Believes(w, o) <= t
        BY <2>4, <2>7, <3>2, <3>3, <3>4, WorkloadType DEF Believes
      <3>6. w \notin Beyond(o, t)
        BY <1>7, <3>5 DEF Beyond
      <3>7. Believes(w, o)' = Workload(o) + 1
        BY <1>2, <1>3, <1>4, <2>7 DEF Believes
      <3>8. w \in Beyond(o, t)'
        BY <2>7, <3>7, WorkloadType DEF Beyond
      <3>9. Cardinality(Beyond(o, t) \union {w}) = Cardinality(Beyond(o, t)) + 1
        BY <2>2, <3>6, FS_AddElement
      <3>10. Cardinality(Beyond(o, t) \union {w}) <= Cardinality(Beyond(o, t)')
        BY <2>1, <2>2, <3>8, FS_Subset
      <3> QED
        BY <1>4, <2>2, <2>4, <2>7, <3>9, <3>10, WorkloadType
    <2> QED
      BY <2>5, <2>6, <2>7, WorkloadType
  <1> QED
    BY <1>6, <1>8 DEF LevelInv, Commit

\* A process that has no counts, or lost them, in a step that assigns nothing.
LEMMA NoCounts ==
    ASSUME LevelInv, WorkInv', UNCHANGED <<request, active>>,
           NEW w \in Workers, NEW v \in WorkerStates,
           worker' = [worker EXCEPT ![w] = v],
           v.counted = {}, v.step = "ranking" => v.officers = Officers
    PROVE  LevelInv'
  <1>1. \A o \in Officers : Workload(o)' = Workload(o)
    BY LoadsStay
  <1>2. \A o \in Officers : Believes(w, o) <= Workload(o)
    BY BelievesAtMost
  <1> QED
    BY <1>1, <1>2, OneGoesOn

LEMMA CountKeepsLevel ==
    ASSUME LevelInv, WorkInv', NEW w \in Workers, NEW x \in Officers,
           CountWorkload(w, x)
    PROVE  LevelInv'
  <1> DEFINE v == HasCounted(worker[w], x)
  <1>1. worker[w] \in WorkerStates /\ worker[w].step = "ranking"
    BY DEF CountWorkload, LevelInv, WorkInv, TypeOK
  <1>2. v \in WorkerStates /\ worker' = [worker EXCEPT ![w] = v]
    BY CountWrites DEF LevelInv
  <1>3. /\ v.step = "ranking" /\ v.officers = worker[w].officers
        /\ v.counted = worker[w].counted \union {x}
        /\ v.workload = [worker[w].workload EXCEPT ![x] = Workload(x)]
    BY <1>1 DEF HasCounted, WorkerStates
  <1>4. worker[w].officers = Officers
    BY <1>1 DEF LevelInv, CountsAreOld
  <1>5. worker[w].workload \in [Officers -> Nat] /\ worker[w].counted \subseteq Officers
    BY <1>1 DEF WorkerStates
  <1>6. \A o \in v.counted : v.workload[o] <= Workload(o)
    BY <1>3, <1>5, WorkloadType DEF LevelInv, CountsAreOld
  <1>7. \A o \in Officers :
           Believes(w, o) <= IF o \in v.counted THEN v.workload[o] ELSE Workload(o)
    <2>1. x \notin worker[w].counted
      BY DEF CountWorkload
    <2> QED
      BY <1>3, <1>5, <2>1, WorkloadType DEF Believes
  <1>8. UNCHANGED <<request, active>>
    BY DEF CountWorkload
  <1>9. \A o \in Officers : Workload(o)' = Workload(o)
    BY <1>8, LoadsStay
  <1> QED
    BY <1>2, <1>3, <1>4, <1>6, <1>7, <1>8, <1>9, OneGoesOn

\* Steps that leave the processes and the assignments alone.
LEMMA OthersKeepLevel ==
    ASSUME LevelInv, WorkInv', UNCHANGED <<worker, active>>,
           \A m \in Requests :
              \/ request'[m] = request[m]
              \/ request[m].state # "Assigned" /\ request'[m].state # "Assigned"
    PROVE  LevelInv'
  <1>1. \A o : Workload(o)' = Workload(o)
    BY LoadsStay
  <1>2. CountsAreOld'
    BY <1>1 DEF LevelInv, CountsAreOld
  <1>3. ASSUME NEW v \in Workers, NEW o \in Officers
        PROVE  Believes(v, o) <= Believes(v, o)'
    <2>1. Believes(v, o)' = Believes(v, o)
      BY <1>1 DEF Believes
    <2> QED
      BY <2>1, BelievesType DEF LevelInv, WorkInv
  <1> QED
    BY <1>1, <1>2, <1>3, BelieveMore

LEMMA LevelStep ==
    ASSUME ~ManualWork, ~StaffChanges, LevelInv, [Next]_vars
    PROVE  LevelInv'
  <1>1. WorkInv /\ WorkInv'
    BY WorkStep DEF LevelInv
  <1>2. CASE UNCHANGED vars
    BY <1>1, <1>2, OthersKeepLevel DEF vars
  <1>3. ASSUME NEW w \in Workers, WorkerStep(w) \/ FailCycle(w) \/ Stop(w)
        PROVE  LevelInv'
    <2>1. /\ worker[w] \in WorkerStates
          /\ worker[w].step # "ranking" => worker[w].counted = {}
      BY <1>1 DEF LevelInv, CountsAreOld, WorkInv, TypeOK
    <2>2. CASE Wake(w)
      <3> DEFINE v == [worker[w] EXCEPT !.step = "running"]
      <3>1. /\ v \in WorkerStates /\ v.step = "running" /\ v.counted = {}
            /\ worker' = [worker EXCEPT ![w] = v]
            /\ UNCHANGED <<request, active>>
        BY <1>1, <2>1, <2>2 DEF Wake, WorkerStates, WorkInv, TypeOK
      <3> QED
        BY <1>1, <3>1, NoCounts
    <2>3. CASE Claim(w)
      <3>1. PICK m \in Requests :
               worker' = [worker EXCEPT ![w].step = "claimed", ![w].mr = m]
        BY <2>3 DEF Claim
      <3> DEFINE v == [worker[w] EXCEPT !.step = "claimed", !.mr = m]
      <3>2. /\ v \in WorkerStates /\ v.step = "claimed" /\ v.counted = {}
            /\ worker' = [worker EXCEPT ![w] = v]
            /\ UNCHANGED <<request, active>>
        BY <1>1, <2>1, <2>3, <3>1 DEF Claim, WorkerStates, WorkInv, TypeOK
      <3> QED
        BY <1>1, <3>2, NoCounts
    <2>4. CASE ListOfficers(w)
      <3> DEFINE v == [worker[w] EXCEPT !.step = "ranking", !.officers = active]
      <3>1. /\ v \in WorkerStates /\ v.officers = Officers /\ v.counted = {}
            /\ worker' = [worker EXCEPT ![w] = v]
            /\ UNCHANGED <<request, active>>
        BY <1>1, <2>1, <2>4 DEF ListOfficers, WorkerStates, WorkInv, TypeOK, LevelInv
      <3> QED
        BY <1>1, <3>1, NoCounts
    <2>5. ASSUME NEW o \in Officers, CountWorkload(w, o) PROVE LevelInv'
      BY <1>1, <2>5, CountKeepsLevel
    <2>6. CASE Commit(w)
      BY <1>1, <2>6, AssignmentKeepsLevel
    <2>7. CASE EndCycle(w) \/ RaiseNoOfficer(w) \/ FailCycle(w) \/ Stop(w)
      <3>1. PICK v \in {Asleep, [Asleep EXCEPT !.step = "stopped"]} :
               worker' = [worker EXCEPT ![w] = v]
        BY <2>7 DEF EndCycle, RaiseNoOfficer, FailCycle, Stop, Sleep
      <3>2. v \in WorkerStates /\ v.step # "ranking" /\ v.counted = {}
        BY AsleepType DEF Asleep, WorkerStates
      <3>3. UNCHANGED <<request, active>>
        BY <2>7 DEF EndCycle, RaiseNoOfficer, FailCycle, Stop
      <3> QED
        BY <1>1, <3>1, <3>2, <3>3, NoCounts
    <2> QED
      BY <1>3, <2>2, <2>3, <2>4, <2>5, <2>6, <2>7 DEF WorkerStep
  <1>4. ASSUME NEW m \in Requests,
               CreateRequest(m) \/ LockRow(m) \/ ReleaseRow(m)
        PROVE  LevelInv'
    <2>1. UNCHANGED <<worker, active>>
      BY <1>4 DEF CreateRequest, LockRow, ReleaseRow
    <2>2. CASE CreateRequest(m)
      <3>1. \A n \in Requests :
               \/ request'[n] = request[n]
               \/ request[n].state # "Assigned" /\ request'[n].state # "Assigned"
        BY <1>1, <2>2 DEF CreateRequest, WorkInv, TypeOK, RequestRows
      <3> QED
        BY <1>1, <2>1, <3>1, OthersKeepLevel
    <2>3. CASE LockRow(m) \/ ReleaseRow(m)
      BY <1>1, <2>1, <2>3, OthersKeepLevel DEF LockRow, ReleaseRow
    <2> QED
      BY <1>4, <2>2, <2>3
  <1>5. CASE Tick
    BY <1>1, <1>5, OthersKeepLevel DEF Tick
  <1>6. \A m \in Requests :
           ~DeleteRequest(m) /\ \A o \in Officers : ~AssignManually(m, o)
    BY DEF DeleteRequest, AssignManually
  <1>7. ~ToggleAccount /\ \A o \in Officers : ~ToggleOfficer(o)
    BY DEF ToggleAccount, ToggleOfficer
  <1> QED
    BY <1>2, <1>3, <1>4, <1>5, <1>6, <1>7 DEF Next

\* As long as nobody but the processes assigns and the officers stay the same,
\* no officer has more than one open assignment above another for each process,
\* whatever rows clients hold, whichever cycles fail and whenever they count.
THEOREM WorkIsEven ==
    ASSUME ~ManualWork, ~StaffChanges
    PROVE  Spec => []WorkSpreadEvenly
  <1>1. LevelInv /\ [Next]_vars => LevelInv'
    BY LevelStep
  <1> QED
    BY LevelInit, <1>1, LevelIsEven, PTL DEF Spec
=============================================================================
