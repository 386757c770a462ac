---------------------------- MODULE AutoAssignment ----------------------------
(***************************************************************************)
(* The unattended worker, as its processes see the table of Material       *)
(* Requests: a cycle claims the oldest due request with FOR UPDATE SKIP    *)
(* LOCKED, ranks the active Purchasing Officers by their open assignments, *)
(* assigns the least loaded one, and goes on until nothing is due, the     *)
(* limit of a cycle is reached or something raises.  Then it sleeps.       *)
(*                                                                         *)
(* RequestDesk has one claim as one step and leaves open which request and *)
(* which officer it takes.  Here the claim, the list of officers (read on  *)
(* a connection of its own), the count of every officer and the commit are *)
(* steps of their own, while other clients hold row locks, assign, delete  *)
(* and disable accounts.                                                   *)
(***************************************************************************)
EXTENDS Integers, FiniteSets, SequencesExt

CONSTANTS
    Requests,          \* ids, in the order of the id column
    Officers,          \* ids of the Purchasing Officers, in the order of their names
    Workers,           \* processes of auto_assignment_worker.py
    Null,
    Threshold,         \* --threshold-minutes, in ticks
    MaxAssignments,    \* --max-assignments
    ManualWork,        \* whether managers assign and delete requests
    RowLocking,        \* whether other transactions hold request rows
    StaffChanges,      \* whether accounts are disabled and enabled
    MaxTime,           \* bound of the checked instance on the clock
    MaxFailures        \* bound of the checked instance on failing transactions

ASSUME WorkAssumption ==
    /\ Requests \subseteq Nat /\ IsFiniteSet(Requests)
    /\ Officers \subseteq Nat
    /\ IsFiniteSet(Workers)
    /\ Null \notin Requests \union Officers \union Workers
    /\ "client" \notin Workers
    /\ Threshold \in Nat
    /\ MaxAssignments \in Nat \ {0}

VARIABLES
    request,      \* the columns of each request the worker goes by
    rowLock,      \* who holds the row: Null, a worker or "client"
    worker,       \* where each process is
    active,       \* the officers whose account is active
    account,      \* whether jcap_auto_assignment exists and is active
    clock,        \* CURRENT_TIMESTAMP
    failures      \* how many transactions have failed

vars == <<request, rowLock, worker, active, account, clock, failures>>

RequestRows == [state : {"absent", "New", "Assigned", "deleted"},
                created_at : Nat,
                assigned_to : Officers \union {Null}]

\* officers: the list that was read; workload: the counts made so far.
WorkerStates == [step     : {"asleep", "running", "claimed", "ranking", "stopped"},
                 mr       : Requests \union {Null},
                 officers : SUBSET Officers,
                 counted  : SUBSET Officers,
                 workload : [Officers -> Nat],
                 done     : 0 .. MaxAssignments - 1]

Asleep == [step |-> "asleep", mr |-> Null, officers |-> {}, counted |-> {},
           workload |-> [o \in Officers |-> 0], done |-> 0]

TypeOK ==
    /\ request \in [Requests -> RequestRows]
    /\ rowLock \in [Requests -> Workers \union {"client", Null}]
    /\ worker \in [Workers -> WorkerStates]
    /\ \A w \in Workers :
          worker[w].step \in {"claimed", "ranking"} <=> worker[w].mr \in Requests
    /\ active \in SUBSET Officers
    /\ account \in BOOLEAN
    /\ clock \in Nat
    /\ failures \in Nat

Init ==
    /\ request = [m \in Requests |->
                     [state |-> "absent", created_at |-> 0, assigned_to |-> Null]]
    /\ rowLock = [m \in Requests |-> Null]
    /\ worker = [w \in Workers |-> Asleep]
    /\ active = Officers
    /\ account = TRUE
    /\ clock = 0
    /\ failures = 0

-----------------------------------------------------------------------------
(* What the queries return.                                                *)

Due(m) ==
    /\ request[m].state = "New"
    /\ request[m].created_at <= clock - Threshold

\* ORDER BY created_at, id
Before(m, n) ==
    \/ request[m].created_at < request[n].created_at
    \/ request[m].created_at = request[n].created_at /\ m < n

\* SKIP LOCKED
Claimable(m) == Due(m) /\ rowLock[m] = Null

\* Open assignments of an officer: nothing ever completes one.
Workload(o) ==
    Cardinality({m \in Requests : request[m].state = "Assigned"
                                  /\ request[m].assigned_to = o})

\* Mutant: the officers are taken in the order of their names.
LeastLoadedByName(o, officers, load) ==
    o \in officers /\ \A p \in officers \ {o} : o < p

\* Sorted by workload, then by name.
LeastLoaded(o, officers, load) ==
    /\ o \in officers
    /\ \A p \in officers \ {o} :
          load[o] < load[p] \/ (load[o] = load[p] /\ o < p)

-----------------------------------------------------------------------------
(* The worker.                                                             *)

\* time.sleep is over: run_cycle starts.
Wake(w) ==
    /\ worker[w].step = "asleep"
    /\ worker' = [worker EXCEPT ![w].step = "running"]
    /\ UNCHANGED <<request, rowLock, active, account, clock, failures>>

Sleep(w) == worker' = [worker EXCEPT ![w] = Asleep]

\* Mutant: the claim does not lock the row it selects.
ClaimUnlocked(w) ==
    /\ worker[w].step = "running"
    /\ account
    /\ \E m \in Requests :
          /\ Claimable(m)
          /\ \A n \in Requests : Claimable(n) /\ n # m => Before(m, n)
          /\ worker' = [worker EXCEPT ![w].step = "claimed", ![w].mr = m]
    /\ UNCHANGED <<request, rowLock, active, account, clock, failures>>

\* Mutant: no ORDER BY.
ClaimInAnyOrder(w) ==
    /\ worker[w].step = "running"
    /\ account
    /\ \E m \in Requests :
          /\ Claimable(m)
          /\ rowLock' = [rowLock EXCEPT ![m] = w]
          /\ worker' = [worker EXCEPT ![w].step = "claimed", ![w].mr = m]
    /\ UNCHANGED <<request, active, account, clock, failures>>

\* auto_assign_next: the account is looked up, then the oldest due request that
\* nobody holds is claimed.
Claim(w) ==
    /\ worker[w].step = "running"
    /\ account
    /\ \E m \in Requests :
          /\ Claimable(m)
          /\ \A n \in Requests : Claimable(n) /\ n # m => Before(m, n)
          /\ rowLock' = [rowLock EXCEPT ![m] = w]
          /\ worker' = [worker EXCEPT ![w].step = "claimed", ![w].mr = m]
    /\ UNCHANGED <<request, active, account, clock, failures>>

\* Nothing to claim, or the automation account is missing or disabled, which
\* raises: either way the cycle is over.
EndCycle(w) ==
    /\ worker[w].step = "running"
    /\ account => \A m \in Requests : ~Claimable(m)
    /\ Sleep(w)
    /\ UNCHANGED <<request, rowLock, active, account, clock, failures>>

\* get_active_users_by_role, on another connection than the transaction's.
ListOfficers(w) ==
    /\ worker[w].step = "claimed"
    /\ active # {}
    /\ worker' = [worker EXCEPT ![w].step = "ranking", ![w].officers = active]
    /\ UNCHANGED <<request, rowLock, active, account, clock, failures>>

\* get_officer_workload: one query per officer, each sees what is committed.
CountWorkload(w, o) ==
    /\ worker[w].step = "ranking"
    /\ o \in worker[w].officers \ worker[w].counted
    /\ worker' = [worker EXCEPT ![w].counted = @ \union {o},
                                ![w].workload[o] = Workload(o)]
    /\ UNCHANGED <<request, rowLock, active, account, clock, failures>>

\* Mutant: the limit of a cycle is not looked at.
CommitWithoutLimit(w) ==
    LET m == worker[w].mr IN
    /\ worker[w].step = "ranking"
    /\ worker[w].counted = worker[w].officers
    /\ \E o \in Officers :
          /\ LeastLoaded(o, worker[w].officers, worker[w].workload)
          /\ request' = [request EXCEPT ![m].state = "Assigned", ![m].assigned_to = o]
    /\ rowLock' = [rowLock EXCEPT ![m] = Null]
    /\ worker' = [worker EXCEPT ![w] =
                     [Asleep EXCEPT !.step = "running",
                                         !.done = worker[w].done + 1]]
    /\ UNCHANGED <<active, account, clock, failures>>

\* The assignment, the context columns and the commit.  A cycle that reached
\* its limit is over.
Commit(w) ==
    LET m == worker[w].mr IN
    /\ worker[w].step = "ranking"
    /\ worker[w].counted = worker[w].officers
    /\ \E o \in Officers :
          /\ LeastLoaded(o, worker[w].officers, worker[w].workload)
          /\ request' = [request EXCEPT ![m].state = "Assigned", ![m].assigned_to = o]
    /\ rowLock' = [rowLock EXCEPT ![m] = Null]
    /\ worker' = [worker EXCEPT ![w] =
                     IF @.done + 1 = MaxAssignments
                       THEN Asleep
                       ELSE [Asleep EXCEPT !.step = "running",
                                         !.done = worker[w].done + 1]]
    /\ UNCHANGED <<active, account, clock, failures>>

\* Mutant: an exception leaves the transaction open.
LeftOpen(w) == rowLock

\* The transaction of w ends without a trace: its row lock goes.
Unclaimed(w) ==
    [m \in Requests |-> IF rowLock[m] = w THEN Null ELSE rowLock[m]]

\* "No active Purchasing Officer is available": raised, rolled back, caught by
\* the loop of main, which sleeps.
RaiseNoOfficer(w) ==
    /\ worker[w].step = "claimed" /\ active = {}
    /\ rowLock' = Unclaimed(w)
    /\ Sleep(w)
    /\ UNCHANGED <<request, active, account, clock, failures>>

\* Any other exception of a cycle: the connection, a constraint, a timeout.
FailCycle(w) ==
    /\ failures < MaxFailures
    /\ worker[w].step \in {"running", "claimed", "ranking"}
    /\ rowLock' = Unclaimed(w)
    /\ Sleep(w)
    /\ failures' = failures + 1
    /\ UNCHANGED <<request, active, account, clock>>

\* KeyboardInterrupt, or the process dies: the server drops its transaction.
Stop(w) ==
    /\ worker[w].step # "stopped"
    /\ rowLock' = Unclaimed(w)
    /\ worker' = [worker EXCEPT ![w] = [Asleep EXCEPT !.step = "stopped"]]
    /\ UNCHANGED <<request, active, account, clock, failures>>

-----------------------------------------------------------------------------
(* Everybody else.                                                         *)

CreateRequest(m) ==
    /\ request[m].state = "absent"
    /\ request' = [request EXCEPT ![m].state = "New", ![m].created_at = clock]
    /\ UNCHANGED <<rowLock, worker, active, account, clock, failures>>

\* A transaction of a client (edit lock, save, assignment, deletion) gets the
\* row of m FOR UPDATE.
LockRow(m) ==
    /\ RowLocking
    /\ request[m].state \in {"New", "Assigned"}
    /\ rowLock[m] = Null
    /\ rowLock' = [rowLock EXCEPT ![m] = "client"]
    /\ UNCHANGED <<request, worker, active, account, clock, failures>>

\* It leaves what the worker goes by alone.
ReleaseRow(m) ==
    /\ rowLock[m] = "client"
    /\ rowLock' = [rowLock EXCEPT ![m] = Null]
    /\ UNCHANGED <<request, worker, active, account, clock, failures>>

\* A manager assigns, or reassigns.
AssignManually(m, o) ==
    /\ ManualWork
    /\ rowLock[m] = "client"
    /\ request[m].state \in {"New", "Assigned"}
    /\ request' = [request EXCEPT ![m].state = "Assigned", ![m].assigned_to = o]
    /\ rowLock' = [rowLock EXCEPT ![m] = Null]
    /\ UNCHANGED <<worker, active, account, clock, failures>>

DeleteRequest(m) ==
    /\ ManualWork
    /\ rowLock[m] = "client"
    /\ request[m].state \in {"New", "Assigned"}
    /\ request' = [request EXCEPT ![m].state = "deleted"]
    /\ rowLock' = [rowLock EXCEPT ![m] = Null]
    /\ UNCHANGED <<worker, active, account, clock, failures>>

\* Administrators disable and enable an officer, or the automation account.
ToggleOfficer(o) ==
    /\ StaffChanges
    /\ active' = IF o \in active THEN active \ {o} ELSE active \union {o}
    /\ UNCHANGED <<request, rowLock, worker, account, clock, failures>>

ToggleAccount ==
    /\ StaffChanges
    /\ account' = ~account
    /\ UNCHANGED <<request, rowLock, worker, active, clock, failures>>

Tick ==
    /\ clock < MaxTime
    /\ clock' = clock + 1
    /\ UNCHANGED <<request, rowLock, worker, active, account, failures>>

\* What the loop of main does by itself.
WorkerStep(w) ==
    \/ Wake(w)
    \/ Claim(w)
    \/ EndCycle(w)
    \/ ListOfficers(w)
    \/ \E o \in Officers : CountWorkload(w, o)
    \/ Commit(w)
    \/ RaiseNoOfficer(w)

Next ==
    \/ \E w \in Workers : WorkerStep(w) \/ FailCycle(w) \/ Stop(w)
    \/ \E m \in Requests :
          \/ CreateRequest(m)
          \/ LockRow(m)
          \/ ReleaseRow(m)
          \/ DeleteRequest(m)
          \/ \E o \in Officers : AssignManually(m, o)
    \/ \E o \in Officers : ToggleOfficer(o)
    \/ ToggleAccount
    \/ Tick

Spec == Init /\ [][Next]_vars

-----------------------------------------------------------------------------

\* What a worker claimed stays New and unassigned, and belongs to that worker
\* alone, until its transaction ends, although managers assign and delete and
\* other workers claim: the row lock carries the whole decision, so that no
\* request is ever assigned over another assignment.
ClaimStands ==
    \A w \in Workers : worker[w].step \in {"claimed", "ranking"} =>
        /\ request[worker[w].mr].state = "New"
        /\ rowLock[worker[w].mr] = w

\* However the counts of several workers overlap, the work they hand out stays
\* level: no officer has more than one assignment above any other for each
\* worker process.  (Without manual work and staff changes.)
WorkSpreadEvenly ==
    \A o, p \in Officers : Workload(o) <= Workload(p) + Cardinality(Workers)

\* recommend_assignments: the due requests, oldest first, and the officer whom
\* the simulation hands each one.
DueInOrder == SetToSortSeq({m \in Requests : Due(m)}, Before)

Recommendation ==
    LET hand(s, m) ==
            LET o == CHOOSE p \in active : LeastLoaded(p, active, s.load)
            IN [load |-> [s.load EXCEPT ![o] = @ + 1],
                officer |-> [s.officer EXCEPT ![m] = o]]
    IN FoldLeft(hand,
                [load    |-> [o \in Officers |-> Workload(o)],
                 officer |-> [m \in Requests |-> Null]],
                DueInOrder).officer

\* The dry run tells what a single worker will do, as long as nobody else
\* touches the requests: a recommendation stands until it is carried out, also
\* while new requests come in and fall due, cycles fail and workers restart.
RecommendationStands ==
    \A m \in Requests : Due(m) =>
       \/ Due(m)' /\ Recommendation'[m] = Recommendation[m]
       \/ request'[m].state = "Assigned"
          /\ request'[m].assigned_to = Recommendation[m]

\* A due request does not wait forever.  It takes a process that is not
\* stopped, the account, an officer, and other transactions that in the end
\* leave the row alone; failed cycles, earlier requests, other workers and the
\* limit of a cycle may delay it only.
DueRequestsAreAssigned ==
    \A m \in Requests :
        (/\ \E w \in Workers : <>[](worker[w].step # "stopped")
         /\ <>[]account
         /\ \E o \in Officers : <>[](o \in active)
         /\ <>[](rowLock[m] # "client"))
        => (Due(m) ~> ~Due(m))
=============================================================================
