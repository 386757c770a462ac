------------------------------- MODULE EditLease -------------------------------
(***************************************************************************)
(* What the edit lock promises: at any time each Material Request is leased *)
(* to at most one user, and a lease always lapses before another user gets *)
(* one.  How a lease ends (released, expired, broken by an administrator,  *)
(* the request archived or deleted) is left open.                          *)
(***************************************************************************)
CONSTANTS Requests, Users, Null

VARIABLE holder     \* holder[m]: the user the lease of m belongs to, or Null

Init == holder = [m \in Requests |-> Null]

\* Nobody holds the lease of m: u gets it.
Grant(m, u) ==
    /\ holder[m] = Null
    /\ holder' = [holder EXCEPT ![m] = u]

\* Time may end the leases of several requests at once.
Lapse(ms) ==
    holder' = [m \in Requests |-> IF m \in ms THEN Null ELSE holder[m]]

Next ==
    \/ \E m \in Requests, u \in Users : Grant(m, u)
    \/ \E ms \in SUBSET Requests : Lapse(ms)

Spec == Init /\ [][Next]_holder

=============================================================================
