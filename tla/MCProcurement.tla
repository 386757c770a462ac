---------------------------- MODULE MCProcurement -----------------------------
(***************************************************************************)
(* A small instance of Procurement: one request, two Purchasing Officers   *)
(* it can be assigned to, the engineer who asked for it, and a manager who *)
(* assigns and administrates.  No edit view is open and no time passes:    *)
(* RequestDesk's own runs cover both.                                      *)
(***************************************************************************)
EXTENDS Procurement, TLC

CONSTANTS engineer, officer, deputy, manager, call1, call2, call3, m1

MCUsers == {engineer, officer, deputy, manager}

NoSession == [s \in {} |-> officer]

NoDrift == [u \in MCUsers |-> 0]

\* Two calls of one officer, as two windows can make them, one of the engineer.
MCCaller == (call1 :> officer) @@ (call2 :> officer) @@ (call3 :> engineer)

MCRequester == m1 :> engineer

\* Ids are interchangeable, and so are the officer's two calls.
MCSymmetry ==
    Permutations(AsgIds) \union Permutations(Quotations)
    \union Permutations({call1, call2})

=============================================================================
