---------------------------- MODULE MCRequestDesk -----------------------------
(***************************************************************************)
(* Small instances of RequestDesk.  Two clients of two Purchasing Officers, *)
(* who can be assigned in turn; a manager who also administrates.          *)
(***************************************************************************)
EXTENDS RequestDesk, TLC

CONSTANTS officer, deputy, manager, view1, view2

MCUsers == {officer, deputy, manager}

MCUserOf == (view1 :> officer) @@ (view2 :> deputy)

\* Every client reads the server's time.
NoDrift == [u \in MCUsers |-> 0]

\* The officer's clock runs one tick ahead of the server.
OfficerAhead == [NoDrift EXCEPT ![officer] = 1]

\* Assignment ids are interchangeable.
AsgSymmetry == Permutations(AsgIds)

=============================================================================
