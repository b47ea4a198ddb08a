-------------------------- MODULE MCTurnServer --------------------------
(***************************************************************************)
(* TurnServer for TLC: two users behind one address, and a third and a     *)
(* member of the staff behind another.                                     *)
(***************************************************************************)
EXTENDS TurnServer, TLC

CONSTANTS u1, u2, u3, admin

MCUsers == {u1, u2, u3, admin}
MCSymmetry == Permutations({u1, u2})
MCStaff == {admin}
MCIPOf == (u1 :> "ip1") @@ (u2 :> "ip1") @@ (u3 :> "ip2") @@ (admin :> "ip2")

\* Two of the three who are not staff ever connect, of one address or of two, and
\* one ban is written at a time.
FewUsers ==
    /\ Cardinality({u \in Users \ Staff : sock[u] # "none"}) <= 2
    /\ Cardinality(banning) <= 1
==========================================================================
