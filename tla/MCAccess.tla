------------------------------ MODULE MCAccess ------------------------------
(***************************************************************************)
(* Access for TLC.  MCAccessSafety: three connections of one address: two  *)
(* share its data while a third comes after a collection.  MCAccessLive:   *)
(* two connections of different addresses in one /64 network.              *)
(***************************************************************************)
EXTENDS Access, TLC

CONSTANTS u1, u2, u3

MCUsers == {u1, u2, u3}
Six(n, h) == [family |-> 6, net |-> n, host |-> h]

MCTwoUsers == {u1, u2}
MCTwoAddresses == [u \in MCTwoUsers |-> IF u = u1 THEN Six(1, 1) ELSE Six(1, 2)]
MCOneAddress == [u \in MCUsers |-> Six(1, 1)]
MCSymmetry == Permutations(MCUsers)
=============================================================================
