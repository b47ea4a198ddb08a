--------------------------- MODULE MCSessions ---------------------------
(***************************************************************************)
(* Sessions for TLC: an account of the staff and a plain one, three        *)
(* connections from an address that may have two, and three guest names,   *)
(* so that two guests can still be given another.                          *)
(***************************************************************************)
EXTENDS Sessions, TLC

MCIPOf == [u \in Users |-> "ip"]
MCSymmetry == Permutations(Users) \cup Permutations(Guests)

\* A bound: no step is taken from a state in which more names are in doubt.
MaxDoubts == 2
FewDoubts == Cardinality(doubtful) <= MaxDoubts

\* The name of a user who is gone and whom no login brings back is read by no
\* action and no property.
MCView ==
    LET Past(u) == sock[u] = "closed" /\ \A a \in Accounts : <<u, a>> \notin awaiting
        Kept == {u \in Users : ~Past(u)}
    IN  <<sock, clients, joined \cap Kept, awaiting, renamed \cap Kept, doubtful, view,
          [u \in Kept |-> <<name[u], account[u]>>]>>
=========================================================================
