------------------------ MODULE MCTurnController ------------------------
(***************************************************************************)
(* TurnController for TLC.  Three users are the fewest for which there is  *)
(* a head, a waiting user and one who can join behind, leave between or be *)
(* put in front of them; a turn of three seconds has a first, a middle and *)
(* a last second.                                                          *)
(***************************************************************************)
EXTENDS TurnController, SequencesExt

\* Without is the filter of the source on every queue the controller can hold.
Lines == UNION {{q \in [1 .. n -> Users] : NoRepeats(q)} : n \in 0 .. Cardinality(Users)}
ASSUME WithoutIsFilter ==
    \A q \in Lines, u \in Users : Without(q, u) = Remove(q, u)
=========================================================================
