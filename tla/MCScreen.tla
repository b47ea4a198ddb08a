------------------------------ MODULE MCScreen ------------------------------
(***************************************************************************)
(* Screen for TLC: a screen of two pixels drawn one at a time, and one     *)
(* client, which may become staff or not.  Clients do not influence what   *)
(* one another is sent, so one stands for each of many.                    *)
(***************************************************************************)
EXTENDS Screen

MCSize == [width |-> 2, height |-> 1]
MCDrawn == {Rect(0, 0, 1, 1), Rect(1, 0, 1, 1)}

\* A bound: no step is taken from a state in which more pictures are being encoded.
MaxJobs == 3
FewJobs == Cardinality(jobs) <= MaxJobs
=============================================================================
