---------------------------- MODULE TurnLine ----------------------------
(***************************************************************************)
(* What the turn controller promises its callers, with no clock and no     *)
(* controller states: a line of users in which the first holds the turn.   *)
(* Users join at the back and leave, staff may put one in front, clear or  *)
(* freeze the line, and a turn others are waiting for does not last for    *)
(* ever.  TurnController.tla is shown to implement this module, and        *)
(* TurnServer.tla its safety, through every handler of the server.         *)
(***************************************************************************)
EXTENDS QueueOps

CONSTANT Users

VARIABLES line, frozen
vars == <<line, frozen>>

Init == line = <<>> /\ frozen = FALSE

\* Nobody may join a frozen line.
Join(u) ==
    /\ ~frozen
    /\ u \notin InLine(line)
    /\ line' = Append(line, u)
    /\ UNCHANGED frozen

\* A waiting user leaves; the others keep their order.
Leave(u) ==
    /\ ~frozen
    /\ u \in InLine(line)
    /\ line' = Without(line, u)
    /\ UNCHANGED frozen

\* The turn of the first in line is over.
Advance ==
    /\ line # <<>>
    /\ line' = Tail(line)
    /\ UNCHANGED frozen

\* Staff put u in front of everybody.
Preempt(u) ==
    /\ line' = <<u>> \o Without(line, u)
    /\ UNCHANGED frozen

\* Staff put u in front of everybody, for as long as they like.
Seize(u) ==
    /\ line' = <<u>> \o Without(line, u)
    /\ frozen' = TRUE

Clear == line' = <<>> /\ UNCHANGED frozen

Freeze == frozen' = TRUE /\ UNCHANGED line
Thaw == frozen' = FALSE /\ UNCHANGED line

Next ==
    \/ \E u \in Users : Join(u) \/ Leave(u) \/ Preempt(u) \/ Seize(u)
    \/ Advance
    \/ Clear
    \/ Freeze
    \/ Thaw

\* A turn that others wait for, in a line that is not frozen.
AdvanceContested == Len(line) > 1 /\ ~frozen /\ Advance

Safety == Init /\ [][Next]_vars
Spec == Safety /\ WF_vars(AdvanceContested)
=========================================================================
