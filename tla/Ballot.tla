----------------------------- MODULE Ballot -----------------------------
(***************************************************************************)
(* What the votes promise, with no users, clocks, types or awaits: one     *)
(* vote after another.  A vote is open, and then closed for good; the VM   *)
(* is told at most once to do what the vote is about, when it closes or    *)
(* while that is carried out; the next vote opens when nothing is.         *)
(* Votes.tla is shown to implement this module as long as staff do not end *)
(* a vote that is being carried out.                                       *)
(***************************************************************************)
EXTENDS Integers

CONSTANT VoteIds

VARIABLES
    stage,   \* of the last vote, or of the process
    last,    \* the number of the last vote
    deeds    \* how often the VM was told to do what each vote is about
vars == <<stage, last, deeds>>

Init == stage = "idle" /\ last = 0 /\ deeds = [w \in VoteIds |-> 0]

Open ==
    /\ stage = "idle" /\ last + 1 \in VoteIds
    /\ stage' = "open"
    /\ last' = last + 1
    /\ UNCHANGED deeds

Tell == deeds[last] = 0 /\ deeds' = [deeds EXCEPT ![last] = 1]

\* The last vote is voted down, or done, or something is awaited for it.
Close ==
    /\ stage = "open"
    /\ stage' \in {"idle", "carrying"}
    /\ Tell \/ UNCHANGED deeds
    /\ UNCHANGED last

Carry == stage = "carrying" /\ Tell /\ UNCHANGED <<stage, last>>

Settle == stage = "carrying" /\ stage' = "idle" /\ UNCHANGED <<last, deeds>>

\* Something that nobody catches fails, and the process with it.
Crash == stage # "down" /\ stage' = "down" /\ UNCHANGED <<last, deeds>>

Next == Open \/ Close \/ Carry \/ Settle \/ Crash

Safety == Init /\ [][Next]_vars
=========================================================================
