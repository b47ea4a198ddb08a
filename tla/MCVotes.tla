----------------------------- MODULE MCVotes -----------------------------
(***************************************************************************)
(* Votes for TLC: two users behind one address, so that one may vote for   *)
(* the other, and a member of the staff behind another.                    *)
(***************************************************************************)
EXTENDS Votes, TLC

CONSTANTS u1, u2, admin

MCUsers == {u1, u2, admin}
\* Who votes against whom matters less to the votes that await the VM.
MCTwoUsers == {u1, admin}
MCStaff == {admin}
MCIPOf == (u1 :> "ip1") @@ (u2 :> "ip1") @@ (admin :> "ip2")

\* Of a vote that is neither held nor running no action and no property reads
\* anything, of the map of IPData nothing where no user is left to connect, and
\* of votesAllowed nothing where no vote that it guards is enabled.
Reachable(w) == current = w \/ vote[w].running
Findable == {o \in ipDatas : \E u \in Users : conn[u] = "none" /\ IPOf[u] = IPOf[o]}
Allowed == EnabledVotes \cap VmVotes # {} => votesAllowed
MCView ==
    <<conn, holder, Findable, Allowed, current, started, hasVoted, markedLate,
      cooldown, asking, pending, unawaited, up, ends, acts,
      [w \in {x \in VoteIds : Reachable(x)} |-> vote[w]]>>
==========================================================================
