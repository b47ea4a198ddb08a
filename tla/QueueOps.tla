---------------------------- MODULE QueueOps ----------------------------
(***************************************************************************)
(* Operators on a duplicate-free queue of users: what the arrays and the   *)
(* mnemonist Queue of cvmts/src/TurnController.ts are used for.  No        *)
(* recursion, so that proofs can be built on them.                         *)
(***************************************************************************)
EXTENDS Integers, Sequences

\* The users in the queue.
InLine(q) == {q[i] : i \in 1 .. Len(q)}

\* Where u stands (1 is the head); only meaningful when u is in the queue.
Position(q, u) == CHOOSE i \in 1 .. Len(q) : q[i] = u

\* q.filter(c => c !== u).  The queue holds no user twice (TurnController
\* proves it), so the filter drops at most the one position u stands at.
Without(q, u) ==
    IF u \in InLine(q)
    THEN LET p == Position(q, u)
         IN  [i \in 1 .. Len(q) - 1 |-> IF i < p THEN q[i] ELSE q[i + 1]]
    ELSE q

\* queue.dequeue(): harmless on an empty queue.
Dequeue(q) == IF q = <<>> THEN q ELSE Tail(q)

\* No user stands in the queue twice.
NoRepeats(q) == \A i, j \in 1 .. Len(q) : q[i] = q[j] => i = j

\* Whoever stands ahead of u.
Ahead(q, u) == {q[i] : i \in 1 .. Position(q, u) - 1}
=========================================================================
