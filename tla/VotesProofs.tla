---------------------------- MODULE VotesProofs ----------------------------
(***************************************************************************)
(* What holds of votes for any users, addresses, types of votes, times and *)
(* bounds, whatever comes between the awaits.                              *)
(***************************************************************************)
EXTENDS Votes, FiniteSetTheorems, TLAPS

VoteObjects == [type : VoteTypes, left : 0 .. VoteTime, running : BOOLEAN,
                yes : SUBSET Users, no : SUBSET Users, late : SUBSET Users]

\* Nothing has happened to a vote that was not started.
Unstarted ==
    \A w \in VoteIds : w > started =>
        /\ ~vote[w].running /\ ends[w] = 0 /\ acts[w] = 0
        /\ \A a \in Awaits : pending[a][w] = 0

\* A vote whose interval runs has not ended and has time left.
RunningNotEnded ==
    \A w \in VoteIds : vote[w].running => ends[w] = 0 /\ vote[w].left >= 1

HeldIsEnabled == current # 0 => vote[current].type \in EnabledVotes

\* The ends of a vote pay for what is awaited at its end, and for what the VM
\* was told or will be told once the media is found.
EndsPay ==
    \A w \in VoteIds :
        /\ pending["lookup"][w] + pending["insert"][w] + pending["eject"][w] <= ends[w]
        /\ acts[w] + pending["lookup"][w] <= ends[w]

\* Without media votes nothing is awaited, the interval that runs is that of the
\* vote the server holds, and every mark belongs to one of its voters.
VmOnly == EnabledVotes \subseteq VmVotes
MarksAreVoters ==
    /\ \A a \in Awaits, w \in VoteIds : pending[a][w] = 0
    /\ \A w \in VoteIds : vote[w].running => current = w
    /\ FlagsClearBetweenVotes
    /\ current # 0 => hasVoted \subseteq Held(Voters(current))

\* Nobody votes, or asks for a vote, before he has an IPData.
Arrived ==
    \A u \in Users : conn[u] = "none" =>
        u \notin asking /\ \A w \in VoteIds : u \notin Voters(w)

\* The inductive invariant.
IInv ==
    /\ TypeOK /\ Arrived
    /\ Unstarted /\ RunningNotEnded /\ HeldIsEnabled
    /\ NoOrphanVote
    /\ EndedOnce => EndsPay
    /\ AtMostTwoPerIP
    /\ VmOnly => MarksAreVoters

-----------------------------------------------------------------------------
(* Vote objects.                                                           *)

LEMMA NewVoteLemma ==
    ASSUME NEW u \in Users, NEW t \in VoteTypes
    PROVE  /\ NewVote(u, t) \in VoteObjects /\ NewVote(u, t).type = t
           /\ NewVote(u, t).running /\ NewVote(u, t).left >= 1
           /\ NewVote(u, t).yes = {u} /\ NewVote(u, t).no = {}
           /\ NewVote(u, t).late = {u} \ Clients
  BY TimesAssumption DEF NewVote, VoteObjects

LEMMA NoVoteLemma ==
    NoVote \in VoteObjects /\ ~NoVote.running /\ NoVote.yes = {} /\ NoVote.no = {}
  BY TimesAssumption DEF NoVote, VoteObjects, VoteTypes

LEMMA UnvotedLemma ==
    ASSUME NEW v \in VoteObjects, NEW u
    PROVE  /\ Unvoted(v, u) \in VoteObjects
           /\ Unvoted(v, u).type = v.type /\ Unvoted(v, u).left = v.left
           /\ Unvoted(v, u).running = v.running
           /\ Unvoted(v, u).yes = v.yes \ {u} /\ Unvoted(v, u).no = v.no \ {u}
           /\ Unvoted(v, u).late = v.late
  BY DEF Unvoted, VoteObjects

LEMMA VotedLemma ==
    ASSUME NEW v \in VoteObjects, NEW u \in Users, NEW yes \in BOOLEAN
    PROVE  /\ Voted(v, u, yes) \in VoteObjects
           /\ Voted(v, u, yes).type = v.type /\ Voted(v, u, yes).left = v.left
           /\ Voted(v, u, yes).running = v.running
           /\ Voted(v, u, yes).yes \cup Voted(v, u, yes).no = v.yes \cup v.no \cup {u}
           /\ Voted(v, u, yes).late = v.late \cup ({u} \ Clients)
  <1> DEFINE old == Unvoted(v, u)
             x == [old EXCEPT !.late = @ \cup ({u} \ Clients)]
  <1>0. /\ old \in VoteObjects /\ old.late = v.late
        /\ old.type = v.type /\ old.left = v.left /\ old.running = v.running
        /\ old.yes = v.yes \ {u} /\ old.no = v.no \ {u}
    BY UnvotedLemma
  <1> HIDE DEF old
  <1>1. /\ x \in VoteObjects /\ x.late = v.late \cup ({u} \ Clients)
        /\ x.type = v.type /\ x.left = v.left /\ x.running = v.running
        /\ x.yes = v.yes \ {u} /\ x.no = v.no \ {u}
    BY <1>0 DEF VoteObjects
  <1>5. Voted(v, u, yes) = IF yes THEN [x EXCEPT !.yes = @ \cup {u}]
                           ELSE [x EXCEPT !.no = @ \cup {u}]
    BY DEF Voted, old
  <1> HIDE DEF x
  <1>2. [x EXCEPT !.yes = @ \cup {u}] \in VoteObjects /\ [x EXCEPT !.no = @ \cup {u}] \in VoteObjects
    BY <1>1 DEF VoteObjects
  <1>3. /\ [x EXCEPT !.yes = @ \cup {u}].yes = x.yes \cup {u}
        /\ [x EXCEPT !.yes = @ \cup {u}].no = x.no
        /\ [x EXCEPT !.no = @ \cup {u}].yes = x.yes
        /\ [x EXCEPT !.no = @ \cup {u}].no = x.no \cup {u}
    BY <1>1 DEF VoteObjects
  <1>4. ASSUME NEW y, y = [x EXCEPT !.yes = @ \cup {u}] \/ y = [x EXCEPT !.no = @ \cup {u}]
        PROVE  y.type = x.type /\ y.left = x.left /\ y.running = x.running /\ y.late = x.late
    BY <1>1, <1>4 DEF VoteObjects
  <1>6. CASE yes
    BY <1>1, <1>2, <1>3, <1>4, <1>5, <1>6
  <1>7. CASE ~yes
    BY <1>1, <1>2, <1>3, <1>4, <1>5, <1>7
  <1> QED BY <1>6, <1>7

LEMMA TypeFacts ==
    ASSUME TypeOK
    PROVE  /\ vote \in [VoteIds -> VoteObjects]
           /\ ends \in [VoteIds -> Nat] /\ acts \in [VoteIds -> Nat]
           /\ \A a \in Awaits, w \in VoteIds : pending[a][w] \in Nat
           /\ current # 0 => current \in VoteIds
           /\ current \in Nat /\ started \in Nat
  <1>1. vote \in [VoteIds -> VoteObjects]
    BY DEF TypeOK, VoteObjects
  <1>2. ends \in [VoteIds -> 0 .. MaxEnds] /\ acts \in [VoteIds -> Nat]
    BY DEF TypeOK
  <1>3. ends \in [VoteIds -> Nat]
    BY <1>2, BoundsAssumption
  <1>4. \A a \in Awaits, w \in VoteIds : pending[a][w] \in Nat
    BY DEF TypeOK
  <1>5. current \in 0 .. started /\ started \in 0 .. MaxVotes
    BY DEF TypeOK
  <1>6. (current # 0 => current \in VoteIds) /\ current \in Nat /\ started \in Nat
    BY <1>5, BoundsAssumption DEF VoteIds
  <1> QED BY <1>1, <1>2, <1>3, <1>4, <1>6

\* How a continuation that starts or ends changes what is awaited.
LEMMA PendingUp ==
    ASSUME pending \in [Awaits -> [VoteIds -> Nat]], NEW a \in Awaits, NEW w \in VoteIds
    PROVE  LET p == [pending EXCEPT ![a][w] = @ + 1]
           IN  /\ p \in [Awaits -> [VoteIds -> Nat]]
               /\ p[a][w] = pending[a][w] + 1
               /\ \A b \in Awaits, x \in VoteIds : b # a \/ x # w => p[b][x] = pending[b][x]
  OBVIOUS

LEMMA PendingDown ==
    ASSUME pending \in [Awaits -> [VoteIds -> Nat]], NEW a \in Awaits, NEW w \in VoteIds,
           pending[a][w] > 0
    PROVE  LET p == [pending EXCEPT ![a][w] = @ - 1]
           IN  /\ p \in [Awaits -> [VoteIds -> Nat]]
               /\ p[a][w] = pending[a][w] - 1
               /\ \A b \in Awaits, x \in VoteIds : b # a \/ x # w => p[b][x] = pending[b][x]
  OBVIOUS

\* The media is found: what was looked up is now inserted.
LEMMA PendingMoved ==
    ASSUME pending \in [Awaits -> [VoteIds -> Nat]], NEW w \in VoteIds,
           pending["lookup"][w] > 0
    PROVE  LET p == [pending EXCEPT !["lookup"][w] = @ - 1, !["insert"][w] = @ + 1]
           IN  /\ p \in [Awaits -> [VoteIds -> Nat]]
               /\ p["lookup"][w] = pending["lookup"][w] - 1
               /\ p["insert"][w] = pending["insert"][w] + 1
               /\ p["eject"][w] = pending["eject"][w]
               /\ \A a \in Awaits, x \in VoteIds : x # w => p[a][x] = pending[a][x]
  <1> DEFINE p == [pending EXCEPT !["lookup"][w] = @ - 1, !["insert"][w] = @ + 1]
             down == [pending["lookup"] EXCEPT ![w] = @ - 1]
             more == [pending["insert"] EXCEPT ![w] = @ + 1]
  <1>0. "lookup" \in Awaits /\ "insert" \in Awaits /\ "eject" \in Awaits
    BY DEF Awaits
  <1>1. /\ pending["lookup"] \in [VoteIds -> Nat] /\ pending["insert"] \in [VoteIds -> Nat]
        /\ pending["lookup"][w] - 1 \in Nat /\ pending["insert"][w] + 1 \in Nat
    BY <1>0
  <1>2. /\ down \in [VoteIds -> Nat] /\ down[w] = pending["lookup"][w] - 1
        /\ \A x \in VoteIds : x # w => down[x] = pending["lookup"][x]
    BY <1>1
  <1>3. /\ more \in [VoteIds -> Nat] /\ more[w] = pending["insert"][w] + 1
        /\ \A x \in VoteIds : x # w => more[x] = pending["insert"][x]
    BY <1>1
  <1>4. p = [pending EXCEPT !["lookup"] = down, !["insert"] = more]
    BY <1>0
  <1> HIDE DEF down, more
  <1>5. /\ p \in [Awaits -> [VoteIds -> Nat]]
        /\ p["lookup"] = down /\ p["insert"] = more /\ p["eject"] = pending["eject"]
    BY <1>0, <1>2, <1>3, <1>4
  <1> HIDE DEF p
  <1>6. \A a \in Awaits, x \in VoteIds : x # w => p[a][x] = pending[a][x]
    BY <1>2, <1>3, <1>5 DEF Awaits
  <1>7. /\ p["lookup"][w] = pending["lookup"][w] - 1
        /\ p["insert"][w] = pending["insert"][w] + 1
        /\ p["eject"][w] = pending["eject"][w]
    BY <1>2, <1>3, <1>5
  <1> QED BY <1>5, <1>6, <1>7 DEF p

-----------------------------------------------------------------------------
(* Votes of the users who hold one IPData.                                 *)

From(w, o) == {u \in Voters(w) : holder[u] = o}

LEMMA FromFinite ==
    ASSUME TypeOK, NEW w \in VoteIds, NEW o
    PROVE  /\ From(w, o) \subseteq Users /\ IsFiniteSet(From(w, o))
           /\ Cardinality(From(w, o)) \in Nat
  <1>1. vote[w] \in VoteObjects
    BY TypeFacts
  <1>2. From(w, o) \subseteq Users
    BY <1>1 DEF From, Voters, VoteObjects
  <1> QED BY <1>2, UsersAssumption, FS_Subset, FS_CardinalityType

\* A set of users does not grow by losing some, nor by more than one by one.
LEMMA Counting ==
    ASSUME NEW S, IsFiniteSet(S), NEW u
    PROVE  /\ Cardinality(S) \in Nat
           /\ Cardinality(S \cup {u}) <= Cardinality(S) + 1
           /\ Cardinality(S \cup {u}) \in Nat
           /\ u \in S => Cardinality(S \ {u}) = Cardinality(S) - 1
           /\ u \in S => Cardinality(S) >= 1
           /\ Cardinality(S \ {u}) \in Nat
           /\ Cardinality(S \ {u}) <= Cardinality(S)
  <1>1. Cardinality(S) \in Nat
    BY FS_CardinalityType
  <1>2. IsFiniteSet(S \cup {u}) /\ IsFiniteSet(S \ {u})
    BY FS_AddElement, FS_RemoveElement
  <1>3. Cardinality(S \cup {u}) \in Nat /\ Cardinality(S \ {u}) \in Nat
    BY <1>2, FS_CardinalityType
  <1>4. Cardinality(S \cup {u}) = IF u \in S THEN Cardinality(S) ELSE Cardinality(S) + 1
    BY FS_AddElement
  <1>5. Cardinality(S \ {u}) = IF u \in S THEN Cardinality(S) - 1 ELSE Cardinality(S)
    BY FS_RemoveElement
  <1> QED BY <1>1, <1>3, <1>4, <1>5

\* With the first vote that marks an IPData at most one more is counted for it.
LEMMA AtMostTwoCast ==
    ASSUME TypeOK, NEW w \in VoteIds, NEW u \in Users, NEW o,
           Cardinality(From(w, o)) <= IF o \in hasVoted THEN 2 ELSE 1,
           holder[u] \notin hasVoted \/ u \in Voters(w),
           Voters(w)' = Voters(w) \cup {u}, hasVoted' = hasVoted \cup {holder[u]},
           holder' = holder
    PROVE  Cardinality(From(w, o)') <= IF o \in hasVoted' THEN 2 ELSE 1
  <1> DEFINE before == From(w, o)
             after == From(w, o)'
  <1>1. IsFiniteSet(before) /\ Cardinality(before) \in Nat
    BY FromFinite
  <1>2. CASE holder[u] # o \/ u \in Voters(w)
    <2>1. after = before
      BY <1>2 DEF From
    <2>2. o \in hasVoted => o \in hasVoted'
      OBVIOUS
    <2> HIDE DEF before, after
    <2>3. Cardinality(after) <= IF o \in hasVoted' THEN 2 ELSE 1
      BY <1>1, <2>1, <2>2 DEF before
    <2> QED BY <2>3 DEF after
  <1>3. CASE holder[u] = o /\ u \notin Voters(w)
    <2>1. after = before \cup {u} /\ o \notin hasVoted /\ o \in hasVoted'
      BY <1>3 DEF From
    <2>2. Cardinality(before) <= 1
      BY <2>1
    <2> HIDE DEF before, after
    <2>3. Cardinality(after) <= 2
      <3>1. Cardinality(after) <= Cardinality(before) + 1 /\ Cardinality(after) \in Nat
        BY <1>1, <2>1, Counting
      <3> QED BY <1>1, <2>2, <3>1
    <2> QED BY <2>1, <2>3 DEF after
  <1> QED BY <1>2, <1>3

\* Whoever leaves takes his vote and the mark of his IPData with him.
LEMMA AtMostTwoLeft ==
    ASSUME TypeOK, NEW w \in VoteIds, NEW u \in Voters(w), NEW o,
           Cardinality(From(w, o)) <= IF o \in hasVoted THEN 2 ELSE 1,
           Voters(w)' = Voters(w) \ {u}, hasVoted' = hasVoted \ {holder[u]},
           holder' = holder
    PROVE  Cardinality(From(w, o)') <= IF o \in hasVoted' THEN 2 ELSE 1
  <1> DEFINE before == From(w, o)
             after == From(w, o)'
  <1>1. IsFiniteSet(before) /\ Cardinality(before) \in Nat /\ Cardinality(before) <= 2
    BY FromFinite
  <1>2. CASE holder[u] # o
    <2>1. after = before /\ (o \in hasVoted' <=> o \in hasVoted)
      BY <1>2 DEF From
    <2> QED BY <1>1, <2>1
  <1>3. CASE holder[u] = o
    <2>1. after = before \ {u} /\ u \in before
      BY <1>3 DEF From
    <2> HIDE DEF before, after
    <2>2. Cardinality(after) <= 1 /\ Cardinality(after) \in Nat
      BY <1>1, <2>1, Counting
    <2>3. Cardinality(after) <= 2
      BY <2>2
    <2> QED BY <2>2, <2>3 DEF after
  <1> QED BY <1>2, <1>3
-----------------------------------------------------------------------------
(* Steps of users.                                                         *)

\* The voters there are keep their IPData; only those who connect get theirs.
SameHolders == \A w \in VoteIds, u \in Users : u \in Voters(w) => holder'[u] = holder[u]

LEMMA SameFrom ==
    ASSUME TypeOK, SameHolders, NEW w \in VoteIds
    PROVE  /\ \A o : {u \in Voters(w) : holder'[u] = o} = From(w, o)
           /\ {holder'[u] : u \in Voters(w)} = Held(Voters(w))
  <1>1. Voters(w) \subseteq Users
    BY TypeFacts DEF Voters, VoteObjects
  <1> QED BY <1>1 DEF SameHolders, From, Held

\* A step that has nothing to do with votes.
LEMMA QuietIInv ==
    ASSUME IInv, TypeOK', Arrived',
           UNCHANGED <<current, started, vote, markVars, pending, ends, acts>>, SameHolders
    PROVE  IInv'
  <1>1. (Unstarted /\ RunningNotEnded /\ HeldIsEnabled)'
    BY DEF IInv, Unstarted, RunningNotEnded, HeldIsEnabled
  <1>2. NoOrphanVote' /\ (EndedOnce => EndsPay)'
    BY DEF IInv, NoOrphanVote, EndedOnce, EndsPay
  <1>3. AtMostTwoPerIP'
    <2> SUFFICES ASSUME EndedOnce, NEW w \in VoteIds, NEW o \in Users, vote[w].running
                 PROVE  Cardinality({u \in Voters(w) : holder'[u] = o})
                           <= IF o \in hasVoted THEN 2 ELSE 1
      BY DEF AtMostTwoPerIP, EndedOnce, Voters, markVars
    <2>1. {u \in Voters(w) : holder'[u] = o} = From(w, o)
      BY SameFrom DEF IInv
    <2> QED BY <2>1 DEF IInv, AtMostTwoPerIP, From
  <1>4. (VmOnly => MarksAreVoters)'
    <2>1. current # 0 => {holder'[u] : u \in Voters(current)} = Held(Voters(current))
      BY SameFrom, TypeFacts DEF IInv
    <2>2. current # 0 => Held(Voters(current))' = {holder'[u] : u \in Voters(current)}
      BY DEF Held, Voters
    <2> QED BY <2>1, <2>2 DEF IInv, VmOnly, MarksAreVoters, FlagsClearBetweenVotes, markVars
  <1> QED BY <1>1, <1>2, <1>3, <1>4 DEF IInv

LEMMA StartIInv ==
    ASSUME IInv, NEW u \in Users, NEW t, StartVote(u, t), conn[u] # "none",
           asking' \subseteq asking
    PROVE  IInv'
  <1> DEFINE n == started + 1
  <1>1. /\ current = 0 /\ t \in EnabledVotes /\ t \in VoteTypes
        /\ started < MaxVotes /\ started' = n /\ current' = n
        /\ vote' = [vote EXCEPT ![n] = NewVote(u, t)]
        /\ UNCHANGED <<conn, holder, ipDatas, votesAllowed, hasVoted, markedLate, cooldown,
                       pending, unawaited, up, ends, acts>>
    BY TypesAssumption DEF StartVote, CanStart, VoteTypes, connVars, markVars
  <1>2. TypeOK
    BY DEF IInv
  <1>3. n \in VoteIds /\ started \in Nat /\ n > started
    BY <1>1, <1>2, BoundsAssumption DEF TypeOK, VoteIds
  <1>4. /\ vote' \in [VoteIds -> VoteObjects] /\ vote'[n] = NewVote(u, t)
        /\ \A w \in VoteIds : w # n => vote'[w] = vote[w]
    BY <1>1, <1>2, <1>3, NewVoteLemma, TypeFacts
  <1>5. /\ vote'[n].type = t /\ vote'[n].running /\ vote'[n].left >= 1
        /\ vote'[n].yes = {u} /\ vote'[n].no = {}
    BY <1>1, <1>4, NewVoteLemma
  <1> HIDE DEF n
  <1>6. TypeOK'
    <2>1. started' \in 0 .. MaxVotes /\ current' \in 0 .. started'
      BY <1>1, <1>3, BoundsAssumption DEF n, VoteIds
    <2> QED BY <1>1, <1>2, <1>4, <2>1 DEF TypeOK, VoteObjects
  <1>13. Arrived'
    BY <1>1, <1>4, <1>5 DEF IInv, Arrived, Voters
  <1>7. (Unstarted /\ RunningNotEnded /\ HeldIsEnabled)'
    <2>1. \A w \in VoteIds : w > n => w # n /\ w > started
      BY <1>3 DEF VoteIds, n
    <2>2. Unstarted'
      BY <1>1, <1>4, <2>1 DEF IInv, Unstarted
    <2>3. ends[n] = 0
      BY <1>3 DEF IInv, Unstarted
    <2>4. RunningNotEnded'
      BY <1>1, <1>4, <1>5, <2>3 DEF IInv, RunningNotEnded
    <2> QED BY <1>1, <1>5, <2>2, <2>4 DEF HeldIsEnabled
  <1>8. 0 \notin VoteIds
    BY DEF VoteIds
  <1>9. ASSUME EndedOnce
        PROVE  /\ \A w \in VoteIds : vote'[w].running => w = n
               /\ \A a \in Awaits, w \in VoteIds : ~(pending[a][w] > 0)
    BY <1>1, <1>4, <1>8, <1>9 DEF IInv, NoOrphanVote
  <1>10. NoOrphanVote' /\ (EndedOnce => EndsPay)'
    BY <1>1, <1>9 DEF IInv, NoOrphanVote, EndedOnce, EndsPay
  <1>11. AtMostTwoPerIP'
    <2> SUFFICES ASSUME EndedOnce', NEW w \in VoteIds, NEW o \in Users, vote'[w].running
                 PROVE  Cardinality({x \in Voters(w)' : holder[x] = o})
                           <= IF o \in hasVoted' THEN 2 ELSE 1
      BY <1>1 DEF AtMostTwoPerIP
    <2>1. w = n
      BY <1>1, <1>9 DEF EndedOnce
    <2>2. {x \in Voters(w)' : holder[x] = o} = {} \/ {x \in Voters(w)' : holder[x] = o} = {u}
      BY <1>5, <2>1 DEF Voters
    <2>3. Cardinality({x \in Voters(w)' : holder[x] = o}) \in {0, 1}
      BY <2>2, FS_EmptySet, FS_Singleton
    <2> QED BY <2>3
  <1>12. (VmOnly => MarksAreVoters)'
    <2> SUFFICES ASSUME VmOnly PROVE MarksAreVoters'
      BY DEF VmOnly
    <2>1. MarksAreVoters
      BY DEF IInv
    <2>2. \A w \in VoteIds : vote'[w].running => w = n
      BY <1>1, <1>4, <1>8, <2>1 DEF MarksAreVoters
    <2>3. current' # 0 /\ hasVoted' = {}
      BY <1>1, <1>3, <1>8, <2>1 DEF MarksAreVoters, FlagsClearBetweenVotes
    <2> QED BY <1>1, <2>1, <2>2, <2>3 DEF MarksAreVoters, FlagsClearBetweenVotes
  <1> QED BY <1>6, <1>7, <1>10, <1>11, <1>12, <1>13 DEF IInv

\* What a step that only changes the voters of the vote the server holds keeps.
LEMMA VotersChange ==
    ASSUME IInv, current # 0, NEW v \in VoteObjects,
           vote' = [vote EXCEPT ![current] = v],
           v.type = vote[current].type, v.left = vote[current].left,
           v.running = vote[current].running,
           hasVoted' \subseteq Users, markedLate' \subseteq hasVoted',
           conn' \in [Users -> {"none", "client", "displaced", "gone"}],
           \A x \in Users : conn'[x] = "none" => conn[x] = "none",
           \A x \in v.yes \cup v.no : x \in Voters(current) \/ conn'[x] # "none",
           UNCHANGED <<holder, ipDatas, votesAllowed, current, started, cooldown, asking,
                       pending, unawaited, up, ends, acts>>
    PROVE  /\ TypeOK' /\ Arrived' /\ Unstarted' /\ RunningNotEnded' /\ HeldIsEnabled'
           /\ NoOrphanVote' /\ (EndedOnce => EndsPay)'
           /\ current \in VoteIds /\ vote'[current] = v
           /\ \A w \in VoteIds : /\ w # current => vote'[w] = vote[w]
                                 /\ vote'[w].running = vote[w].running
  <1>1. /\ TypeOK /\ current \in VoteIds /\ vote \in [VoteIds -> VoteObjects]
    BY TypeFacts DEF IInv
  <1>2. /\ vote' \in [VoteIds -> VoteObjects] /\ vote'[current] = v
        /\ \A w \in VoteIds : w # current => vote'[w] = vote[w]
    BY <1>1
  <1>3. \A w \in VoteIds : /\ vote'[w].running = vote[w].running
                           /\ vote'[w].left = vote[w].left
    BY <1>2
  <1>4. TypeOK'
    BY <1>1, <1>2 DEF TypeOK, VoteObjects
  <1>7. Arrived'
    BY <1>1, <1>2 DEF IInv, Arrived, Voters
  <1>5. Unstarted' /\ RunningNotEnded' /\ HeldIsEnabled'
    BY <1>1, <1>2, <1>3 DEF IInv, Unstarted, RunningNotEnded, HeldIsEnabled
  <1>6. NoOrphanVote' /\ (EndedOnce => EndsPay)'
    BY <1>3 DEF IInv, NoOrphanVote, EndedOnce, EndsPay
  <1> QED BY <1>1, <1>2, <1>3, <1>4, <1>5, <1>6, <1>7

LEMMA CastIInv ==
    ASSUME IInv, NEW u \in Users, NEW yes \in BOOLEAN, current # 0,
           holder[u] \notin hasVoted \/ u \in Voters(current), AddVote(u, yes),
           conn[u] # "none",
           UNCHANGED <<connVars, votesAllowed, current, started, cooldown, asking,
                       pending, unawaited, up, ends, acts>>
    PROVE  IInv'
  <1> DEFINE v == Voted(vote[current], u, yes)
  <1>1. TypeOK /\ current \in VoteIds /\ vote[current] \in VoteObjects
    BY TypeFacts DEF IInv
  <1>2. /\ v \in VoteObjects
        /\ v.type = vote[current].type /\ v.left = vote[current].left
        /\ v.running = vote[current].running
        /\ v.yes \cup v.no = Voters(current) \cup {u}
    BY <1>1, VotedLemma DEF Voters
  <1>3. vote' = [vote EXCEPT ![current] = v] /\ hasVoted' = hasVoted \cup {holder[u]}
    BY DEF AddVote
  <1> HIDE DEF v
  <1>4. /\ hasVoted' \subseteq Users /\ markedLate' \subseteq hasVoted'
        /\ conn' = conn /\ conn \in [Users -> {"none", "client", "displaced", "gone"}]
        /\ holder' = holder /\ ipDatas' = ipDatas
    BY <1>1, <1>3 DEF TypeOK, AddVote, connVars
  <1>5. /\ TypeOK' /\ Arrived' /\ Unstarted' /\ RunningNotEnded' /\ HeldIsEnabled'
        /\ NoOrphanVote' /\ (EndedOnce => EndsPay)'
        /\ vote'[current] = v
        /\ \A w \in VoteIds : /\ w # current => vote'[w] = vote[w]
                              /\ vote'[w].running = vote[w].running
    BY <1>2, <1>3, <1>4, VotersChange
  <1>6. Voters(current)' = Voters(current) \cup {u}
    BY <1>2, <1>5 DEF Voters
  <1>7. AtMostTwoPerIP'
    <2> SUFFICES ASSUME EndedOnce, NEW w \in VoteIds, NEW o \in Users, vote[w].running
                 PROVE  Cardinality(From(w, o)') <= IF o \in hasVoted' THEN 2 ELSE 1
      BY <1>4, <1>5 DEF AtMostTwoPerIP, EndedOnce, From
    <2>1. w = current
      BY DEF IInv, NoOrphanVote
    <2>2. Cardinality(From(w, o)) <= IF o \in hasVoted THEN 2 ELSE 1
      BY DEF IInv, AtMostTwoPerIP, From
    <2> QED BY <1>1, <1>3, <1>4, <1>6, <2>1, <2>2, AtMostTwoCast
  <1>8. (VmOnly => MarksAreVoters)'
    BY <1>3, <1>4, <1>5, <1>6 DEF IInv, VmOnly, MarksAreVoters, FlagsClearBetweenVotes, Held
  <1> QED BY <1>5, <1>7, <1>8 DEF IInv

LEMMA LeaveIInv ==
    ASSUME IInv, NEW u \in Users,
           RemoveVote(u) \/ UNCHANGED <<vote, markVars>>,
           conn' \in [Users -> {"none", "client", "displaced", "gone"}],
           \A x \in Users : conn'[x] = "none" => conn[x] = "none",
           UNCHANGED <<holder, ipDatas, votesAllowed, current, started, cooldown, asking,
                       pending, unawaited, up, ends, acts>>
    PROVE  IInv'
  <1>1. TypeOK
    BY DEF IInv
  <1>2. CASE UNCHANGED <<vote, markVars>>
    <2>1. TypeOK'
      BY <1>1, <1>2 DEF TypeOK, markVars
    <2>2. Arrived'
      BY <1>2 DEF IInv, Arrived, Voters
    <2> QED BY <1>2, <2>1, <2>2, QuietIInv DEF SameHolders
  <1>3. CASE /\ current # 0 /\ u \in Voters(current)
             /\ vote' = [vote EXCEPT ![current] = Unvoted(@, u)]
             /\ hasVoted' = hasVoted \ {holder[u]} /\ markedLate' = markedLate \ {holder[u]}
    <2> DEFINE v == Unvoted(vote[current], u)
    <2>1. current \in VoteIds /\ vote[current] \in VoteObjects
      BY <1>1, <1>3, TypeFacts
    <2>2. /\ v \in VoteObjects
          /\ v.type = vote[current].type /\ v.left = vote[current].left
          /\ v.running = vote[current].running
          /\ v.yes \cup v.no = Voters(current) \ {u}
      BY <2>1, UnvotedLemma DEF Voters
    <2>3. /\ vote' = [vote EXCEPT ![current] = v]
          /\ hasVoted' \subseteq Users /\ markedLate' \subseteq hasVoted'
      BY <1>1, <1>3 DEF TypeOK
    <2> HIDE DEF v
    <2>4. /\ TypeOK' /\ Arrived' /\ Unstarted' /\ RunningNotEnded' /\ HeldIsEnabled'
          /\ NoOrphanVote' /\ (EndedOnce => EndsPay)'
          /\ vote'[current] = v
          /\ \A w \in VoteIds : /\ w # current => vote'[w] = vote[w]
                                /\ vote'[w].running = vote[w].running
      BY <1>3, <2>2, <2>3, VotersChange
    <2>5. Voters(current)' = Voters(current) \ {u}
      BY <2>2, <2>4 DEF Voters
    <2>6. AtMostTwoPerIP'
      <3> SUFFICES ASSUME EndedOnce, NEW w \in VoteIds, NEW o \in Users, vote[w].running
                   PROVE  Cardinality(From(w, o)') <= IF o \in hasVoted' THEN 2 ELSE 1
        BY <2>4 DEF AtMostTwoPerIP, EndedOnce, From
      <3>1. w = current
        BY DEF IInv, NoOrphanVote
      <3>2. Cardinality(From(w, o)) <= IF o \in hasVoted THEN 2 ELSE 1
        BY DEF IInv, AtMostTwoPerIP, From
      <3> QED BY <1>1, <1>3, <2>5, <3>1, <3>2, AtMostTwoLeft
    <2>7. (VmOnly => MarksAreVoters)'
      BY <1>3, <2>4, <2>5 DEF IInv, VmOnly, MarksAreVoters, FlagsClearBetweenVotes, Held
    <2> QED BY <2>4, <2>6, <2>7 DEF IInv
  <1> QED BY <1>2, <1>3 DEF RemoveVote, Unmark

-----------------------------------------------------------------------------
(* Ends of votes and continuations.                                        *)

LEMMA CooldownType ==
    ASSUME TypeOK, NEW t \in VoteTypes, SetCooldown(t)
    PROVE  cooldown' \in [VoteTypes -> NoEntry .. Cooldown]
  <1>1. Cooldown \in NoEntry .. Cooldown
    BY TimesAssumption DEF NoEntry
  <1> QED BY <1>1 DEF TypeOK, SetCooldown

\* onVoteEnd leaves all as it is, or finishes the current vote, or begins to
\* await something for it.
LEMMA OnVoteEndFacts ==
    ASSUME TypeOK, NEW result \in BOOLEAN, OnVoteEnd(result)
    PROVE  /\ current' \in {0, current}
           /\ cooldown' \in [VoteTypes -> NoEntry .. Cooldown]
           /\ pending' \in [Awaits -> [VoteIds -> Nat]] /\ acts' \in [VoteIds -> Nat]
           /\ unawaited' \in BOOLEAN
           /\ \/ current = 0 /\ UNCHANGED <<current, pending, acts>>
              \/ /\ current # 0 /\ current' = 0 /\ pending' = pending
                 /\ acts'[current] \in {acts[current], acts[current] + 1}
                 /\ \A x \in VoteIds : x # current => acts'[x] = acts[x]
              \/ /\ current # 0 /\ current' = current /\ vote[current].type = "insert"
                 /\ acts' = acts
                 /\ pending'["lookup"][current] = pending["lookup"][current] + 1
                 /\ \A b \in Awaits, x \in VoteIds :
                       b # "lookup" \/ x # current => pending'[b][x] = pending[b][x]
              \/ /\ current # 0 /\ current' = current /\ vote[current].type = "eject"
                 /\ acts'[current] = acts[current] + 1
                 /\ \A x \in VoteIds : x # current => acts'[x] = acts[x]
                 /\ pending'["eject"][current] = pending["eject"][current] + 1
                 /\ \A b \in Awaits, x \in VoteIds :
                       b # "eject" \/ x # current => pending'[b][x] = pending[b][x]
  <1>1. /\ pending \in [Awaits -> [VoteIds -> Nat]] /\ acts \in [VoteIds -> Nat]
        /\ cooldown \in [VoteTypes -> NoEntry .. Cooldown]
        /\ current # 0 => current \in VoteIds
        /\ unawaited \in BOOLEAN
    BY TypeFacts DEF TypeOK
  <1>2. "lookup" \in Awaits /\ "eject" \in Awaits
    BY DEF Awaits
  <1>3. current # 0 => vote[current].type \in VoteTypes
    BY TypeFacts DEF VoteObjects
  <1>4. CASE current = 0 /\ UNCHANGED <<current, cooldown, pending, unawaited, acts>>
    BY <1>1, <1>4
  <1>5. CASE /\ current # 0
             /\ acts' = [acts EXCEPT ![current] = IF result THEN @ + 1 ELSE @]
             /\ SetCooldown(vote[current].type) /\ current' = 0 /\ UNCHANGED pending
             /\ unawaited' = (unawaited \/ result)
    <2>1. cooldown' \in [VoteTypes -> NoEntry .. Cooldown]
      BY <1>3, <1>5, CooldownType
    <2>2. /\ acts' \in [VoteIds -> Nat]
          /\ acts'[current] \in {acts[current], acts[current] + 1}
          /\ \A x \in VoteIds : x # current => acts'[x] = acts[x]
      BY <1>1, <1>5
    <2> QED BY <1>1, <1>5, <2>1, <2>2
  <1>6. CASE /\ current # 0 /\ vote[current].type = "insert"
             /\ pending' = [pending EXCEPT !["lookup"][current] = @ + 1]
             /\ UNCHANGED <<current, cooldown, unawaited, acts>>
    <2>1. /\ pending' \in [Awaits -> [VoteIds -> Nat]]
          /\ pending'["lookup"][current] = pending["lookup"][current] + 1
          /\ \A b \in Awaits, x \in VoteIds :
                b # "lookup" \/ x # current => pending'[b][x] = pending[b][x]
      BY <1>1, <1>2, <1>6, PendingUp
    <2> QED BY <1>1, <1>6, <2>1
  <1>7. CASE /\ current # 0 /\ vote[current].type = "eject"
             /\ acts' = [acts EXCEPT ![current] = @ + 1]
             /\ pending' = [pending EXCEPT !["eject"][current] = @ + 1]
             /\ UNCHANGED <<current, cooldown, unawaited>>
    <2>1. /\ pending' \in [Awaits -> [VoteIds -> Nat]]
          /\ pending'["eject"][current] = pending["eject"][current] + 1
          /\ \A b \in Awaits, x \in VoteIds :
                b # "eject" \/ x # current => pending'[b][x] = pending[b][x]
      BY <1>1, <1>2, <1>7, PendingUp
    <2>2. /\ acts' \in [VoteIds -> Nat] /\ acts'[current] = acts[current] + 1
          /\ \A x \in VoteIds : x # current => acts'[x] = acts[x]
      BY <1>1, <1>7
    <2> QED BY <1>1, <1>7, <2>1, <2>2
  <1> QED BY <1>4, <1>5, <1>6, <1>7 DEF OnVoteEnd

\* As long as no vote is ended twice, at the end of one nothing is awaited, and
\* it is the vote that is held.
LEMMA FirstEnd ==
    ASSUME IInv, EndedOnce, NEW w \in VoteIds, w = current \/ vote[w].running, ends[w] = 0
    PROVE  /\ w = current /\ acts[w] = 0
           /\ \A a \in Awaits, x \in VoteIds : pending[a][x] = 0
  <1>1. w = current
    BY DEF IInv, NoOrphanVote
  <1>2. \A a \in Awaits, x \in VoteIds : pending[a][x] \in Nat /\ acts[x] \in Nat
    BY TypeFacts DEF IInv
  <1>3. /\ pending["lookup"][w] + pending["insert"][w] + pending["eject"][w] <= 0
        /\ acts[w] + pending["lookup"][w] <= 0
    BY DEF IInv, EndsPay
  <1>4. acts[w] = 0 /\ \A a \in Awaits : pending[a][w] = 0
    BY <1>2, <1>3 DEF Awaits
  <1>5. \A a \in Awaits, x \in VoteIds : pending[a][x] > 0 => x = w
    BY <1>1 DEF IInv, NoOrphanVote
  <1> QED BY <1>1, <1>2, <1>4, <1>5

LEMMA EndIInv ==
    ASSUME IInv, NEW w \in VoteIds, NEW left \in 0 .. VoteTime, NEW result \in BOOLEAN,
           w = current \/ vote[w].running, ends[w] < MaxEnds, EndVote(w, left, result)
    PROVE  IInv'
  <1>1. /\ TypeOK /\ vote \in [VoteIds -> VoteObjects] /\ ends \in [VoteIds -> Nat]
        /\ acts \in [VoteIds -> Nat]
        /\ \A a \in Awaits, x \in VoteIds : pending[a][x] \in Nat
        /\ current # 0 => current \in VoteIds
        /\ current <= started /\ started \in Nat
    BY TypeFacts DEF IInv, TypeOK
  <1>2. /\ vote' = [vote EXCEPT ![w].running = FALSE, ![w].left = left]
        /\ hasVoted' = hasVoted \ Held(Voters(w))
        /\ markedLate' = markedLate \ Held(Voters(w))
        /\ ends' = [ends EXCEPT ![w] = @ + 1]
        /\ OnVoteEnd(result)
        /\ UNCHANGED <<conn, holder, ipDatas, votesAllowed, started, asking, up>>
    BY DEF EndVote, Unmark, connVars
  <1>3. /\ vote' \in [VoteIds -> VoteObjects]
        /\ ~vote'[w].running
        /\ \A x \in VoteIds : /\ vote'[x].type = vote[x].type
                              /\ Voters(x)' = Voters(x)
                              /\ x # w => vote'[x] = vote[x]
    <2> DEFINE e == [vote[w] EXCEPT !.running = FALSE, !.left = left]
    <2>1. /\ e \in VoteObjects /\ ~e.running /\ e.type = vote[w].type
          /\ e.yes = vote[w].yes /\ e.no = vote[w].no
      BY <1>1 DEF VoteObjects
    <2>2. vote' = [vote EXCEPT ![w] = e]
      BY <1>1, <1>2
    <2> HIDE DEF e
    <2> QED BY <1>1, <2>1, <2>2 DEF Voters
  <1>4. /\ ends'[w] = ends[w] + 1 /\ \A x \in VoteIds : x # w => ends'[x] = ends[x]
        /\ ends' \in [VoteIds -> 0 .. MaxEnds]
    <2>1. ends[w] + 1 \in 0 .. MaxEnds
      BY <1>1, BoundsAssumption
    <2> QED BY <1>1, <1>2, <2>1 DEF TypeOK
  <1> DEFINE Silent == current = 0 /\ UNCHANGED <<current, pending, acts>>
             Finished == /\ current # 0 /\ current' = 0 /\ pending' = pending
                         /\ acts'[current] \in {acts[current], acts[current] + 1}
                         /\ \A x \in VoteIds : x # current => acts'[x] = acts[x]
             Inserting == /\ current # 0 /\ current' = current
                          /\ vote[current].type = "insert"
                          /\ acts' = acts
                          /\ pending'["lookup"][current] = pending["lookup"][current] + 1
                          /\ \A b \in Awaits, x \in VoteIds :
                                b # "lookup" \/ x # current => pending'[b][x] = pending[b][x]
             Ejecting == /\ current # 0 /\ current' = current
                         /\ vote[current].type = "eject"
                         /\ acts'[current] = acts[current] + 1
                         /\ \A x \in VoteIds : x # current => acts'[x] = acts[x]
                         /\ pending'["eject"][current] = pending["eject"][current] + 1
                         /\ \A b \in Awaits, x \in VoteIds :
                               b # "eject" \/ x # current => pending'[b][x] = pending[b][x]
  <1>5. /\ current' \in {0, current}
        /\ cooldown' \in [VoteTypes -> NoEntry .. Cooldown]
        /\ pending' \in [Awaits -> [VoteIds -> Nat]] /\ acts' \in [VoteIds -> Nat]
        /\ unawaited' \in BOOLEAN
        /\ Silent \/ Finished \/ Inserting \/ Ejecting
    BY <1>1, <1>2, OnVoteEndFacts
  <1>6. TypeOK'
    <2> HIDE DEF Silent, Finished, Inserting, Ejecting
    <2>1. current' \in 0 .. started'
      <3>1. current \in 0 .. started /\ 0 \in 0 .. started /\ started' = started
        BY <1>1, <1>2 DEF TypeOK
      <3> QED BY <1>5, <3>1
    <2>2. hasVoted' \subseteq Users /\ markedLate' \subseteq hasVoted'
      BY <1>1, <1>2 DEF TypeOK
    <2> QED BY <1>1, <1>2, <1>3, <1>4, <1>5, <2>1, <2>2 DEF TypeOK, VoteObjects
  <1>16. Arrived'
    BY <1>2, <1>3 DEF IInv, Arrived
  <1>7. w <= started
    BY <1>1 DEF IInv, Unstarted, VoteIds
  <1>8. Unstarted'
    <2> SUFFICES ASSUME NEW x \in VoteIds, x > started
                 PROVE  /\ ~vote'[x].running /\ ends'[x] = 0 /\ acts'[x] = 0
                        /\ \A a \in Awaits : pending'[a][x] = 0
      BY <1>2 DEF Unstarted
    <2>1. x # w /\ x # current
      BY <1>1, <1>7 DEF VoteIds
    <2>2. /\ ~vote[x].running /\ ends[x] = 0 /\ acts[x] = 0
          /\ \A a \in Awaits : pending[a][x] = 0
      BY DEF IInv, Unstarted
    <2>3. acts'[x] = acts[x] /\ \A a \in Awaits : pending'[a][x] = pending[a][x]
      BY <1>5, <2>1
    <2> QED BY <1>3, <1>4, <2>1, <2>2, <2>3
  <1>9. RunningNotEnded'
    BY <1>3, <1>4 DEF IInv, RunningNotEnded
  <1>10. HeldIsEnabled'
    BY <1>1, <1>3, <1>5 DEF IInv, HeldIsEnabled
  <1>11. ASSUME EndedOnce'
         PROVE  /\ EndedOnce /\ w = current /\ ends[w] = 0 /\ acts[w] = 0
                /\ \A a \in Awaits, x \in VoteIds : pending[a][x] = 0
                /\ \A x \in VoteIds : ~vote'[x].running
    <2>1. EndedOnce /\ ends[w] = 0
      <3>1. \A x \in VoteIds : ends[x] <= ends'[x] /\ ends'[x] <= 1
        BY <1>1, <1>4, <1>11 DEF EndedOnce
      <3>2. \A x \in VoteIds : ends[x] \in Nat /\ ends'[x] \in Nat
        BY <1>1, <1>4
      <3>3. EndedOnce
        BY <3>1, <3>2 DEF EndedOnce
      <3>4. ends[w] = 0
        BY <1>4, <3>1, <3>2
      <3> QED BY <3>3, <3>4
    <2>2. w = current /\ acts[w] = 0 /\ \A a \in Awaits, x \in VoteIds : pending[a][x] = 0
      BY <2>1, FirstEnd
    <2>3. \A x \in VoteIds : ~vote'[x].running
      BY <1>3, <2>1, <2>2 DEF IInv, NoOrphanVote
    <2> QED BY <2>1, <2>2, <2>3
  <1>12. NoOrphanVote'
    <2> SUFFICES ASSUME EndedOnce'
                 PROVE  \A a \in Awaits, x \in VoteIds : pending'[a][x] > 0 => current' = x
      BY <1>11 DEF NoOrphanVote
    <2> QED BY <1>5, <1>11
  <1>13. (EndedOnce => EndsPay)'
    <2> SUFFICES ASSUME EndedOnce', NEW x \in VoteIds
                 PROVE  /\ pending'["lookup"][x] + pending'["insert"][x] + pending'["eject"][x]
                              <= ends'[x]
                        /\ acts'[x] + pending'["lookup"][x] <= ends'[x]
      BY DEF EndsPay
    <2>0. "lookup" \in Awaits /\ "insert" \in Awaits /\ "eject" \in Awaits
      BY DEF Awaits
    <2>1. CASE x = w
      <3>1. /\ x = current /\ x # 0 /\ ends'[x] = 1 /\ acts[x] = 0
            /\ \A a \in Awaits : pending[a][x] = 0
        BY <1>4, <1>11, <2>1 DEF VoteIds
      <3>2. CASE Finished
        <4>1. acts'[x] \in {0, 1} /\ \A a \in Awaits : pending'[a][x] = 0
          BY <3>1, <3>2
        <4> QED BY <2>0, <3>1, <4>1
      <3>3. CASE Inserting
        <4>1. /\ acts'[x] = 0 /\ pending'["lookup"][x] = 1
              /\ pending'["insert"][x] = 0 /\ pending'["eject"][x] = 0
          BY <2>0, <3>1, <3>3
        <4> QED BY <3>1, <4>1
      <3>4. CASE Ejecting
        <4>1. /\ acts'[x] = 1 /\ pending'["lookup"][x] = 0
              /\ pending'["insert"][x] = 0 /\ pending'["eject"][x] = 1
          BY <2>0, <3>1, <3>4
        <4> QED BY <3>1, <4>1
      <3> QED BY <1>5, <3>1, <3>2, <3>3, <3>4
    <2>2. CASE x # w
      <3>1. acts'[x] = acts[x] /\ ends'[x] = ends[x] /\ \A a \in Awaits : pending'[a][x] = pending[a][x]
        BY <1>4, <1>5, <1>11, <2>2
      <3> QED BY <1>11, <2>0, <3>1 DEF IInv, EndsPay
    <2> QED BY <2>1, <2>2
  <1>14. AtMostTwoPerIP'
    BY <1>11 DEF AtMostTwoPerIP
  <1>15. (VmOnly => MarksAreVoters)'
    <2> SUFFICES ASSUME VmOnly PROVE MarksAreVoters'
      BY DEF VmOnly
    <2>1. MarksAreVoters
      BY DEF IInv
    <2>2. w = current /\ current # 0
      BY <2>1 DEF MarksAreVoters, VoteIds
    <2>3. vote[current].type \in VmVotes
      BY <2>2 DEF IInv, HeldIsEnabled, VmOnly
    <2>4. current' = 0 /\ pending' = pending
      BY <1>5, <2>2, <2>3 DEF VmVotes
    <2>5. hasVoted' = {}
      BY <1>2, <2>1, <2>2 DEF MarksAreVoters
    <2>6. \A x \in VoteIds : ~vote'[x].running
      BY <1>3, <2>1, <2>2 DEF MarksAreVoters
    <2> QED BY <2>1, <2>4, <2>5, <2>6 DEF MarksAreVoters, FlagsClearBetweenVotes
  <1> QED BY <1>6, <1>8, <1>9, <1>10, <1>12, <1>13, <1>14, <1>15, <1>16 DEF IInv

LEMMA TickIInv ==
    ASSUME IInv, NEW w \in VoteIds, vote[w].left - 1 >= 1,
           vote' = [vote EXCEPT ![w].left = vote[w].left - 1],
           UNCHANGED <<connVars, votesAllowed, current, started, markVars,
                       cooldown, asking, pending, unawaited, up, ends, acts>>
    PROVE  IInv'
  <1> DEFINE v == [vote[w] EXCEPT !.left = vote[w].left - 1]
  <1>1. TypeOK /\ vote \in [VoteIds -> VoteObjects]
    BY TypeFacts DEF IInv
  <1>2. vote[w].left - 1 \in 0 .. VoteTime
    BY <1>1, TimesAssumption DEF VoteObjects
  <1>3. /\ v \in VoteObjects /\ v.running = vote[w].running /\ v.type = vote[w].type
        /\ v.yes = vote[w].yes /\ v.no = vote[w].no /\ v.left >= 1
    BY <1>1, <1>2 DEF VoteObjects
  <1>4. vote' = [vote EXCEPT ![w] = v]
    OBVIOUS
  <1> HIDE DEF v
  <1>5. /\ vote' \in [VoteIds -> VoteObjects]
        /\ vote'[w].left >= 1
        /\ \A x \in VoteIds : /\ x # w => vote'[x] = vote[x]
                              /\ vote'[x].running = vote[x].running
                              /\ vote'[x].type = vote[x].type
                              /\ vote'[x].yes = vote[x].yes /\ vote'[x].no = vote[x].no
    BY <1>1, <1>3, <1>4
  <1>6. TypeOK' /\ holder' = holder
    BY <1>1, <1>5 DEF TypeOK, VoteObjects, connVars, markVars
  <1>7. (Unstarted /\ RunningNotEnded)'
    BY <1>5 DEF IInv, Unstarted, RunningNotEnded
  <1>8. HeldIsEnabled'
    BY <1>1, <1>5, TypeFacts DEF IInv, HeldIsEnabled
  <1>9. NoOrphanVote' /\ (EndedOnce => EndsPay)'
    BY <1>5 DEF IInv, NoOrphanVote, EndedOnce, EndsPay
  <1>10. \A x \in VoteIds : Voters(x)' = Voters(x)
    BY <1>5 DEF Voters
  <1>13. Arrived'
    BY <1>10 DEF IInv, Arrived, connVars
  <1>11. AtMostTwoPerIP'
    <2> SUFFICES ASSUME EndedOnce, NEW x \in VoteIds, NEW o \in Users, vote[x].running
                 PROVE  Cardinality({u \in Voters(x)' : holder[u] = o})
                           <= IF o \in hasVoted THEN 2 ELSE 1
      BY <1>5, <1>6 DEF AtMostTwoPerIP, EndedOnce, markVars
    <2>1. {u \in Voters(x)' : holder[u] = o} = {u \in Voters(x) : holder[u] = o}
      BY <1>10
    <2> QED BY <2>1 DEF IInv, AtMostTwoPerIP
  <1>12. (VmOnly => MarksAreVoters)'
    <2>1. current # 0 => Voters(current)' = Voters(current)
      BY <1>1, <1>10, TypeFacts
    <2> QED BY <1>5, <1>6, <2>1
          DEF IInv, VmOnly, MarksAreVoters, FlagsClearBetweenVotes, Held, markVars
  <1> QED BY <1>6, <1>7, <1>8, <1>9, <1>11, <1>12, <1>13 DEF IInv

\* What a step of a continuation that is awaited for vote w keeps.
LEMMA Resumed ==
    ASSUME IInv, NEW b \in Awaits, NEW w \in VoteIds, pending[b][w] > 0, TypeOK',
           UNCHANGED <<conn, holder, asking, started, vote, hasVoted, ends>>,
           current' \in {0, current},
           \A x \in VoteIds : x # w =>
               acts'[x] = acts[x] /\ \A a \in Awaits : pending'[a][x] = pending[a][x],
           NoOrphanVote', EndedOnce => EndsPay'
    PROVE  IInv'
  <1>1. w <= started
    BY TypeFacts DEF IInv, Unstarted, VoteIds
  <1>2. Unstarted'
    <2>1. \A x \in VoteIds : x > started => x # w
      BY <1>1, TypeFacts DEF IInv, VoteIds
    <2> QED BY <2>1 DEF IInv, Unstarted
  <1>3. RunningNotEnded' /\ HeldIsEnabled'
    BY DEF IInv, RunningNotEnded, HeldIsEnabled
  <1>4. AtMostTwoPerIP' /\ Arrived'
    BY DEF IInv, AtMostTwoPerIP, EndedOnce, Voters, Arrived
  <1>5. ~VmOnly
    BY DEF IInv, MarksAreVoters
  <1>6. (EndedOnce => EndsPay)' /\ (VmOnly => MarksAreVoters)'
    BY <1>5 DEF EndedOnce, VmOnly
  <1> QED BY <1>2, <1>3, <1>4, <1>6 DEF IInv

\* While something is awaited for a vote that was ended once, the vote is held,
\* no interval runs, and nothing else is awaited.
LEMMA OneAwaited ==
    ASSUME IInv, EndedOnce, NEW b \in Awaits, NEW w \in VoteIds, pending[b][w] > 0
    PROVE  /\ current = w /\ ends[w] = 1 /\ pending[b][w] = 1
           /\ \A x \in VoteIds : ~vote[x].running
           /\ \A a \in Awaits, x \in VoteIds : a # b \/ x # w => pending[a][x] = 0
           /\ b = "lookup" => acts[w] = 0
           /\ acts[w] <= 1
  <1>1. \A a \in Awaits, x \in VoteIds : pending[a][x] \in Nat /\ acts[x] \in Nat /\ ends[x] \in Nat
    BY TypeFacts DEF IInv
  <1>2. \A a \in Awaits, x \in VoteIds : pending[a][x] > 0 => current = x
    BY DEF IInv, NoOrphanVote
  <1>3. /\ pending["lookup"][w] + pending["insert"][w] + pending["eject"][w] <= ends[w]
        /\ acts[w] + pending["lookup"][w] <= ends[w] /\ ends[w] <= 1
    BY DEF IInv, EndsPay, EndedOnce
  <1>4. b \in {"lookup", "insert", "eject"} /\ {"lookup", "insert", "eject"} = Awaits
    BY DEF Awaits
  <1>5. /\ ends[w] = 1 /\ pending[b][w] = 1 /\ \A a \in Awaits : a # b => pending[a][w] = 0
    BY <1>1, <1>3, <1>4
  <1>6. (b = "lookup" => acts[w] = 0) /\ acts[w] <= 1
    BY <1>1, <1>3, <1>4, <1>5
  <1>7. \A a \in Awaits, x \in VoteIds : x # w => pending[a][x] = 0
    BY <1>1, <1>2
  <1>8. \A x \in VoteIds : ~vote[x].running
    BY <1>2, <1>5 DEF IInv, NoOrphanVote, RunningNotEnded
  <1> QED BY <1>2, <1>5, <1>6, <1>7, <1>8

LEMMA LookupFoundIInv ==
    ASSUME IInv, NEW w \in VoteIds, LookupFound(w)
    PROVE  IInv'
  <1>0. "lookup" \in Awaits /\ "insert" \in Awaits /\ "eject" \in Awaits
    BY DEF Awaits
  <1>1. /\ TypeOK /\ pending \in [Awaits -> [VoteIds -> Nat]] /\ acts \in [VoteIds -> Nat]
        /\ pending["lookup"][w] > 0
    BY DEF IInv, TypeOK, LookupFound
  <1>2. /\ pending' = [pending EXCEPT !["lookup"][w] = @ - 1, !["insert"][w] = @ + 1]
        /\ acts' = [acts EXCEPT ![w] = @ + 1]
        /\ UNCHANGED <<connVars, votesAllowed, current, started, vote, markVars, cooldown,
                       asking, unawaited, up, ends>>
    BY DEF LookupFound
  <1>3. /\ pending' \in [Awaits -> [VoteIds -> Nat]]
        /\ pending'["lookup"][w] = pending["lookup"][w] - 1
        /\ pending'["insert"][w] = pending["insert"][w] + 1
        /\ pending'["eject"][w] = pending["eject"][w]
        /\ \A a \in Awaits, x \in VoteIds : x # w => pending'[a][x] = pending[a][x]
    BY <1>1, <1>2, PendingMoved
  <1>4. /\ acts' \in [VoteIds -> Nat] /\ acts'[w] = acts[w] + 1
        /\ \A x \in VoteIds : x # w => acts'[x] = acts[x]
    BY <1>1, <1>2
  <1>5. TypeOK' /\ UNCHANGED <<conn, holder, hasVoted>>
    BY <1>1, <1>2, <1>3, <1>4 DEF TypeOK, connVars, markVars
  <1>6. ASSUME EndedOnce
        PROVE  /\ current = w /\ ends[w] = 1
               /\ pending'["lookup"][w] = 0 /\ pending'["insert"][w] = 1
               /\ pending'["eject"][w] = 0 /\ acts'[w] = 1
               /\ \A a \in Awaits, x \in VoteIds : x # w => pending'[a][x] = 0
    <2>1. /\ current = w /\ ends[w] = 1 /\ pending["lookup"][w] = 1 /\ acts[w] = 0
          /\ pending["insert"][w] = 0 /\ pending["eject"][w] = 0
          /\ \A a \in Awaits, x \in VoteIds : x # w => pending[a][x] = 0
      BY <1>0, <1>1, <1>6, OneAwaited
    <2> QED BY <1>3, <1>4, <2>1
  <1>7. NoOrphanVote'
    <2> SUFFICES ASSUME EndedOnce
                 PROVE  \A a \in Awaits, x \in VoteIds : pending'[a][x] > 0 => current = x
      BY <1>2 DEF IInv, NoOrphanVote, EndedOnce
    <2> QED BY <1>6
  <1>8. EndedOnce => EndsPay'
    <2> SUFFICES ASSUME EndedOnce, NEW x \in VoteIds
                 PROVE  /\ pending'["lookup"][x] + pending'["insert"][x] + pending'["eject"][x]
                              <= ends'[x]
                        /\ acts'[x] + pending'["lookup"][x] <= ends'[x]
      BY DEF EndsPay
    <2>1. CASE x = w
      BY <1>2, <1>6, <2>1
    <2>2. CASE x # w
      <3>1. \A a \in Awaits : pending'[a][x] = pending[a][x]
        BY <1>3, <2>2
      <3> QED BY <1>0, <1>2, <1>4, <2>2, <3>1 DEF IInv, EndsPay
    <2> QED BY <2>1, <2>2
  <1> QED BY <1>0, <1>1, <1>2, <1>3, <1>4, <1>5, <1>7, <1>8, Resumed

\* A continuation that goes no further, with the vote held or cleared.
LEMMA DoneIInv ==
    ASSUME IInv, NEW b \in Awaits, NEW w \in VoteIds, pending[b][w] > 0,
           pending' = [pending EXCEPT ![b][w] = @ - 1],
           cooldown' \in [VoteTypes -> NoEntry .. Cooldown], current' \in {0, current},
           UNCHANGED <<connVars, votesAllowed, started, vote, markVars, asking, unawaited, up,
                       ends, acts>>
    PROVE  IInv'
  <1>1. /\ TypeOK /\ pending \in [Awaits -> [VoteIds -> Nat]]
    BY DEF IInv, TypeOK
  <1>2. /\ pending' \in [Awaits -> [VoteIds -> Nat]]
        /\ pending'[b][w] = pending[b][w] - 1
        /\ \A a \in Awaits, x \in VoteIds : a # b \/ x # w => pending'[a][x] = pending[a][x]
    BY <1>1, PendingDown
  <1>3. TypeOK' /\ UNCHANGED <<conn, holder, hasVoted>>
    <2>1. current' \in 0 .. started'
      BY <1>1 DEF TypeOK
    <2> QED BY <1>1, <1>2, <2>1 DEF TypeOK, connVars, markVars
  <1>4. ASSUME EndedOnce
        PROVE  /\ \A a \in Awaits, x \in VoteIds : pending'[a][x] = 0
               /\ \A x \in VoteIds : ~vote[x].running
    <2>1. /\ pending[b][w] = 1 /\ \A x \in VoteIds : ~vote[x].running
          /\ \A a \in Awaits, x \in VoteIds : a # b \/ x # w => pending[a][x] = 0
      BY <1>4, OneAwaited
    <2> QED BY <1>2, <2>1
  <1>5. NoOrphanVote'
    BY <1>4 DEF NoOrphanVote, EndedOnce
  <1>6. EndedOnce => EndsPay'
    <2> SUFFICES ASSUME EndedOnce, NEW x \in VoteIds
                 PROVE  /\ pending'["lookup"][x] + pending'["insert"][x] + pending'["eject"][x]
                              <= ends'[x]
                        /\ acts'[x] + pending'["lookup"][x] <= ends'[x]
      BY DEF EndsPay
    <2>1. "lookup" \in Awaits /\ "insert" \in Awaits /\ "eject" \in Awaits
      BY DEF Awaits
    <2>2. /\ acts[x] \in Nat /\ ends[x] \in Nat /\ \A a \in Awaits : pending[a][x] \in Nat
      BY <1>1, TypeFacts
    <2>3. acts[x] + pending["lookup"][x] <= ends[x]
      BY DEF IInv, EndsPay
    <2>4. acts[x] <= ends[x]
      BY <2>1, <2>2, <2>3
    <2> QED BY <1>4, <2>1, <2>2, <2>4
  <1> QED BY <1>2, <1>3, <1>5, <1>6, Resumed

LEMMA ExitIInv ==
    ASSUME IInv, ProcessExits
    PROVE  IInv'
  <1>1. /\ TypeOK /\ ends \in [VoteIds -> Nat] /\ acts \in [VoteIds -> Nat]
        /\ started \in 0 .. MaxVotes
    BY TypeFacts DEF IInv, TypeOK
  <1>2. /\ current' = 0 /\ hasVoted' = {} /\ markedLate' = {}
        /\ vote' \in [VoteIds -> VoteObjects]
        /\ \A w \in VoteIds : ~vote'[w].running
        /\ \A a \in Awaits, w \in VoteIds : pending'[a][w] = 0
        /\ pending' \in [Awaits -> [VoteIds -> Nat]]
        /\ UNCHANGED <<started, ends, acts>>
    BY NoVoteLemma DEF ProcessExits
  <1>3. TypeOK'
    <2>1. NoEntry \in NoEntry .. Cooldown
      BY TimesAssumption DEF NoEntry
    <2>2. /\ cooldown' \in [VoteTypes -> NoEntry .. Cooldown] /\ asking' = {} /\ up' = FALSE
          /\ conn' \in [Users -> {"none", "client", "displaced", "gone"}]
          /\ holder' \in [Users -> Users] /\ ipDatas' = {} /\ unawaited' = FALSE
          /\ votesAllowed' = votesAllowed
      BY <2>1 DEF ProcessExits
    <2>3. current' \in 0 .. started'
      BY <1>1, <1>2, BoundsAssumption
    <2> QED BY <1>1, <1>2, <2>2, <2>3 DEF TypeOK, VoteObjects
  <1>4. (Unstarted /\ RunningNotEnded /\ HeldIsEnabled)'
    BY <1>2 DEF IInv, Unstarted, RunningNotEnded, HeldIsEnabled
  <1>5. NoOrphanVote' /\ AtMostTwoPerIP' /\ (VmOnly => MarksAreVoters)'
    BY <1>2 DEF NoOrphanVote, AtMostTwoPerIP, MarksAreVoters, FlagsClearBetweenVotes
  <1>7. Arrived'
    BY DEF ProcessExits, Arrived
  <1>6. (EndedOnce => EndsPay)'
    <2> SUFFICES ASSUME EndedOnce, NEW x \in VoteIds
                 PROVE  /\ pending'["lookup"][x] + pending'["insert"][x] + pending'["eject"][x]
                              <= ends'[x]
                        /\ acts'[x] + pending'["lookup"][x] <= ends'[x]
      BY <1>2 DEF EndsPay, EndedOnce
    <2>1. "lookup" \in Awaits /\ "insert" \in Awaits /\ "eject" \in Awaits
      BY DEF Awaits
    <2>2. acts[x] \in Nat /\ ends[x] \in Nat /\ pending["lookup"][x] \in Nat
      BY <1>1, <2>1, TypeFacts
    <2>3. acts[x] + pending["lookup"][x] <= ends[x]
      BY DEF IInv, EndsPay
    <2> QED BY <1>2, <2>1, <2>2, <2>3
  <1> QED BY <1>3, <1>4, <1>5, <1>6, <1>7 DEF IInv

-----------------------------------------------------------------------------
(* The inductive invariant.                                                *)

LEMMA InitIInv == Init => IInv
  <1> SUFFICES ASSUME Init PROVE IInv
    OBVIOUS
  <1>1. /\ current = 0 /\ started = 0 /\ hasVoted = {} /\ markedLate = {}
        /\ vote \in [VoteIds -> VoteObjects]
        /\ \A w \in VoteIds : ~vote[w].running /\ ends[w] = 0 /\ acts[w] = 0
        /\ \A a \in Awaits, w \in VoteIds : pending[a][w] = 0
    BY NoVoteLemma DEF Init
  <1>2. TypeOK
    <2>1. NoEntry \in NoEntry .. Cooldown /\ 0 \in 0 .. MaxEnds /\ 0 \in 0 .. MaxVotes
      BY TimesAssumption, BoundsAssumption DEF NoEntry
    <2>2. /\ conn \in [Users -> {"none", "client", "displaced", "gone"}]
          /\ holder \in [Users -> Users] /\ ipDatas = {} /\ unawaited \in BOOLEAN
          /\ votesAllowed \in BOOLEAN /\ asking \subseteq Users /\ up \in BOOLEAN
      BY DEF Init
    <2>5. /\ current \in 0 .. started /\ started \in 0 .. MaxVotes
          /\ cooldown \in [VoteTypes -> NoEntry .. Cooldown]
          /\ pending \in [Awaits -> [VoteIds -> Nat]]
          /\ ends \in [VoteIds -> 0 .. MaxEnds] /\ acts \in [VoteIds -> Nat]
      BY <2>1 DEF Init
    <2>3. ipDatas \subseteq Users /\ hasVoted \subseteq Users /\ markedLate \subseteq hasVoted
      BY <1>1, <2>2
    <2>4. vote \in [VoteIds -> [type : VoteTypes, left : 0 .. VoteTime, running : BOOLEAN,
                                yes : SUBSET Users, no : SUBSET Users,
                                late : SUBSET Users]]
      BY <1>1 DEF VoteObjects
    <2> QED BY <2>2, <2>3, <2>4, <2>5 DEF TypeOK
  <1>3. Unstarted /\ RunningNotEnded /\ HeldIsEnabled /\ NoOrphanVote /\ AtMostTwoPerIP
    BY <1>1 DEF Unstarted, RunningNotEnded, HeldIsEnabled, NoOrphanVote, AtMostTwoPerIP
  <1>4. EndsPay
    BY <1>1 DEF EndsPay, Awaits
  <1>5. MarksAreVoters
    BY <1>1 DEF MarksAreVoters, FlagsClearBetweenVotes
  <1>6. Arrived
    BY NoVoteLemma DEF Init, Arrived, Voters
  <1> QED BY <1>2, <1>3, <1>4, <1>5, <1>6 DEF IInv

LEMMA TalkingArrived ==
    ASSUME TypeOK, NEW u \in Talking
    PROVE  conn[u] # "none"
  BY DEF Talking

\* The VM is told something outside the votes.
LEMMA TellVmIInv ==
    ASSUME IInv, TellVm
    PROVE  IInv'
  <1>1. TypeOK' /\ Arrived'
    BY DEF TellVm, IInv, TypeOK, Arrived, Voters, connVars, markVars
  <1> QED BY <1>1, QuietIInv DEF TellVm, SameHolders, connVars

LEMMA OnStartVoteIInv ==
    ASSUME IInv, NEW u \in Users, NEW t, OnStartVote(u, t)
    PROVE  IInv'
  <1>1. StartVote(u, t) /\ asking' \subseteq asking /\ u \in Talking /\ TypeOK
    BY DEF OnStartVote, IInv
  <1> QED BY <1>1, TalkingArrived, StartIInv

LEMMA HandlerIInv ==
    ASSUME IInv, NEW u \in Users, Handler(u)
    PROVE  IInv'
  <1>0. TypeOK
    BY DEF IInv
  <1>1. ASSUME NEW t \in VmVotes, OnStartVote(u, t) PROVE IInv'
    BY <1>1, OnStartVoteIInv
  <1>2. ASSUME NEW yes \in BOOLEAN, OnCastVote(u, yes) PROVE IInv'
    <2>1. CASE OnStartVote(u, "reset")
      BY <2>1, OnStartVoteIInv
    <2>2. CASE ~OnStartVote(u, "reset")
      <3>1. /\ current # 0
            /\ holder[u] \notin hasVoted \/ u \in Voters(current)
            /\ AddVote(u, yes)
            /\ UNCHANGED <<connVars, votesAllowed, current, started, cooldown, asking,
                           pending, unawaited, up, ends, acts>>
        BY <1>2, <2>2 DEF OnCastVote
      <3>2. conn[u] # "none"
        BY <1>0, <1>2, <2>2, TalkingArrived DEF OnCastVote
      <3> QED BY <3>1, <3>2, CastIInv
    <2> QED BY <2>1, <2>2
  <1>3. ASSUME NEW result \in BOOLEAN, OnAdminForceVote(u, result) PROVE IInv'
    <2>1. /\ current # 0 /\ ends[current] < MaxEnds
          /\ EndVote(current, vote[current].left, result)
      BY <1>3 DEF OnAdminForceVote
    <2>2. current \in VoteIds /\ vote[current].left \in 0 .. VoteTime
      BY <1>0, <2>1, TypeFacts DEF VoteObjects
    <2> QED BY <2>1, <2>2, EndIInv
  <1>4. CASE OnAdminToggleTurns(u)
    <2>1. TypeOK' /\ Arrived'
      BY <1>4 DEF OnAdminToggleTurns, IInv, TypeOK, Arrived, Voters, connVars, markVars
    <2> QED BY <1>4, <2>1, QuietIInv DEF OnAdminToggleTurns, SameHolders, connVars
  <1>5. CASE OnIaosChangeMedia(u)
    <2>1. CASE TellVm
      BY <2>1, TellVmIInv
    <2>2. CASE ~TellVm
      <3>1. /\ u \in Talking /\ asking' = asking \cup {u}
            /\ UNCHANGED <<connVars, votesAllowed, current, started, vote, markVars,
                           cooldown, pending, unawaited, up, ends, acts>>
        BY <1>5, <2>2 DEF OnIaosChangeMedia
      <3>2. TypeOK' /\ Arrived'
        BY <1>0, <3>1, TalkingArrived DEF IInv, TypeOK, Arrived, Voters, connVars, markVars
      <3> QED BY <3>1, <3>2, QuietIInv DEF SameHolders, connVars
    <2> QED BY <2>1, <2>2
  <1>6. CASE OnIaosEjectMedia(u)
    <2>1. CASE TellVm
      BY <2>1, TellVmIInv
    <2>2. CASE ~TellVm
      <3>1. StartVote(u, "eject") /\ asking' \subseteq asking /\ conn[u] # "none"
        BY <1>0, <1>6, <2>2, TalkingArrived DEF OnIaosEjectMedia
      <3> QED BY <3>1, StartIInv
    <2> QED BY <2>1, <2>2
  <1>7. CASE OnAdminRestore(u)
    BY <1>7, TellVmIInv DEF OnAdminRestore
  <1> QED BY <1>1, <1>2, <1>3, <1>4, <1>5, <1>6, <1>7 DEF Handler

LEMMA ConnectIInv ==
    ASSUME IInv, NEW u \in Users, Connect(u)
    PROVE  IInv' /\ SameHolders
  <1>1. /\ TypeOK /\ Arrived /\ conn[u] = "none"
        /\ conn' = [conn EXCEPT ![u] = "client"]
        /\ UNCHANGED <<votesAllowed, current, started, vote, markVars, cooldown, asking,
                       pending, unawaited, up, ends, acts>>
    BY DEF Connect, IInv
  <1>2. \E o \in Users : holder' = [holder EXCEPT ![u] = o]
    BY <1>1 DEF Connect, TypeOK
  <1>3. ipDatas' \subseteq Users
    BY <1>1 DEF Connect, TypeOK
  <1>4. TypeOK'
    BY <1>1, <1>2, <1>3 DEF TypeOK, markVars
  <1>5. Arrived'
    BY <1>1 DEF TypeOK, Arrived, Voters
  <1>6. SameHolders
    BY <1>1, <1>2 DEF TypeOK, Arrived, SameHolders
  <1> QED BY <1>1, <1>4, <1>5, <1>6, QuietIInv

LEMMA ConnectionIInv ==
    ASSUME IInv, NEW u \in Users, Connection(u)
    PROVE  IInv'
  <1>1. CASE Displaced(u) \/ Disconnected(u)
    <2>1. /\ RemoveVote(u) \/ UNCHANGED <<vote, markVars>>
          /\ conn' \in [Users -> {"none", "client", "displaced", "gone"}]
          /\ \A x \in Users : conn'[x] = "none" => conn[x] = "none"
          /\ UNCHANGED <<holder, ipDatas, votesAllowed, current, started, cooldown, asking,
                         pending, unawaited, up, ends, acts>>
      BY <1>1 DEF Displaced, Disconnected, IInv, TypeOK
    <2> QED BY <2>1, LeaveIInv
  <1> QED BY <1>1, ConnectIInv DEF Connection

LEMMA CollectIInv ==
    ASSUME IInv, Collect
    PROVE  IInv'
  <1>1. TypeOK' /\ Arrived'
    BY DEF Collect, IInv, TypeOK, Arrived, Voters, markVars
  <1> QED BY <1>1, QuietIInv DEF Collect, SameHolders

LEMMA ChangeMediaAnsweredIInv ==
    ASSUME IInv, NEW u \in Users, ChangeMediaAnswered(u)
    PROVE  IInv'
  <1>1. TypeOK /\ asking' \subseteq asking /\ conn[u] # "none"
    BY DEF ChangeMediaAnswered, IInv, Arrived
  <1>2. CASE StartVote(u, "insert")
    BY <1>1, <1>2, StartIInv
  <1>3. CASE UNCHANGED <<connVars, votesAllowed, current, started, vote, markVars,
                         cooldown, pending, unawaited, up, ends, acts>>
    <2>1. TypeOK' /\ Arrived'
      BY <1>1, <1>3 DEF IInv, TypeOK, Arrived, Voters, connVars, markVars
    <2> QED BY <1>3, <2>1, QuietIInv DEF SameHolders, connVars
  <1> QED BY <1>2, <1>3 DEF ChangeMediaAnswered

LEMMA VoteTickIInv ==
    ASSUME IInv, NEW w \in VoteIds, VoteTick(w)
    PROVE  IInv'
  <1> DEFINE left == vote[w].left - 1
  <1>1. vote[w].running /\ ends[w] = 0 /\ vote[w].left >= 1
    BY DEF VoteTick, IInv, RunningNotEnded
  <1>2. vote[w].left \in 0 .. VoteTime /\ left \in 0 .. VoteTime
    BY <1>1, TypeFacts, TimesAssumption DEF IInv, VoteObjects
  <1>3. CASE left < 1 /\ EndVote(w, left, MoreYes(w))
    <2>1. MoreYes(w) \in BOOLEAN /\ ends[w] < MaxEnds
      BY <1>1, BoundsAssumption DEF MoreYes
    <2> HIDE DEF left
    <2> QED BY <1>1, <1>2, <1>3, <2>1, EndIInv
  <1>4. CASE /\ left >= 1 /\ vote' = [vote EXCEPT ![w].left = left]
             /\ UNCHANGED <<connVars, votesAllowed, current, started, markVars,
                            cooldown, asking, pending, unawaited, up, ends, acts>>
    BY <1>4, TickIInv
  <1> QED BY <1>3, <1>4 DEF VoteTick

LEMMA CooldownTickIInv ==
    ASSUME IInv, NEW t \in VoteTypes, CooldownTick(t)
    PROVE  IInv'
  <1>1. TypeOK
    BY DEF IInv
  <1>2. /\ cooldown[t] \in NoEntry .. Cooldown
        /\ (IF cooldown[t] - 1 < 1 THEN NoEntry ELSE cooldown[t] - 1) \in NoEntry .. Cooldown
    BY <1>1, TimesAssumption DEF TypeOK, NoEntry
  <1>3. cooldown' \in [VoteTypes -> NoEntry .. Cooldown]
    BY <1>1, <1>2 DEF CooldownTick, TypeOK
  <1>4. TypeOK' /\ Arrived'
    BY <1>1, <1>3 DEF CooldownTick, IInv, TypeOK, Arrived, Voters, connVars, markVars
  <1> QED BY <1>4, QuietIInv DEF CooldownTick, SameHolders, connVars

LEMMA ContinuationIInv ==
    ASSUME IInv, NEW w \in VoteIds, Continuation(w)
    PROVE  IInv'
  <1>0. /\ TypeOK /\ cooldown \in [VoteTypes -> NoEntry .. Cooldown]
        /\ "lookup" \in Awaits
    BY DEF IInv, TypeOK, Awaits
  <1>1. CASE LookupFound(w)
    BY <1>1, LookupFoundIInv
  <1>2. CASE LookupBadId(w)
    <2>1. /\ pending["lookup"][w] > 0
          /\ pending' = [pending EXCEPT !["lookup"][w] = @ - 1]
          /\ UNCHANGED <<connVars, votesAllowed, current, started, vote, markVars, cooldown,
                         asking, unawaited, up, ends, acts>>
      BY <1>2 DEF LookupBadId
    <2> QED BY <1>0, <2>1, DoneIInv
  <1>3. ASSUME NEW a \in Awaits, MediaDone(a, w) PROVE IInv'
    <2>1. CASE ProcessExits
      BY <2>1, ExitIInv
    <2>2. CASE ~ProcessExits
      <3>1. /\ a \in {"insert", "eject"} /\ pending[a][w] > 0
            /\ pending' = [pending EXCEPT ![a][w] = @ - 1]
            /\ SetCooldown(a) /\ current' = 0
            /\ UNCHANGED <<connVars, votesAllowed, started, vote, markVars, asking,
                           unawaited, up, ends, acts>>
        BY <1>3, <2>2 DEF MediaDone
      <3>2. cooldown' \in [VoteTypes -> NoEntry .. Cooldown]
        BY <1>0, <3>1, CooldownType DEF VoteTypes
      <3> QED BY <3>1, <3>2, DoneIInv
    <2> QED BY <2>1, <2>2
  <1>4. ASSUME NEW a \in Awaits, Rejected(a, w) PROVE IInv'
    BY <1>4, ExitIInv DEF Rejected
  <1> QED BY <1>1, <1>2, <1>3, <1>4 DEF Continuation

LEMMA NextIInv == IInv /\ [Next]_voteVars => IInv'
  <1> SUFFICES ASSUME IInv, [Next]_voteVars PROVE IInv'
    OBVIOUS
  <1>1. ASSUME NEW u \in Users, Handler(u) PROVE IInv'
    BY <1>1, HandlerIInv
  <1>2. ASSUME NEW u \in Users, Connection(u) PROVE IInv'
    BY <1>2, ConnectionIInv
  <1>3. ASSUME NEW u \in Users, ChangeMediaAnswered(u) PROVE IInv'
    BY <1>3, ChangeMediaAnsweredIInv
  <1>4. ASSUME NEW w \in VoteIds, VoteTick(w) PROVE IInv'
    BY <1>4, VoteTickIInv
  <1>5. ASSUME NEW w \in VoteIds, Continuation(w) PROVE IInv'
    BY <1>5, ContinuationIInv
  <1>6. ASSUME NEW t \in VoteTypes, CooldownTick(t) PROVE IInv'
    BY <1>6, CooldownTickIInv
  <1>7. CASE Collect
    BY <1>7, CollectIInv
  <1>8. ASSUME NEW u \in Users, ChangeMediaRejected(u) PROVE IInv'
    BY <1>8, ExitIInv DEF ChangeMediaRejected
  <1>9. CASE UnawaitedRejected
    BY <1>9, ExitIInv DEF UnawaitedRejected
  <1>10. CASE UNCHANGED voteVars
    <2>1. TypeOK' /\ Arrived'
      BY <1>10 DEF voteVars, connVars, markVars, IInv, TypeOK, Arrived, Voters
    <2> QED BY <1>10, <2>1, QuietIInv DEF voteVars, connVars, SameHolders
  <1> QED BY <1>1, <1>2, <1>3, <1>4, <1>5, <1>6, <1>7, <1>8, <1>9, <1>10 DEF Next

\* The inductive invariant holds in every reachable state, for any users,
\* addresses, enabled types of votes, times and bounds.
THEOREM Invariance == Spec => []IInv
  BY InitIInv, NextIInv, PTL DEF Spec

\* The variables keep their types.
THEOREM TypeCorrect == Spec => []TypeOK
  <1>1. IInv => TypeOK
    BY DEF IInv
  <1> QED BY <1>1, Invariance, PTL

\* As long as staff end no vote twice, no vote is lost and no continuation of
\* onVoteEnd ends a vote in another's name (CollabVMServer.ts 1086-1136).
THEOREM NoOrphanVoteHolds == Spec => []NoOrphanVote
  <1>1. IInv => NoOrphanVote
    BY DEF IInv
  <1> QED BY <1>1, Invariance, PTL

\* As long as staff end no vote twice, the VM is acted on at most once for a
\* vote and never before its end: the ends pay for the acts.
THEOREM ActsOnceAfterEndHolds == Spec => []ActsOnceAfterEnd
  <1>1. ASSUME IInv PROVE ActsOnceAfterEnd
    <2> SUFFICES ASSUME EndedOnce, NEW w \in VoteIds PROVE acts[w] <= ends[w]
      BY DEF ActsOnceAfterEnd
    <2>1. /\ acts[w] \in Nat /\ ends[w] \in Nat /\ pending["lookup"][w] \in Nat
      BY <1>1, TypeFacts DEF IInv, Awaits
    <2>2. acts[w] + pending["lookup"][w] <= ends[w]
      BY <1>1 DEF IInv, EndsPay
    <2> QED BY <2>1, <2>2
  <1> QED BY <1>1, Invariance, PTL

\* As long as staff end no vote twice, a running vote counts at most two votes
\* of the users who share an IPData, and at most one once its mark is gone,
\* however they vote, change sides, leave and come back (Vote.ts 52-124).
THEOREM AtMostTwoPerIPHolds == Spec => []AtMostTwoPerIP
  <1>1. IInv => AtMostTwoPerIP
    BY DEF IInv
  <1> QED BY <1>1, Invariance, PTL

\* Where no vote on media is enabled, no IPData stays marked as having voted
\* when no vote is held, staff forcing the ends or not (Vote.ts 97-124, 144-146).
THEOREM FlagsClearHolds ==
    ASSUME EnabledVotes \subseteq VmVotes
    PROVE  Spec => []FlagsClearBetweenVotes
  <1>1. IInv => FlagsClearBetweenVotes
    BY DEF IInv, VmOnly, MarksAreVoters
  <1> QED BY <1>1, Invariance, PTL

-----------------------------------------------------------------------------
(* Action properties.                                                      *)

\* A handler or a continuation changes nobody's connection, unless it ends the
\* process, which leaves no vote.
LEMMA WhoLeaves ==
    ASSUME IInv, Next, NEW u \in Users, u \in Clients, u \notin Clients'
    PROVE  current' = 0 \/ (current' = current /\ RemoveVote(u))
  <1>1. conn[u] = "client" /\ conn'[u] # "client"
    BY DEF Clients
  <1>2. ASSUME NEW x \in Users, Handler(x) PROVE FALSE
    BY <1>1, <1>2 DEF Handler, OnStartVote, OnCastVote, OnAdminForceVote, StartVote, EndVote,
                      OnAdminToggleTurns, OnAdminRestore, OnIaosChangeMedia, OnIaosEjectMedia,
                      TellVm, connVars
  <1>3. ASSUME NEW x \in Users, Connection(x)
        PROVE  current' = current /\ RemoveVote(u)
    <2>1. conn \in [Users -> {"none", "client", "displaced", "gone"}]
      BY DEF IInv, TypeOK
    <2>2. x = u
      BY <1>1, <1>3, <2>1 DEF Connection, Connect, Displaced, Disconnected
    <2>3. ~Connect(u)
      BY <1>1 DEF Connect
    <2> QED BY <1>1, <1>3, <2>2, <2>3 DEF Connection, Displaced, Disconnected
  <1>4. ASSUME NEW x \in Users, ChangeMediaAnswered(x) PROVE FALSE
    BY <1>1, <1>4 DEF ChangeMediaAnswered, StartVote, connVars
  <1>5. ASSUME NEW w \in VoteIds, VoteTick(w) PROVE FALSE
    BY <1>1, <1>5 DEF VoteTick, EndVote, connVars
  <1>6. ASSUME NEW w \in VoteIds, Continuation(w) PROVE current' = 0
    BY <1>1, <1>6 DEF Continuation, LookupFound, LookupBadId, MediaDone, Rejected,
                      ProcessExits, connVars
  <1>7. ASSUME NEW t \in VoteTypes, CooldownTick(t) PROVE FALSE
    BY <1>1, <1>7 DEF CooldownTick, connVars
  <1>8. CASE Collect
    BY <1>1, <1>8 DEF Collect
  <1>9. ASSUME NEW x \in Users, ChangeMediaRejected(x) PROVE current' = 0
    BY <1>9 DEF ChangeMediaRejected, ProcessExits
  <1>10. CASE UnawaitedRejected
    BY <1>10 DEF UnawaitedRejected, ProcessExits
  <1> QED BY <1>2, <1>3, <1>4, <1>5, <1>6, <1>7, <1>8, <1>9, <1>10 DEF Next

LEMMA StepLeavers ==
    ASSUME IInv, [Next]_voteVars, NEW u \in Users, u \in Clients, u \notin Clients',
           current' # 0
    PROVE  u \notin vote'[current'].yes \cup vote'[current'].no
  <1>1. Next
    BY DEF voteVars, connVars, Clients
  <1>2. current' = current /\ RemoveVote(u)
    BY <1>1, WhoLeaves
  <1>3. current \in VoteIds /\ vote \in [VoteIds -> VoteObjects]
    BY <1>2, TypeFacts DEF IInv
  <1>4. CASE u \in Voters(current)
    <2>1. vote' = [vote EXCEPT ![current] = Unvoted(@, u)]
      BY <1>2, <1>4 DEF RemoveVote
    <2>2. vote'[current] = Unvoted(vote[current], u)
      BY <1>3, <2>1
    <2>3. /\ Unvoted(vote[current], u).yes = vote[current].yes \ {u}
          /\ Unvoted(vote[current], u).no = vote[current].no \ {u}
      BY <1>3, UnvotedLemma
    <2> QED BY <1>2, <2>2, <2>3
  <1>5. CASE u \notin Voters(current)
    BY <1>2, <1>5 DEF RemoveVote, Voters
  <1> QED BY <1>4, <1>5

\* What makes a vote the server holds get stuck: its end is no longer awaited,
\* and of all steps only the one that finds no media drops a wait and keeps the
\* vote.
LEMMA StepStuck ==
    ASSUME IInv, [Next]_voteVars, ~Stuck, Stuck'
    PROVE  \E w \in VoteIds : LookupBadId(w)
  <1>0. /\ TypeOK /\ vote \in [VoteIds -> VoteObjects]
        /\ pending \in [Awaits -> [VoteIds -> Nat]]
        /\ "lookup" \in Awaits /\ "insert" \in Awaits /\ "eject" \in Awaits
        /\ current # 0 => current \in VoteIds
        /\ current' # 0 /\ ~vote'[current'].running
        /\ \A a \in Awaits : pending'[a][current'] = 0
    BY TypeFacts DEF IInv, TypeOK, Awaits, Stuck
  <1>1. ~(/\ current' = current /\ vote'[current].running = vote[current].running
          /\ \A a \in Awaits : pending'[a][current] = pending[a][current])
    BY <1>0 DEF Stuck
  <1>2. ASSUME NEW u \in Users, NEW t, StartVote(u, t) PROVE FALSE
    <2>1. /\ current' = started + 1 /\ vote' = [vote EXCEPT ![started + 1] = NewVote(u, t)]
          /\ started < MaxVotes
      BY <1>2 DEF StartVote
    <2>2. started + 1 \in VoteIds
      BY <1>0, <2>1, BoundsAssumption DEF TypeOK, VoteIds
    <2>3. vote'[current'].running
      BY <1>0, <2>1, <2>2 DEF NewVote
    <2> QED BY <1>0, <2>3
  <1>3. ASSUME NEW w \in VoteIds, NEW left, NEW result \in BOOLEAN, EndVote(w, left, result)
        PROVE  FALSE
    <2>1. OnVoteEnd(result)
      BY <1>3 DEF EndVote
    <2>2. /\ pending'["lookup"][current] = pending["lookup"][current] + 1
             \/ pending'["eject"][current] = pending["eject"][current] + 1
          /\ current' = current /\ current # 0
      BY <1>0, <2>1, OnVoteEndFacts
    <2>3. /\ pending["lookup"][current] \in Nat /\ pending["eject"][current] \in Nat
          /\ pending'["lookup"][current] = 0 /\ pending'["eject"][current] = 0
      BY <1>0, <2>2
    <2> QED BY <2>2, <2>3
  <1>4. ASSUME NEW u \in Users, Handler(u) PROVE FALSE
    <2>1. ASSUME NEW t, OnStartVote(u, t) PROVE FALSE
      BY <1>2, <2>1 DEF OnStartVote
    <2>2. ASSUME NEW yes \in BOOLEAN, OnCastVote(u, yes) PROVE FALSE
      <3>1. CASE OnStartVote(u, "reset")
        BY <2>1, <3>1
      <3>2. CASE ~OnStartVote(u, "reset")
        <4>1. current # 0 /\ AddVote(u, yes) /\ UNCHANGED <<current, pending>>
          BY <2>2, <3>2 DEF OnCastVote
        <4>2. vote' = [vote EXCEPT ![current] = Voted(vote[current], u, yes)]
          BY <4>1 DEF AddVote
        <4>3. Voted(vote[current], u, yes).running = vote[current].running
          BY <1>0, <4>1, VotedLemma
        <4>4. vote'[current] = Voted(vote[current], u, yes)
          BY <1>0, <4>1, <4>2
        <4> QED BY <1>1, <4>1, <4>3, <4>4
      <3> QED BY <3>1, <3>2
    <2>3. ASSUME NEW result \in BOOLEAN, OnAdminForceVote(u, result) PROVE FALSE
      <3>1. current # 0 /\ EndVote(current, vote[current].left, result)
        BY <2>3 DEF OnAdminForceVote
      <3> QED BY <1>0, <1>3, <3>1
    <2>4. CASE OnAdminToggleTurns(u) \/ OnAdminRestore(u) \/ OnIaosChangeMedia(u) \/ TellVm
      <3>1. UNCHANGED <<current, vote, pending>>
        BY <2>4 DEF OnAdminToggleTurns, OnAdminRestore, OnIaosChangeMedia, TellVm
      <3> QED BY <1>1, <3>1
    <2>5. CASE OnIaosEjectMedia(u)
      BY <1>2, <2>4, <2>5 DEF OnIaosEjectMedia
    <2> QED BY <1>4, <2>1, <2>2, <2>3, <2>4, <2>5 DEF Handler
  <1>5. ASSUME NEW u \in Users, Connection(u) PROVE FALSE
    <2>1. /\ current' = current /\ pending' = pending
          /\ RemoveVote(u) \/ vote' = vote
      BY <1>5 DEF Connection, Connect, Displaced, Disconnected
    <2>2. CASE vote' = vote
      BY <1>1, <2>1, <2>2
    <2>3. CASE current # 0 /\ vote' = [vote EXCEPT ![current] = Unvoted(@, u)]
      <3>1. /\ vote'[current] = Unvoted(vote[current], u)
            /\ Unvoted(vote[current], u).running = vote[current].running
        BY <1>0, <2>3, UnvotedLemma
      <3> QED BY <1>1, <2>1, <3>1
    <2> QED BY <2>1, <2>2, <2>3 DEF RemoveVote
  <1>6. ASSUME NEW u \in Users, ChangeMediaAnswered(u) PROVE FALSE
    <2>1. CASE StartVote(u, "insert")
      BY <1>2, <2>1
    <2>2. CASE UNCHANGED <<current, vote, pending>>
      BY <1>1, <2>2
    <2> QED BY <1>6, <2>1, <2>2 DEF ChangeMediaAnswered
  <1>7. ASSUME NEW w \in VoteIds, VoteTick(w) PROVE FALSE
    <2> DEFINE left == vote[w].left - 1
    <2>1. CASE EndVote(w, left, MoreYes(w))
      <3>1. MoreYes(w) \in BOOLEAN
        BY DEF MoreYes
      <3> HIDE DEF left
      <3> QED BY <1>3, <2>1, <3>1
    <2>2. CASE vote' = [vote EXCEPT ![w].left = left] /\ UNCHANGED <<current, pending>>
      <3>1. \A x \in VoteIds : vote'[x].running = vote[x].running
        BY <1>0, <2>2 DEF VoteObjects
      <3> QED BY <1>0, <1>1, <2>2, <3>1
    <2> QED BY <1>7, <2>1, <2>2 DEF VoteTick
  <1>8. ASSUME NEW w \in VoteIds, LookupFound(w) PROVE FALSE
    <2>1. /\ current' = current /\ vote' = vote
          /\ pending["lookup"][w] > 0 /\ pending["insert"][w] \in Nat
          /\ pending' = [pending EXCEPT !["lookup"][w] = @ - 1, !["insert"][w] = @ + 1]
      BY <1>0, <1>8 DEF LookupFound
    <2>2. /\ pending'["insert"][w] = pending["insert"][w] + 1
          /\ \A a \in Awaits, x \in VoteIds : x # w => pending'[a][x] = pending[a][x]
      BY <1>0, <2>1, PendingMoved
    <2>3. CASE w = current
      BY <1>0, <2>1, <2>2, <2>3
    <2>4. CASE w # current
      BY <1>0, <1>1, <2>1, <2>2, <2>4
    <2> QED BY <2>3, <2>4
  <1>9. ASSUME NEW w \in VoteIds, NEW a \in Awaits, MediaDone(a, w) \/ Rejected(a, w) PROVE FALSE
    BY <1>0, <1>9 DEF MediaDone, Rejected, ProcessExits
  <1>10. ASSUME NEW t \in VoteTypes, CooldownTick(t) PROVE FALSE
    BY <1>1, <1>10 DEF CooldownTick
  <1>11. CASE UNCHANGED voteVars
    BY <1>1, <1>11 DEF voteVars
  <1>12. CASE Collect
    BY <1>1, <1>12 DEF Collect
  <1>13. ASSUME NEW u \in Users, ChangeMediaRejected(u) PROVE FALSE
    BY <1>0, <1>13 DEF ChangeMediaRejected, ProcessExits
  <1>14. CASE UnawaitedRejected
    BY <1>0, <1>14 DEF UnawaitedRejected, ProcessExits
  <1> QED BY <1>4, <1>5, <1>6, <1>7, <1>8, <1>9, <1>10, <1>11, <1>12, <1>13, <1>14
          DEF Next, Continuation

\* A vote the server holds gets stuck in one way only, by media the meta server
\* does not know at the end of a vote that passed (CollabVMServer.ts 1110-1113).
THEOREM StuckOnlyByBadIdHolds == Spec => StuckOnlyByBadId
  <1>1. IInv /\ [Next]_voteVars =>
            [~Stuck /\ Stuck' => \E w \in VoteIds : LookupBadId(w)]_voteVars
    BY StepStuck
  <1> QED BY <1>1, Invariance, PTL DEF Spec, StuckOnlyByBadId
-----------------------------------------------------------------------------
(* What a step may be, as far as the votes themselves are concerned.       *)

Quiet == UNCHANGED <<current, started, vote, markVars, pending, up, ends, acts>> /\ SameHolders

Casting(u) ==
    /\ current # 0
    /\ \E yes \in BOOLEAN : AddVote(u, yes)
    /\ UNCHANGED <<holder, current, started, pending, up, ends, acts>>

Leaving(u) ==
    /\ current # 0 /\ u \in Voters(current)
    /\ vote' = [vote EXCEPT ![current] = Unvoted(@, u)]
    /\ Unmark({holder[u]})
    /\ UNCHANGED <<holder, current, started, pending, up, ends, acts>>

\* The interval of a vote ends it, or staff the one that is held.
Ending(w) ==
    \E left \in 0 .. VoteTime, result \in BOOLEAN :
        /\ EndVote(w, left, result)
        /\ \/ vote[w].running
           \/ w = current /\ \E u \in Staff : OnAdminForceVote(u, result)

Ticking(w) ==
    /\ vote[w].left >= 1
    /\ vote' = [vote EXCEPT ![w].left = vote[w].left - 1]
    /\ UNCHANGED <<holder, current, started, markVars, pending, up, ends, acts>>

\* A continuation of vote w goes no further; one that awaited the VM clears
\* the vote that is held.
Dropping(a, w) ==
    /\ pending[a][w] > 0
    /\ pending' = [pending EXCEPT ![a][w] = @ - 1]
    /\ current' = IF a = "lookup" THEN current ELSE 0
    /\ UNCHANGED <<holder, started, vote, markVars, up, ends, acts>>

LEMMA HandlerSteps ==
    ASSUME IInv, NEW u \in Users, Handler(u)
    PROVE  \/ Quiet
           \/ \E t \in EnabledVotes : StartVote(u, t)
           \/ Casting(u)
           \/ \E w \in VoteIds : Ending(w)
  <1>1. ASSUME NEW t, StartVote(u, t) PROVE \E y \in EnabledVotes : StartVote(u, y)
    BY <1>1 DEF StartVote, CanStart
  <1>2. ASSUME NEW t, OnStartVote(u, t) PROVE \E y \in EnabledVotes : StartVote(u, y)
    BY <1>1, <1>2 DEF OnStartVote
  <1>3. ASSUME NEW yes \in BOOLEAN, OnCastVote(u, yes)
        PROVE  Casting(u) \/ \E y \in EnabledVotes : StartVote(u, y)
    BY <1>2, <1>3 DEF OnCastVote, Casting, connVars
  <1>4. ASSUME NEW result \in BOOLEAN, OnAdminForceVote(u, result)
        PROVE  \E w \in VoteIds : Ending(w)
    <2>1. u \in Staff /\ current # 0 /\ EndVote(current, vote[current].left, result)
      BY <1>4 DEF OnAdminForceVote
    <2>2. current \in VoteIds /\ vote[current].left \in 0 .. VoteTime
      BY <2>1, TypeFacts DEF IInv, VoteObjects
    <2>3. Ending(current)
      BY <1>4, <2>1, <2>2 DEF Ending
    <2> QED BY <2>2, <2>3
  <1>5. CASE OnAdminToggleTurns(u) \/ OnAdminRestore(u) \/ OnIaosChangeMedia(u) \/ TellVm
    BY <1>5 DEF OnAdminToggleTurns, OnAdminRestore, OnIaosChangeMedia, TellVm, Quiet,
                SameHolders, connVars
  <1>6. CASE OnIaosEjectMedia(u)
    BY <1>1, <1>5, <1>6 DEF OnIaosEjectMedia
  <1> QED BY <1>2, <1>3, <1>4, <1>5, <1>6 DEF Handler

LEMMA TickSteps ==
    ASSUME IInv, NEW w \in VoteIds, VoteTick(w)
    PROVE  Ending(w) \/ Ticking(w)
  <1> DEFINE left == vote[w].left - 1
  <1>1. vote[w].running /\ vote[w].left \in 0 .. VoteTime /\ vote[w].left >= 1
    BY TypeFacts DEF VoteTick, IInv, RunningNotEnded, VoteObjects
  <1>2. left \in 0 .. VoteTime /\ MoreYes(w) \in BOOLEAN
    BY <1>1, TimesAssumption DEF MoreYes
  <1>3. CASE EndVote(w, left, MoreYes(w))
    <2> HIDE DEF left
    <2> QED BY <1>1, <1>2, <1>3 DEF Ending
  <1>4. CASE /\ vote' = [vote EXCEPT ![w].left = left]
             /\ UNCHANGED <<holder, current, started, markVars, pending, up, ends, acts>>
    BY <1>1, <1>4 DEF Ticking
  <1> QED BY <1>3, <1>4 DEF VoteTick, connVars

LEMMA ContinuationSteps ==
    ASSUME IInv, NEW w \in VoteIds, Continuation(w)
    PROVE  \/ LookupFound(w)
           \/ \E a \in Awaits : Dropping(a, w)
           \/ ProcessExits
  <1>1. CASE LookupBadId(w)
    <2>1. Dropping("lookup", w)
      BY <1>1 DEF LookupBadId, Dropping, connVars
    <2> QED BY <2>1 DEF Awaits
  <1>2. ASSUME NEW a \in Awaits, MediaDone(a, w) PROVE ProcessExits \/ Dropping(a, w)
    BY <1>2 DEF MediaDone, Dropping, connVars
  <1>3. ASSUME NEW a \in Awaits, Rejected(a, w) PROVE ProcessExits
    BY <1>3 DEF Rejected
  <1> QED BY <1>1, <1>2, <1>3 DEF Continuation

\* Every step is one of these.
LEMMA Steps ==
    ASSUME IInv, [Next]_voteVars
    PROVE  \/ Quiet
           \/ \E u \in Users, t \in EnabledVotes : StartVote(u, t)
           \/ \E u \in Users : Casting(u) \/ Leaving(u)
           \/ \E w \in VoteIds : Ending(w) \/ Ticking(w) \/ LookupFound(w)
           \/ \E a \in Awaits, w \in VoteIds : Dropping(a, w)
           \/ ProcessExits
  <1>1. ASSUME NEW u \in Users, Handler(u)
        PROVE  \/ Quiet
               \/ \E t \in EnabledVotes : StartVote(u, t)
               \/ Casting(u)
               \/ \E w \in VoteIds : Ending(w)
    BY <1>1, HandlerSteps
  <1>2. ASSUME NEW u \in Users, Connection(u) PROVE Quiet \/ Leaving(u)
    <2>1. CASE Connect(u)
      BY <2>1, ConnectIInv DEF Connect, Quiet
    <2>2. CASE Displaced(u) \/ Disconnected(u)
      BY <2>2 DEF Displaced, Disconnected, RemoveVote, Quiet, Leaving, SameHolders
    <2> QED BY <1>2, <2>1, <2>2 DEF Connection
  <1>3. ASSUME NEW u \in Users, ChangeMediaAnswered(u)
        PROVE  Quiet \/ \E t \in EnabledVotes : StartVote(u, t)
    BY <1>3 DEF ChangeMediaAnswered, Quiet, SameHolders, connVars, StartVote, CanStart
  <1>4. ASSUME NEW w \in VoteIds, VoteTick(w) PROVE Ending(w) \/ Ticking(w)
    BY <1>4, TickSteps
  <1>5. ASSUME NEW w \in VoteIds, Continuation(w)
        PROVE  LookupFound(w) \/ (\E a \in Awaits : Dropping(a, w)) \/ ProcessExits
    BY <1>5, ContinuationSteps
  <1>6. ASSUME NEW t \in VoteTypes, CooldownTick(t) PROVE Quiet
    BY <1>6 DEF CooldownTick, Quiet, SameHolders, connVars
  <1>7. CASE UNCHANGED voteVars
    BY <1>7 DEF voteVars, Quiet, SameHolders, connVars
  <1>8. CASE Collect
    BY <1>8 DEF Collect, Quiet, SameHolders
  <1>9. ASSUME NEW u \in Users, ChangeMediaRejected(u) PROVE ProcessExits
    BY <1>9 DEF ChangeMediaRejected
  <1>10. CASE UnawaitedRejected
    BY <1>10 DEF UnawaitedRejected
  <1> QED BY <1>1, <1>2, <1>3, <1>4, <1>5, <1>6, <1>7, <1>8, <1>9, <1>10 DEF Next

\* What is left of the vote that a step ends, and of the others.
LEMMA EndingFacts ==
    ASSUME IInv, NEW w \in VoteIds, Ending(w)
    PROVE  /\ vote' \in [VoteIds -> VoteObjects]
           /\ ~vote'[w].running
           /\ \A x \in VoteIds : /\ vote'[x].type = vote[x].type
                                 /\ Voters(x)' = Voters(x)
                                 /\ vote'[x].late = vote[x].late
                                 /\ x # w => vote'[x] = vote[x]
           /\ hasVoted' = hasVoted \ Held(Voters(w))
           /\ markedLate' = markedLate \ Held(Voters(w))
           /\ ends'[w] = ends[w] + 1 /\ \A x \in VoteIds : x # w => ends'[x] = ends[x]
           /\ UNCHANGED <<holder, started, up>> /\ current' \in {0, current}
           /\ \E result \in BOOLEAN : OnVoteEnd(result)
           /\ vote[w].running \/ (w = current /\ current # 0)
  <1>1. PICK left \in 0 .. VoteTime, result \in BOOLEAN :
            /\ EndVote(w, left, result)
            /\ vote[w].running \/ (w = current /\ \E u \in Staff : OnAdminForceVote(u, result))
    BY DEF Ending
  <1>2. /\ vote \in [VoteIds -> VoteObjects] /\ ends \in [VoteIds -> Nat]
    BY TypeFacts DEF IInv
  <1>3. /\ vote' = [vote EXCEPT ![w].running = FALSE, ![w].left = left]
        /\ hasVoted' = hasVoted \ Held(Voters(w))
        /\ markedLate' = markedLate \ Held(Voters(w))
        /\ ends' = [ends EXCEPT ![w] = @ + 1]
        /\ OnVoteEnd(result)
        /\ UNCHANGED <<holder, started, up>>
    BY <1>1 DEF EndVote, Unmark, connVars
  <1> DEFINE e == [vote[w] EXCEPT !.running = FALSE, !.left = left]
  <1>4. /\ e \in VoteObjects /\ ~e.running /\ e.type = vote[w].type
        /\ e.yes = vote[w].yes /\ e.no = vote[w].no /\ e.late = vote[w].late
    BY <1>2 DEF VoteObjects
  <1>5. vote' = [vote EXCEPT ![w] = e]
    BY <1>2, <1>3
  <1> HIDE DEF e
  <1>6. /\ vote' \in [VoteIds -> VoteObjects] /\ vote'[w] = e
        /\ \A x \in VoteIds : x # w => vote'[x] = vote[x]
    BY <1>2, <1>4, <1>5
  <1>7. \A x \in VoteIds : /\ vote'[x].type = vote[x].type /\ vote'[x].late = vote[x].late
                          /\ Voters(x)' = Voters(x)
    BY <1>4, <1>6 DEF Voters
  <1>8. ends'[w] = ends[w] + 1 /\ \A x \in VoteIds : x # w => ends'[x] = ends[x]
    BY <1>2, <1>3
  <1>9. vote[w].running \/ (w = current /\ current # 0)
    BY <1>1 DEF OnAdminForceVote
  <1>10. current' \in {0, current}
    BY <1>3 DEF OnVoteEnd
  <1> QED BY <1>3, <1>4, <1>6, <1>7, <1>8, <1>9, <1>10

\* Where a vote has ended once after the step that ended it, it was the one
\* that is held, nothing was awaited, and the VM was told nothing before.
LEMMA EndingOnce ==
    ASSUME IInv, EndedOnce', NEW w \in VoteIds, Ending(w)
    PROVE  /\ EndedOnce /\ w = current /\ ends[w] = 0 /\ acts[w] = 0
           /\ \A a \in Awaits, x \in VoteIds : pending[a][x] = 0
  <1>1. /\ ends'[w] = ends[w] + 1 /\ \A x \in VoteIds : x # w => ends'[x] = ends[x]
        /\ vote[w].running \/ w = current
    BY EndingFacts
  <1>2. \A x \in VoteIds : ends[x] \in Nat
    BY TypeFacts DEF IInv
  <1>3. EndedOnce /\ ends[w] = 0
    BY <1>1, <1>2 DEF EndedOnce
  <1> QED BY <1>1, <1>3, FirstEnd
-----------------------------------------------------------------------------
(* Who is counted.                                                         *)

\* A step counts nobody who was neither a client nor late before it.
LEMMA StepVoters ==
    ASSUME IInv, LeaversDoNotCount, [Next]_voteVars, current' # 0
    PROVE  Voters(current)' \subseteq Clients \cup vote'[current'].late
  <1>0. /\ vote \in [VoteIds -> VoteObjects] /\ (current # 0 => current \in VoteIds)
    BY TypeFacts DEF IInv
  <1>1. ASSUME current' = current, Voters(current)' \subseteq Voters(current),
               vote'[current].late = vote[current].late
        PROVE  Voters(current)' \subseteq Clients \cup vote'[current'].late
    BY <1>1 DEF LeaversDoNotCount, Voters
  <1>2. ASSUME UNCHANGED <<current, vote>>
        PROVE  Voters(current)' \subseteq Clients \cup vote'[current'].late
    BY <1>1, <1>2 DEF Voters
  <1>3. ASSUME NEW u \in Users, NEW t \in EnabledVotes, StartVote(u, t)
        PROVE  Voters(current)' \subseteq Clients \cup vote'[current'].late
    <2>1. /\ started < MaxVotes /\ current' = started + 1
          /\ vote' = [vote EXCEPT ![started + 1] = NewVote(u, t)]
      BY <1>3 DEF StartVote
    <2>2. started + 1 \in VoteIds /\ t \in VoteTypes
      BY <2>1, TypeFacts, TypesAssumption, BoundsAssumption DEF IInv, VoteIds, VoteTypes
    <2>3. vote'[current'] = NewVote(u, t)
      BY <1>0, <2>1, <2>2
    <2>4. Voters(current)' = {u} /\ vote'[current'].late = {u} \ Clients
      BY <2>2, <2>3, NewVoteLemma DEF Voters
    <2> QED BY <2>4
  <1>4. ASSUME NEW u \in Users, Casting(u)
        PROVE  Voters(current)' \subseteq Clients \cup vote'[current'].late
    <2>1. PICK yes \in BOOLEAN : AddVote(u, yes)
      BY <1>4 DEF Casting
    <2> DEFINE v == Voted(vote[current], u, yes)
    <2>2. current # 0 /\ current' = current /\ vote' = [vote EXCEPT ![current] = v]
      BY <1>4, <2>1 DEF Casting, AddVote
    <2>3. /\ v.yes \cup v.no = Voters(current) \cup {u}
          /\ v.late = vote[current].late \cup ({u} \ Clients)
      BY <1>0, <2>2, VotedLemma DEF Voters
    <2> HIDE DEF v
    <2>4. vote'[current] = v
      BY <1>0, <2>2
    <2>5. Voters(current)' = Voters(current) \cup {u}
      BY <2>2, <2>3, <2>4 DEF Voters
    <2> QED BY <2>2, <2>3, <2>4, <2>5 DEF LeaversDoNotCount
  <1>5. ASSUME NEW u \in Users, Leaving(u)
        PROVE  Voters(current)' \subseteq Clients \cup vote'[current'].late
    <2> DEFINE v == Unvoted(vote[current], u)
    <2>1. current # 0 /\ current' = current /\ vote' = [vote EXCEPT ![current] = v]
      BY <1>5 DEF Leaving
    <2>2. /\ v.yes \cup v.no = Voters(current) \ {u}
          /\ v.late = vote[current].late
      BY <1>0, <2>1, UnvotedLemma DEF Voters
    <2> HIDE DEF v
    <2>3. vote'[current] = v
      BY <1>0, <2>1
    <2>4. Voters(current)' \subseteq Voters(current)
      BY <2>1, <2>2, <2>3 DEF Voters
    <2> QED BY <1>1, <2>1, <2>2, <2>3, <2>4
  <1>6. ASSUME NEW w \in VoteIds, Ending(w)
        PROVE  Voters(current)' \subseteq Clients \cup vote'[current'].late
    <2>1. /\ current' \in {0, current}
          /\ \A x \in VoteIds : Voters(x)' = Voters(x) /\ vote'[x].late = vote[x].late
      BY <1>6, EndingFacts
    <2>2. current' = current /\ current \in VoteIds
      BY <1>0, <2>1
    <2>3. Voters(current)' = Voters(current)
      BY <2>1, <2>2 DEF Voters
    <2> QED BY <1>1, <2>1, <2>2, <2>3
  <1>7. ASSUME NEW w \in VoteIds, Ticking(w)
        PROVE  Voters(current)' \subseteq Clients \cup vote'[current'].late
    <2>1. current' = current /\ current \in VoteIds
      BY <1>0, <1>7 DEF Ticking
    <2>2. /\ vote'[current].yes = vote[current].yes /\ vote'[current].no = vote[current].no
          /\ vote'[current].late = vote[current].late
      BY <1>0, <1>7, <2>1 DEF Ticking, VoteObjects
    <2>3. Voters(current)' \subseteq Voters(current)
      BY <2>1, <2>2 DEF Voters
    <2> QED BY <1>1, <2>1, <2>2, <2>3
  <1>8. ASSUME NEW w \in VoteIds, NEW a \in Awaits, LookupFound(w) \/ Dropping(a, w)
        PROVE  Voters(current)' \subseteq Clients \cup vote'[current'].late
    BY <1>2, <1>8 DEF LookupFound, Dropping
  <1>9. ASSUME Quiet
        PROVE  Voters(current)' \subseteq Clients \cup vote'[current'].late
    BY <1>2, <1>9 DEF Quiet
  <1>10. ~ProcessExits
    BY DEF ProcessExits
  <1>11. "lookup" \in Awaits
    BY DEF Awaits
  <1> QED BY <1>3, <1>4, <1>5, <1>6, <1>7, <1>8, <1>9, <1>10, <1>11, Steps

\* The held vote counts clients and those who voted late: whoever stops being a
\* client, by the end of his connection or a login elsewhere, loses the vote he
\* cast before, whichever step that comes after (CollabVMServer.ts 190-198).
THEOREM LeaversDoNotCountHolds == Spec => []LeaversDoNotCount
  <1>1. Init => LeaversDoNotCount
    BY DEF Init, LeaversDoNotCount
  <1>2. IInv /\ LeaversDoNotCount /\ [Next]_voteVars => LeaversDoNotCount'
    <2> SUFFICES ASSUME IInv, LeaversDoNotCount, [Next]_voteVars, current' # 0,
                        NEW u \in Voters(current)'
                 PROVE  u \in Clients' \cup vote'[current'].late
      BY DEF LeaversDoNotCount, Voters
    <2>1. u \in Clients \cup vote'[current'].late
      BY StepVoters
    <2>2. CASE u \in Clients
      <3>1. u \in Users /\ u \in vote'[current'].yes \cup vote'[current'].no
        BY <2>2 DEF Clients, Voters
      <3> QED BY <2>2, <3>1, StepLeavers
    <2> QED BY <2>1, <2>2
  <1> QED BY <1>1, <1>2, Invariance, PTL DEF Spec

-----------------------------------------------------------------------------
(* Marks, and the vote that is held.                                       *)

\* The vote that is held is the last one, and runs or has ended.
HeldIsLast ==
    current # 0 => /\ current = started
                   /\ vote[current].running \/ ends[current] >= 1

Aux == HeldIsLast /\ LateMarks

\* Where no vote runs, every mark was set late.
LEMMA NoRunNoMark ==
    ASSUME LateMarks, EndedOnce, current = 0 \/ ~vote[current].running
    PROVE  hasVoted \ markedLate = {}
  BY DEF LateMarks

LEMMA QuietAux ==
    ASSUME IInv, Aux, Quiet
    PROVE  Aux'
  <1>1. HeldIsLast'
    BY DEF Aux, Quiet, HeldIsLast
  <1>2. LateMarks'
    <2>1. current # 0 => Held(Voters(current))' = Held(Voters(current))
      <3>1. current # 0 => {holder'[u] : u \in Voters(current)} = Held(Voters(current))
        BY SameFrom, TypeFacts DEF IInv, Quiet
      <3> QED BY <3>1 DEF Quiet, Held, Voters
    <2> QED BY <2>1 DEF Aux, Quiet, LateMarks, EndedOnce, markVars
  <1> QED BY <1>1, <1>2 DEF Aux

LEMMA StartAux ==
    ASSUME IInv, Aux, NEW u \in Users, NEW t \in EnabledVotes, StartVote(u, t)
    PROVE  Aux'
  <1> DEFINE n == started + 1
  <1>1. /\ current = 0 /\ started < MaxVotes /\ started' = n /\ current' = n
        /\ vote' = [vote EXCEPT ![n] = NewVote(u, t)]
        /\ UNCHANGED <<hasVoted, markedLate, ends>>
    BY DEF StartVote, CanStart, markVars
  <1>2. /\ vote \in [VoteIds -> VoteObjects] /\ n \in VoteIds /\ t \in VoteTypes
    BY <1>1, TypeFacts, TypesAssumption, BoundsAssumption DEF IInv, VoteIds, VoteTypes
  <1> HIDE DEF n
  <1>3. vote'[n].running
    BY <1>1, <1>2, NewVoteLemma
  <1>4. HeldIsLast'
    BY <1>1, <1>3 DEF HeldIsLast
  <1>5. LateMarks'
    BY <1>1, NoRunNoMark DEF Aux, LateMarks, EndedOnce
  <1> QED BY <1>4, <1>5 DEF Aux

\* A step that changes the voters of the vote that is held, and the marks.
LEMMA VotersHeld ==
    ASSUME IInv, Aux, current # 0, NEW v \in VoteObjects,
           vote' = [vote EXCEPT ![current] = v], v.running = vote[current].running,
           UNCHANGED <<holder, current, started, ends>>
    PROVE  /\ HeldIsLast' /\ EndedOnce' = EndedOnce
           /\ vote'[current].running = vote[current].running
           /\ Held(Voters(current))' = Held(v.yes \cup v.no)
  <1>1. vote \in [VoteIds -> VoteObjects] /\ current \in VoteIds
    BY TypeFacts DEF IInv
  <1>2. vote'[current] = v
    BY <1>1
  <1>3. HeldIsLast'
    BY <1>2 DEF Aux, HeldIsLast
  <1>4. Held(Voters(current))' = Held(v.yes \cup v.no)
    BY <1>2 DEF Held, Voters
  <1> QED BY <1>2, <1>3, <1>4 DEF EndedOnce

LEMMA CastingAux ==
    ASSUME IInv, Aux, NEW u \in Users, Casting(u)
    PROVE  Aux'
  <1>1. PICK yes \in BOOLEAN : AddVote(u, yes)
    BY DEF Casting
  <1> DEFINE v == Voted(vote[current], u, yes)
  <1>2. current # 0 /\ current \in VoteIds /\ vote[current] \in VoteObjects
    BY TypeFacts DEF IInv, Casting
  <1>3. /\ v \in VoteObjects /\ v.running = vote[current].running
        /\ v.yes \cup v.no = Voters(current) \cup {u}
    BY <1>2, VotedLemma DEF Voters
  <1>4. /\ vote' = [vote EXCEPT ![current] = v] /\ hasVoted' = hasVoted \cup {holder[u]}
        /\ markedLate' = IF vote[current].running THEN markedLate \ {holder[u]}
                         ELSE markedLate \cup {holder[u]}
        /\ UNCHANGED <<holder, current, started, ends>>
    BY <1>1 DEF AddVote, Casting
  <1> HIDE DEF v
  <1>5. /\ HeldIsLast' /\ EndedOnce' = EndedOnce
        /\ vote'[current].running = vote[current].running
        /\ Held(Voters(current))' = Held(Voters(current) \cup {u})
    BY <1>2, <1>3, <1>4, VotersHeld
  <1>6. LateMarks'
    <2> SUFFICES ASSUME EndedOnce, NEW o \in hasVoted' \ markedLate'
                 PROVE  /\ current' # 0 /\ vote'[current'].running
                        /\ o \in Held(Voters(current))'
      BY <1>5 DEF LateMarks
    <2>1. CASE vote[current].running
      <3>1. o = holder[u] \/ o \in hasVoted \ markedLate
        BY <1>4, <2>1
      <3>2. o = holder[u] \/ o \in Held(Voters(current))
        BY <3>1 DEF Aux, LateMarks
      <3>3. o \in Held(Voters(current) \cup {u})
        BY <3>2 DEF Held
      <3>4. o \in Held(Voters(current))'
        BY <1>4, <1>5, <3>3 DEF Held, Voters
      <3> QED BY <1>2, <1>4, <1>5, <2>1, <3>4
    <2>2. CASE ~vote[current].running
      BY <1>4, <2>2, NoRunNoMark DEF Aux
    <2> QED BY <2>1, <2>2
  <1> QED BY <1>5, <1>6 DEF Aux

LEMMA LeavingAux ==
    ASSUME IInv, Aux, NEW u \in Users, Leaving(u)
    PROVE  Aux'
  <1> DEFINE v == Unvoted(vote[current], u)
  <1>1. current # 0 /\ current \in VoteIds /\ vote[current] \in VoteObjects
    BY TypeFacts DEF IInv, Leaving
  <1>2. /\ v \in VoteObjects /\ v.running = vote[current].running
        /\ v.yes \cup v.no = Voters(current) \ {u}
    BY <1>1, UnvotedLemma DEF Voters
  <1>3. /\ vote' = [vote EXCEPT ![current] = v] /\ hasVoted' = hasVoted \ {holder[u]}
        /\ markedLate' = markedLate \ {holder[u]}
        /\ UNCHANGED <<holder, current, started, ends>>
    BY DEF Leaving, Unmark
  <1> HIDE DEF v
  <1>4. /\ HeldIsLast' /\ EndedOnce' = EndedOnce
        /\ vote'[current].running = vote[current].running
        /\ Held(Voters(current))' = Held(Voters(current) \ {u})
    BY <1>1, <1>2, <1>3, VotersHeld
  <1>5. LateMarks'
    <2> SUFFICES ASSUME EndedOnce, NEW o \in hasVoted' \ markedLate'
                 PROVE  /\ current' # 0 /\ vote'[current'].running
                        /\ o \in Held(Voters(current))'
      BY <1>4 DEF LateMarks
    <2>1. o \in hasVoted \ markedLate /\ o # holder[u]
      BY <1>3
    <2>2. vote[current].running /\ o \in Held(Voters(current))
      BY <2>1 DEF Aux, LateMarks
    <2>3. o \in Held(Voters(current) \ {u})
      BY <2>1, <2>2 DEF Held
    <2>4. o \in Held(Voters(current))'
      BY <1>3, <1>4, <2>3 DEF Held, Voters
    <2> QED BY <1>1, <1>3, <1>4, <2>2, <2>4
  <1> QED BY <1>4, <1>5 DEF Aux

LEMMA TickingAux ==
    ASSUME IInv, Aux, NEW w \in VoteIds, Ticking(w)
    PROVE  Aux'
  <1>1. vote \in [VoteIds -> VoteObjects] /\ (current # 0 => current \in VoteIds)
    BY TypeFacts DEF IInv
  <1>2. UNCHANGED <<holder, current, started, hasVoted, markedLate, ends>>
    BY DEF Ticking, markVars
  <1>3. \A x \in VoteIds : /\ vote'[x].running = vote[x].running
                          /\ vote'[x].yes = vote[x].yes /\ vote'[x].no = vote[x].no
    BY <1>1 DEF Ticking, VoteObjects
  <1>4. HeldIsLast'
    BY <1>1, <1>2, <1>3 DEF Aux, HeldIsLast
  <1>5. LateMarks'
    <2>1. current # 0 => Held(Voters(current))' = Held(Voters(current))
      BY <1>1, <1>2, <1>3 DEF Held, Voters
    <2>2. current # 0 => vote'[current].running = vote[current].running
      BY <1>1, <1>3
    <2> QED BY <1>2, <2>1, <2>2 DEF Aux, LateMarks, EndedOnce
  <1> QED BY <1>4, <1>5 DEF Aux

LEMMA EndingAux ==
    ASSUME IInv, Aux, NEW w \in VoteIds, Ending(w)
    PROVE  Aux'
  <1>1. /\ \A x \in VoteIds : x # w => vote'[x] = vote[x]
        /\ hasVoted' = hasVoted \ Held(Voters(w))
        /\ markedLate' = markedLate \ Held(Voters(w))
        /\ ends'[w] = ends[w] + 1 /\ \A x \in VoteIds : x # w => ends'[x] = ends[x]
        /\ started' = started /\ current' \in {0, current}
    BY EndingFacts
  <1>2. /\ \A x \in VoteIds : ends[x] \in Nat
        /\ current # 0 => current \in VoteIds
    BY TypeFacts DEF IInv
  <1>3. HeldIsLast'
    <2> SUFFICES ASSUME current' # 0
                 PROVE  /\ current' = started'
                        /\ vote'[current'].running \/ ends'[current'] >= 1
      BY DEF HeldIsLast
    <2>1. current' = current /\ current \in VoteIds /\ HeldIsLast
      BY <1>1, <1>2 DEF Aux
    <2>2. CASE current = w
      BY <1>1, <1>2, <2>1, <2>2 DEF HeldIsLast
    <2>3. CASE current # w
      BY <1>1, <2>1, <2>3 DEF HeldIsLast
    <2> QED BY <2>2, <2>3
  <1>4. LateMarks'
    <2> SUFFICES ASSUME EndedOnce' PROVE hasVoted' \ markedLate' = {}
      BY DEF LateMarks
    <2>1. EndedOnce /\ w = current
      BY EndingOnce
    <2>2. hasVoted \ markedLate \subseteq Held(Voters(w))
      BY <2>1 DEF Aux, LateMarks
    <2> QED BY <1>1, <2>2
  <1> QED BY <1>3, <1>4 DEF Aux

LEMMA FoundAux ==
    ASSUME Aux, NEW w \in VoteIds, LookupFound(w)
    PROVE  Aux'
  <1>1. UNCHANGED <<holder, current, started, vote, hasVoted, markedLate, ends>>
    BY DEF LookupFound, connVars, markVars
  <1> QED BY <1>1 DEF Aux, HeldIsLast, LateMarks, EndedOnce, Held, Voters

LEMMA DroppingAux ==
    ASSUME IInv, Aux, NEW b \in Awaits, NEW w \in VoteIds, Dropping(b, w)
    PROVE  Aux'
  <1>1. /\ pending[b][w] > 0 /\ current' \in {0, current}
        /\ UNCHANGED <<started, vote, hasVoted, markedLate, ends>>
    BY DEF Dropping, markVars
  <1>2. HeldIsLast'
    BY <1>1 DEF Aux, HeldIsLast
  <1>3. LateMarks'
    <2> SUFFICES ASSUME EndedOnce PROVE hasVoted \ markedLate = {}
      BY <1>1 DEF LateMarks, EndedOnce
    <2>1. ~vote[current].running
      BY <1>1, OneAwaited
    <2> QED BY <2>1, NoRunNoMark DEF Aux
  <1> QED BY <1>2, <1>3 DEF Aux

LEMMA ExitingAux ==
    ASSUME ProcessExits
    PROVE  Aux'
  BY DEF ProcessExits, Aux, HeldIsLast, LateMarks

LEMMA InitAux == Init => Aux
  BY DEF Init, Aux, HeldIsLast, LateMarks

LEMMA NextAux == IInv /\ Aux /\ [Next]_voteVars => Aux'
  BY Steps, QuietAux, StartAux, CastingAux, LeavingAux, TickingAux, EndingAux,
     FoundAux, DroppingAux, ExitingAux

\* The marks: an IPData whose users may not vote is that of a voter of the
\* running vote, or was marked by a vote cast after the end of a vote had
\* cleared the marks (onCastVote 396-426, Vote.ts 97-124 and 136-150).
THEOREM LateMarksHolds == Spec => []LateMarks
  <1>1. IInv /\ Aux /\ [Next]_voteVars => Aux'
    BY NextAux
  <1>2. Spec => []Aux
    BY <1>1, InitAux, Invariance, PTL DEF Spec
  <1>3. Aux => LateMarks
    BY DEF Aux
  <1> QED BY <1>2, <1>3, PTL

\* Of all steps only the force vote of a member of the staff ends a vote that
\* has ended, and only the one that is held and does not run: the interval of a
\* vote is gone with its end, and a continuation ends nothing.
LEMMA StepEndsAgain ==
    ASSUME IInv, [Next]_voteVars, NEW w \in VoteIds, EndedAgain(w)
    PROVE  /\ current = w /\ ~vote[w].running
           /\ \E u \in Staff, result \in BOOLEAN : OnAdminForceVote(u, result)
  <1>1. ends[w] >= 1 /\ ends'[w] > ends[w]
    BY DEF EndedAgain
  <1>2. ~vote[w].running /\ ends[w] \in Nat
    BY <1>1, TypeFacts DEF IInv, RunningNotEnded
  <1>3. ends' # ends
    BY <1>1, <1>2
  <1>4. PICK x \in VoteIds : Ending(x)
    BY <1>3, Steps DEF Quiet, StartVote, Casting, Leaving, Ticking, LookupFound, Dropping,
                      ProcessExits
  <1>5. x = w
    BY <1>1, <1>2, <1>4, EndingFacts
  <1> QED BY <1>2, <1>4, <1>5 DEF Ending

\* No interval and no continuation ends a vote again.
THEOREM EndsAgainByForceHolds == Spec => EndsAgainByForce
  <1>1. IInv /\ [Next]_voteVars =>
            [\A w \in VoteIds : EndedAgain(w) =>
                /\ current = w /\ ~vote[w].running
                /\ \E u \in Staff, result \in BOOLEAN : OnAdminForceVote(u, result)]_voteVars
    BY StepEndsAgain
  <1> QED BY <1>1, Invariance, PTL DEF Spec, EndsAgainByForce

-----------------------------------------------------------------------------
(* Votes implement Ballot.                                                 *)

\* Where the process has ended there is nobody, nothing runs and nothing is
\* awaited.
DownIsEmpty ==
    ~up => /\ \A u \in Users : conn[u] = "gone"
           /\ asking = {} /\ current = 0 /\ ~unawaited
           /\ \A w \in VoteIds : ~vote[w].running
           /\ \A a \in Awaits, w \in VoteIds : pending[a][w] = 0

LEMMA DownStays ==
    ASSUME DownIsEmpty, ~up, [Next]_voteVars
    PROVE  /\ UNCHANGED <<conn, asking, current, started, vote, pending, unawaited, up, acts>>
           /\ DownIsEmpty'
  <1>0. /\ Talking = {} /\ asking = {} /\ current = 0 /\ ~unawaited
        /\ \A u \in Users : conn[u] = "gone"
        /\ \A w \in VoteIds : ~vote[w].running
        /\ \A a \in Awaits, w \in VoteIds : ~(pending[a][w] > 0)
        /\ "lookup" \in Awaits
    BY DEF DownIsEmpty, Awaits, Talking
  <1>1. ASSUME NEW u \in Users, Handler(u) PROVE FALSE
    BY <1>0, <1>1 DEF Handler, OnStartVote, OnCastVote, OnAdminForceVote, OnAdminToggleTurns,
                      OnAdminRestore, OnIaosChangeMedia, OnIaosEjectMedia
  <1>2. ASSUME NEW u \in Users, Connection(u) PROVE FALSE
    BY <1>0, <1>2 DEF Connection, Connect, Displaced, Disconnected
  <1>3. ASSUME NEW u \in Users, ChangeMediaAnswered(u) \/ ChangeMediaRejected(u) PROVE FALSE
    BY <1>0, <1>3 DEF ChangeMediaAnswered, ChangeMediaRejected
  <1>4. ASSUME NEW w \in VoteIds, VoteTick(w) PROVE FALSE
    BY <1>0, <1>4 DEF VoteTick
  <1>5. ASSUME NEW w \in VoteIds, Continuation(w) PROVE FALSE
    BY <1>0, <1>5 DEF Continuation, LookupFound, LookupBadId, MediaDone, Rejected
  <1>6. ~UnawaitedRejected
    BY <1>0 DEF UnawaitedRejected
  <1>7. (\E t \in VoteTypes : CooldownTick(t)) \/ Collect \/ UNCHANGED voteVars
    BY <1>1, <1>2, <1>3, <1>4, <1>5, <1>6 DEF Next
  <1>8. UNCHANGED <<conn, asking, current, started, vote, pending, unawaited, up, acts>>
    BY <1>7 DEF CooldownTick, Collect, voteVars, connVars
  <1> QED BY <1>8 DEF DownIsEmpty

LEMMA NextDown == IInv /\ DownIsEmpty /\ [Next]_voteVars => DownIsEmpty'
  <1> SUFFICES ASSUME IInv, DownIsEmpty, [Next]_voteVars, up, ~up' PROVE DownIsEmpty'
    BY DownStays DEF DownIsEmpty
  <1>1. \A w \in VoteIds : Ending(w) => up' = up
    BY EndingFacts
  <1>2. ProcessExits
    BY <1>1, Steps DEF Quiet, StartVote, Casting, Leaving, Ticking, LookupFound, Dropping
  <1> QED BY <1>2, NoVoteLemma DEF ProcessExits, DownIsEmpty

\* How the stage of the votes is told.
LEMMA SameStage ==
    ASSUME UNCHANGED <<current, up, started, acts>>,
           current # 0 => vote'[current].running = vote[current].running
    PROVE  UNCHANGED Promise!vars
  BY DEF Stage, Promise!vars

\* The VM is told for the last vote.
LEMMA Told ==
    ASSUME acts \in [VoteIds -> Nat], acts' \in [VoteIds -> Nat], started \in VoteIds,
           acts[started] = 0, acts'[started] = 1,
           \A x \in VoteIds : x # started => acts'[x] = acts[x]
    PROVE  Promise!Tell
  <1>1. acts' = [acts EXCEPT ![started] = 1]
    OBVIOUS
  <1> QED BY <1>1 DEF Promise!Tell

LEMMA StartOpens ==
    ASSUME IInv, up, NEW u \in Users, NEW t \in EnabledVotes, StartVote(u, t)
    PROVE  Promise!Open
  <1>1. /\ current = 0 /\ started < MaxVotes /\ started' = started + 1
        /\ current' = started + 1 /\ up' = up /\ acts' = acts
        /\ vote' = [vote EXCEPT ![started + 1] = NewVote(u, t)]
    BY DEF StartVote, CanStart
  <1>2. /\ vote \in [VoteIds -> VoteObjects]
        /\ started + 1 \in VoteIds /\ started + 1 # 0 /\ t \in VoteTypes
    BY <1>1, TypeFacts, TypesAssumption, BoundsAssumption DEF IInv, VoteIds, VoteTypes
  <1>3. vote'[started + 1].running
    BY <1>1, <1>2, NewVoteLemma
  <1> QED BY <1>1, <1>2, <1>3 DEF Promise!Open, Stage

LEMMA EndCloses ==
    ASSUME IInv, Aux, up, EndedOnce', NEW w \in VoteIds, Ending(w)
    PROVE  Promise!Close
  <1>1. /\ w = current /\ ends[w] = 0 /\ acts[w] = 0 /\ current # 0
        /\ \A a \in Awaits, x \in VoteIds : pending[a][x] = 0
    BY EndingOnce DEF VoteIds
  <1>2. /\ ~vote'[w].running /\ started' = started /\ up' = up
    BY EndingFacts
  <1>3. started = w /\ vote[w].running
    BY <1>1 DEF Aux, HeldIsLast
  <1>4. current' \in {0, w}
    BY <1>1, EndingFacts
  <1>5. Stage = "open" /\ Stage' \in {"idle", "carrying"}
    BY <1>1, <1>2, <1>3, <1>4 DEF Stage
  <1>6. Promise!Tell \/ acts' = acts
    <2>1. PICK result \in BOOLEAN : OnVoteEnd(result)
      BY EndingFacts
    <2>2. TypeOK /\ acts \in [VoteIds -> Nat]
      BY TypeFacts DEF IInv
    <2>3. /\ acts' \in [VoteIds -> Nat] /\ acts'[w] \in {0, 1}
          /\ \A x \in VoteIds : x # w => acts'[x] = acts[x]
      BY <1>1, <2>1, <2>2, OnVoteEndFacts
    <2>4. CASE acts'[w] = 0
      BY <1>1, <2>2, <2>3, <2>4
    <2>5. CASE acts'[w] = 1
      BY <1>1, <1>3, <2>2, <2>3, <2>5, Told
    <2> QED BY <2>3, <2>4, <2>5
  <1> QED BY <1>2, <1>5, <1>6 DEF Promise!Close

\* While something is awaited the vote is being carried out.
LEMMA Carrying ==
    ASSUME IInv, Aux, up, EndedOnce, NEW b \in Awaits, NEW w \in VoteIds, pending[b][w] > 0
    PROVE  /\ Stage = "carrying" /\ current = w /\ started = w
           /\ b = "lookup" => acts[w] = 0
  <1>1. current = w /\ ~vote[w].running /\ (b = "lookup" => acts[w] = 0)
    BY OneAwaited
  <1>2. w # 0
    BY DEF VoteIds
  <1> QED BY <1>1, <1>2 DEF Stage, Aux, HeldIsLast

LEMMA FoundCarries ==
    ASSUME IInv, Aux, up, EndedOnce, NEW w \in VoteIds, LookupFound(w)
    PROVE  Promise!Carry
  <1>1. /\ pending["lookup"][w] > 0 /\ "lookup" \in Awaits
        /\ acts' = [acts EXCEPT ![w] = @ + 1]
        /\ UNCHANGED <<current, started, vote, up>>
    BY DEF LookupFound, Awaits
  <1>2. Stage = "carrying" /\ started = w /\ acts[w] = 0
    BY <1>1, Carrying
  <1>3. acts \in [VoteIds -> Nat]
    BY TypeFacts DEF IInv
  <1>4. /\ acts' \in [VoteIds -> Nat] /\ acts'[w] = 1
        /\ \A x \in VoteIds : x # w => acts'[x] = acts[x]
    BY <1>1, <1>2, <1>3
  <1>5. Promise!Tell
    BY <1>2, <1>3, <1>4, Told
  <1>6. Stage' = Stage
    BY <1>1 DEF Stage
  <1> QED BY <1>1, <1>2, <1>5, <1>6 DEF Promise!Carry

LEMMA DropSettles ==
    ASSUME IInv, Aux, up, EndedOnce, NEW b \in Awaits, NEW w \in VoteIds, Dropping(b, w)
    PROVE  Promise!Settle \/ UNCHANGED Promise!vars
  <1>1. /\ pending[b][w] > 0
        /\ current' = IF b = "lookup" THEN current ELSE 0
        /\ UNCHANGED <<started, vote, up, acts>>
    BY DEF Dropping
  <1>2. CASE b = "lookup"
    BY <1>1, <1>2, SameStage
  <1>3. CASE b # "lookup"
    <2>1. Stage = "carrying"
      BY <1>1, Carrying
    <2>2. Stage' = "idle"
      BY <1>1, <1>3 DEF Stage
    <2> QED BY <1>1, <2>1, <2>2 DEF Promise!Settle
  <1> QED BY <1>2, <1>3

LEMMA ExitCrashes ==
    ASSUME ProcessExits
    PROVE  Promise!Crash
  BY DEF ProcessExits, Stage, Promise!Crash

\* What casts a vote, takes one away or lets time pass starts and ends nothing.
LEMMA SameRunning ==
    ASSUME IInv, current # 0,
           \/ Quiet
           \/ \E u \in Users : Casting(u) \/ Leaving(u)
           \/ \E w \in VoteIds : Ticking(w)
    PROVE  vote'[current].running = vote[current].running
  <1>0. vote \in [VoteIds -> VoteObjects] /\ current \in VoteIds
    BY TypeFacts DEF IInv
  <1>1. CASE Quiet
    BY <1>1 DEF Quiet
  <1>2. ASSUME NEW u \in Users, Casting(u)
        PROVE  vote'[current].running = vote[current].running
    <2>1. PICK yes \in BOOLEAN : AddVote(u, yes)
      BY <1>2 DEF Casting
    <2>2. vote' = [vote EXCEPT ![current] = Voted(vote[current], u, yes)]
      BY <2>1 DEF AddVote
    <2>3. Voted(vote[current], u, yes).running = vote[current].running
      BY <1>0, VotedLemma
    <2> QED BY <1>0, <2>2, <2>3
  <1>3. ASSUME NEW u \in Users, Leaving(u)
        PROVE  vote'[current].running = vote[current].running
    <2>1. Unvoted(vote[current], u).running = vote[current].running
      BY <1>0, UnvotedLemma
    <2> QED BY <1>0, <1>3, <2>1 DEF Leaving
  <1>4. ASSUME NEW w \in VoteIds, Ticking(w)
        PROVE  vote'[current].running = vote[current].running
    BY <1>0, <1>4 DEF Ticking, VoteObjects
  <1> QED BY <1>1, <1>2, <1>3, <1>4

LEMMA VotersStutter ==
    ASSUME IInv, \/ Quiet
                 \/ \E u \in Users : Casting(u) \/ Leaving(u)
                 \/ \E w \in VoteIds : Ticking(w)
    PROVE  UNCHANGED Promise!vars
  <1>1. UNCHANGED <<current, up, started, acts>>
    BY DEF Quiet, Casting, Leaving, Ticking
  <1> QED BY <1>1, SameRunning, SameStage

\* A step after which no vote has ended twice is a step of a ballot or none.
LEMMA StepBallot ==
    ASSUME IInv, Aux, DownIsEmpty, [Next]_voteVars, EndedOnce'
    PROVE  [Promise!Next]_(Promise!vars)
  <1>1. CASE ~up
    <2>1. UNCHANGED <<current, started, vote, up, acts>>
      BY <1>1, DownStays
    <2> QED BY <2>1, SameStage
  <1>2. CASE up
    <2>1. ASSUME NEW w \in VoteIds, Ending(w) PROVE Promise!Close
      BY <1>2, <2>1, EndCloses
    <2>2. CASE UNCHANGED ends
      <3>1. EndedOnce
        BY <2>2 DEF EndedOnce
      <3>2. ASSUME NEW u \in Users, NEW t \in EnabledVotes, StartVote(u, t) PROVE Promise!Open
        BY <1>2, <3>2, StartOpens
      <3>3. ASSUME NEW w \in VoteIds, LookupFound(w) PROVE Promise!Carry
        BY <1>2, <3>1, <3>3, FoundCarries
      <3>4. ASSUME NEW a \in Awaits, NEW w \in VoteIds, Dropping(a, w)
            PROVE  Promise!Settle \/ UNCHANGED Promise!vars
        BY <1>2, <3>1, <3>4, DropSettles
      <3>5. CASE ProcessExits
        BY <3>5, ExitCrashes DEF Promise!Next
      <3> QED BY <2>1, <3>2, <3>3, <3>4, <3>5, Steps, VotersStutter DEF Promise!Next
    <2>3. CASE ~UNCHANGED ends
      <3>1. \E w \in VoteIds : Ending(w)
        BY <2>3, Steps DEF Quiet, StartVote, Casting, Leaving, Ticking, LookupFound, Dropping,
                          ProcessExits
      <3> QED BY <2>1, <3>1 DEF Promise!Next
    <2> QED BY <2>2, <2>3
  <1> QED BY <1>1, <1>2

LEMMA BallotInit == Init => DownIsEmpty /\ Promise!Init
  BY DEF Init, DownIsEmpty, Promise!Init, Stage

LEMMA DownInvariance == Spec => [](Aux /\ DownIsEmpty)
  <1>1. Init => Aux /\ DownIsEmpty
    BY InitAux, BallotInit
  <1>2. IInv /\ Aux /\ DownIsEmpty /\ [Next]_voteVars => (Aux /\ DownIsEmpty)'
    BY NextAux, NextDown
  <1> QED BY <1>1, <1>2, Invariance, PTL DEF Spec

\* As long as staff end no vote twice, the votes are those of a ballot: one at a
\* time, closed once, the VM told at most once and for the last one only, however
\* casts, leaves, ticks and answers come between the awaits of onVoteEnd.
THEOREM ImplementsBallotHolds == Spec => ImplementsBallot
  <1>1. Init => Promise!Init
    BY BallotInit
  <1>2. IInv /\ (Aux /\ DownIsEmpty) /\ [Next]_voteVars =>
            [EndedOnce' => [Promise!Next]_(Promise!vars)]_voteVars
    BY StepBallot
  <1> QED BY <1>1, <1>2, Invariance, DownInvariance, PTL DEF Spec, ImplementsBallot

-----------------------------------------------------------------------------
(* Without votes on media.                                                 *)

\* No vote waits to be carried out, so staff find none that has ended.
HeldRuns == current # 0 => vote[current].running

LEMMA NextHeldRuns ==
    ASSUME VmOnly, IInv, EndedOnce, HeldRuns, [Next]_voteVars
    PROVE  EndedOnce' /\ HeldRuns'
  <1>0. /\ vote \in [VoteIds -> VoteObjects] /\ (current # 0 => current \in VoteIds)
        /\ \A a \in Awaits, w \in VoteIds : ~(pending[a][w] > 0)
        /\ "lookup" \in Awaits
    BY TypeFacts DEF IInv, MarksAreVoters, Awaits
  <1>1. ASSUME NEW w \in VoteIds, Ending(w) PROVE EndedOnce' /\ HeldRuns'
    <2>1. vote[w].running /\ w = current
      BY <1>1, EndingFacts DEF HeldRuns, IInv, MarksAreVoters
    <2>2. ends[w] = 0
      BY <2>1 DEF IInv, RunningNotEnded
    <2>3. EndedOnce'
      BY <1>1, <2>2, EndingFacts DEF EndedOnce
    <2>4. vote[w].type \in VmVotes /\ w # 0
      BY <2>1 DEF VoteIds, IInv, HeldIsEnabled, VmOnly
    <2>5. PICK result \in BOOLEAN : OnVoteEnd(result)
      BY <1>1, EndingFacts
    <2>6. current' = 0
      BY <2>1, <2>4, <2>5 DEF OnVoteEnd, VmVotes
    <2> QED BY <2>3, <2>6 DEF HeldRuns
  <1>2. ASSUME NEW u \in Users, NEW t \in EnabledVotes, StartVote(u, t)
        PROVE  EndedOnce' /\ HeldRuns'
    <2>1. /\ started < MaxVotes /\ current' = started + 1 /\ ends' = ends
          /\ vote' = [vote EXCEPT ![started + 1] = NewVote(u, t)]
      BY <1>2 DEF StartVote
    <2>2. started + 1 \in VoteIds /\ t \in VoteTypes
      BY <2>1, TypeFacts, TypesAssumption, BoundsAssumption DEF IInv, VoteIds, VoteTypes
    <2>3. vote'[started + 1].running
      BY <1>0, <2>1, <2>2, NewVoteLemma
    <2> QED BY <2>1, <2>3 DEF EndedOnce, HeldRuns
  <1>3. ASSUME \/ Quiet
               \/ \E u \in Users : Casting(u) \/ Leaving(u)
               \/ \E w \in VoteIds : Ticking(w)
        PROVE  EndedOnce' /\ HeldRuns'
    <2>1. UNCHANGED <<current, ends>>
      BY <1>3 DEF Quiet, Casting, Leaving, Ticking
    <2>2. EndedOnce'
      BY <2>1 DEF EndedOnce
    <2>3. current # 0 => vote'[current].running
      BY <1>3, SameRunning DEF HeldRuns
    <2> QED BY <2>1, <2>2, <2>3 DEF HeldRuns
  <1>4. ASSUME \/ \E w \in VoteIds : LookupFound(w)
               \/ \E a \in Awaits, w \in VoteIds : Dropping(a, w)
        PROVE  FALSE
    BY <1>0, <1>4 DEF LookupFound, Dropping
  <1>5. CASE ProcessExits
    BY <1>5 DEF ProcessExits, EndedOnce, HeldRuns
  <1> QED BY <1>1, <1>2, <1>3, <1>4, <1>5, Steps

LEMMA HeldRunsInvariance ==
    ASSUME EnabledVotes \subseteq VmVotes
    PROVE  Spec => [](EndedOnce /\ HeldRuns)
  <1>1. Init => EndedOnce /\ HeldRuns
    BY DEF Init, EndedOnce, HeldRuns
  <1>2. IInv /\ (EndedOnce /\ HeldRuns) /\ [Next]_voteVars => (EndedOnce /\ HeldRuns)'
    BY NextHeldRuns DEF VmOnly
  <1> QED BY <1>1, <1>2, Invariance, PTL DEF Spec

\* Where no vote on media is enabled no vote is ever ended twice, however often
\* staff force: what the other theorems ask of staff is then no condition.
THEOREM EndedOnceWithoutMedia ==
    ASSUME EnabledVotes \subseteq VmVotes
    PROVE  Spec => []EndedOnce
  BY HeldRunsInvariance, PTL

\* Where no vote on media is enabled the votes are those of a ballot whatever
\* staff do.
THEOREM VmVotesImplementBallot ==
    ASSUME EnabledVotes \subseteq VmVotes
    PROVE  Spec => Promise!Safety
  <1>1. Spec => []EndedOnce
    BY EndedOnceWithoutMedia
  <1>2. Init => Promise!Init
    BY BallotInit
  <1>3. IInv /\ (Aux /\ DownIsEmpty) /\ EndedOnce' /\ [Next]_voteVars =>
            [Promise!Next]_(Promise!vars)
    BY StepBallot
  <1> QED BY <1>1, <1>2, <1>3, Invariance, DownInvariance, PTL DEF Spec, Promise!Safety
=============================================================================
