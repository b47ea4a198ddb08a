------------------------ MODULE QueueOpsProofs ------------------------
(***************************************************************************)
(* Facts about the queue operators, for any set of users and any queue.    *)
(***************************************************************************)
EXTENDS QueueOps, TLAPS

\* A user of the queue has a position, and stands at it.
LEMMA PositionLemma ==
    ASSUME NEW S, NEW q \in Seq(S), NEW u \in InLine(q)
    PROVE  Position(q, u) \in 1 .. Len(q) /\ q[Position(q, u)] = u
  BY DEF InLine, Position

\* Without repetition the position is the only index of the user.
LEMMA PositionUnique ==
    ASSUME NEW S, NEW q \in Seq(S), NoRepeats(q), NEW i \in 1 .. Len(q)
    PROVE  q[i] \in InLine(q) /\ Position(q, q[i]) = i
  <1>1. q[i] \in InLine(q)
    BY DEF InLine
  <1>2. /\ Position(q, q[i]) \in 1 .. Len(q)
        /\ q[Position(q, q[i])] = q[i]
    BY <1>1, PositionLemma
  <1> QED BY <1>1, <1>2 DEF NoRepeats

\* What the filter of one user yields: a queue of the other users, shorter by
\* one if he was there, each at his place or one place nearer to the head.
LEMMA WithoutLemma ==
    ASSUME NEW S, NEW q \in Seq(S), NEW u \in InLine(q)
    PROVE  LET p == Position(q, u)
               w == Without(q, u)
           IN  /\ w \in Seq(S)
               /\ Len(w) = Len(q) - 1
               /\ \A i \in 1 .. Len(q) - 1 :
                     w[i] = IF i < p THEN q[i] ELSE q[i + 1]
  <1> DEFINE p == Position(q, u)
             w == [i \in 1 .. Len(q) - 1 |-> IF i < p THEN q[i] ELSE q[i + 1]]
  <1>1. p \in 1 .. Len(q)
    BY PositionLemma
  <1>2. Without(q, u) = w
    BY DEF Without
  <1>3. Len(q) \in Nat /\ Len(q) - 1 \in Nat
    BY <1>1
  <1>4. \A i \in 1 .. Len(q) - 1 : w[i] \in S
    <2> SUFFICES ASSUME NEW i \in 1 .. Len(q) - 1 PROVE w[i] \in S
      OBVIOUS
    <2>1. i \in 1 .. Len(q) /\ i + 1 \in 1 .. Len(q)
      BY <1>3
    <2>2. q[i] \in S /\ q[i + 1] \in S
      BY <2>1
    <2> QED BY <2>2
  <1>5. w \in Seq(S) /\ Len(w) = Len(q) - 1
    BY <1>3, <1>4
  <1> HIDE DEF p
  <1> QED BY <1>2, <1>5 DEF p

\* The filter keeps a queue free of repetitions and drops exactly its user.
LEMMA WithoutNoRepeats ==
    ASSUME NEW S, NEW q \in Seq(S), NoRepeats(q), NEW u
    PROVE  /\ Without(q, u) \in Seq(S)
           /\ NoRepeats(Without(q, u))
           /\ InLine(Without(q, u)) = InLine(q) \ {u}
  <1>1. CASE u \notin InLine(q)
    BY <1>1 DEF Without
  <1>2. CASE u \in InLine(q)
    <2> DEFINE p == Position(q, u)
               w == Without(q, u)
    <2>1. p \in 1 .. Len(q) /\ q[p] = u
      BY <1>2, PositionLemma
    <2>2. /\ w \in Seq(S)
          /\ Len(w) = Len(q) - 1
          /\ \A i \in 1 .. Len(q) - 1 : w[i] = IF i < p THEN q[i] ELSE q[i + 1]
      BY <1>2, WithoutLemma
    <2> HIDE DEF p, w
    <2>3. NoRepeats(w)
      <3> SUFFICES ASSUME NEW i \in 1 .. Len(q) - 1, NEW j \in 1 .. Len(q) - 1,
                          w[i] = w[j]
                   PROVE  i = j
        BY <2>2 DEF NoRepeats
      <3> DEFINE at(k) == IF k < p THEN k ELSE k + 1
      <3>1. at(i) \in 1 .. Len(q) /\ at(j) \in 1 .. Len(q)
        BY <2>1
      <3>2. w[i] = q[at(i)] /\ w[j] = q[at(j)]
        BY <2>2
      <3>3. at(i) = at(j)
        BY <3>1, <3>2 DEF NoRepeats
      <3> QED BY <2>1, <3>3
    <2>4. ASSUME NEW v \in InLine(w) PROVE v \in InLine(q) \ {u}
      <3>1. PICK i \in 1 .. Len(q) - 1 : v = w[i]
        BY <2>2, <2>4 DEF InLine
      <3>2. CASE i < p
        BY <2>1, <2>2, <3>1, <3>2 DEF InLine, NoRepeats
      <3>3. CASE ~(i < p)
        BY <2>1, <2>2, <3>1, <3>3 DEF InLine, NoRepeats
      <3> QED BY <3>2, <3>3
    <2>5. ASSUME NEW v \in InLine(q) \ {u} PROVE v \in InLine(w)
      <3>1. PICK i \in 1 .. Len(q) : v = q[i]
        BY <2>5 DEF InLine
      <3>2. i # p
        BY <2>1, <2>5, <3>1
      <3>3. CASE i < p
        <4>1. i \in 1 .. Len(q) - 1 /\ w[i] = v
          BY <2>1, <2>2, <3>1, <3>3
        <4> QED BY <2>2, <4>1 DEF InLine
      <3>4. CASE i > p
        <4>1. i - 1 \in 1 .. Len(q) - 1 /\ w[i - 1] = v
          BY <2>1, <2>2, <3>1, <3>4
        <4> QED BY <2>2, <4>1 DEF InLine
      <3> QED BY <2>1, <3>2, <3>3, <3>4
    <2> QED BY <2>2, <2>3, <2>4, <2>5 DEF w
  <1> QED BY <1>1, <1>2

\* Joining at the back.
LEMMA AppendLemma ==
    ASSUME NEW S, NEW q \in Seq(S), NoRepeats(q), NEW u \in S, u \notin InLine(q)
    PROVE  /\ Append(q, u) \in Seq(S)
           /\ Len(Append(q, u)) = Len(q) + 1
           /\ NoRepeats(Append(q, u))
           /\ InLine(Append(q, u)) = InLine(q) \cup {u}
  <1>1. /\ Append(q, u) \in Seq(S)
        /\ Len(Append(q, u)) = Len(q) + 1
        /\ \A i \in 1 .. Len(q) : Append(q, u)[i] = q[i]
        /\ Append(q, u)[Len(q) + 1] = u
    OBVIOUS
  <1>2. NoRepeats(Append(q, u))
    BY <1>1 DEF NoRepeats, InLine
  <1>3. InLine(Append(q, u)) = InLine(q) \cup {u}
    BY <1>1 DEF InLine
  <1> QED BY <1>1, <1>2, <1>3

\* Being put in front.
LEMMA PrependLemma ==
    ASSUME NEW S, NEW q \in Seq(S), NoRepeats(q), NEW u \in S, u \notin InLine(q)
    PROVE  LET r == <<u>> \o q
           IN  /\ r \in Seq(S)
               /\ Len(r) = Len(q) + 1
               /\ r[1] = u
               /\ \A i \in 1 .. Len(q) : r[i + 1] = q[i]
               /\ NoRepeats(r)
               /\ InLine(r) = InLine(q) \cup {u}
  <1> DEFINE r == <<u>> \o q
  <1>1. /\ r \in Seq(S)
        /\ Len(r) = Len(q) + 1
        /\ r[1] = u
        /\ \A i \in 2 .. Len(r) : r[i] = q[i - 1]
    OBVIOUS
  <1>2. \A i \in 1 .. Len(q) : r[i + 1] = q[i]
    BY <1>1
  <1> HIDE DEF r
  <1>3. NoRepeats(r)
    <2> SUFFICES ASSUME NEW i \in 1 .. Len(r), NEW j \in 1 .. Len(r), r[i] = r[j]
                 PROVE  i = j
      BY DEF NoRepeats
    <2>1. \A k \in 1 .. Len(r) : k # 1 => k - 1 \in 1 .. Len(q) /\ r[k] = q[k - 1]
      BY <1>1
    <2>2. \A k \in 1 .. Len(r) : k # 1 => r[k] # u
      BY <2>1 DEF InLine
    <2>3. CASE i = 1 \/ j = 1
      BY <1>1, <2>2, <2>3
    <2>4. CASE i # 1 /\ j # 1
      <3>1. i - 1 = j - 1
        BY <2>1, <2>4 DEF NoRepeats
      <3> QED BY <3>1
    <2> QED BY <2>3, <2>4
  <1>4. InLine(r) = InLine(q) \cup {u}
    <2>1. ASSUME NEW v \in InLine(r) PROVE v \in InLine(q) \cup {u}
      BY <1>1, <2>1 DEF InLine
    <2>2. ASSUME NEW v \in InLine(q) \cup {u} PROVE v \in InLine(r)
      BY <1>1, <1>2, <2>2 DEF InLine
    <2> QED BY <2>1, <2>2
  <1> QED BY <1>1, <1>2, <1>3, <1>4 DEF r

\* The end of a turn.
LEMMA DequeueLemma ==
    ASSUME NEW S, NEW q \in Seq(S), NoRepeats(q)
    PROVE  /\ Dequeue(q) \in Seq(S)
           /\ NoRepeats(Dequeue(q))
           /\ InLine(Dequeue(q)) \subseteq InLine(q)
           /\ q # <<>> => /\ Len(Dequeue(q)) = Len(q) - 1
                          /\ \A i \in 1 .. Len(q) - 1 : Dequeue(q)[i] = q[i + 1]
  <1>1. CASE q = <<>>
    BY <1>1 DEF Dequeue
  <1>2. CASE q # <<>>
    <2>1. /\ Dequeue(q) \in Seq(S)
          /\ Len(Dequeue(q)) = Len(q) - 1
          /\ \A i \in 1 .. Len(q) - 1 : Dequeue(q)[i] = q[i + 1]
      BY <1>2 DEF Dequeue
    <2>2. NoRepeats(Dequeue(q))
      BY <2>1 DEF NoRepeats
    <2>3. InLine(Dequeue(q)) \subseteq InLine(q)
      <3> SUFFICES ASSUME NEW i \in 1 .. Len(q) - 1
                   PROVE  Dequeue(q)[i] \in InLine(q)
        BY <2>1 DEF InLine
      <3>1. i + 1 \in 1 .. Len(q)
        OBVIOUS
      <3> QED BY <2>1, <3>1 DEF InLine
    <2> QED BY <2>1, <2>2, <2>3
  <1> QED BY <1>1, <1>2

-----------------------------------------------------------------------------
(* Where the users of a queue stand after each change.                     *)

\* The position of a user is known from any index he is found at.
LEMMA FoundAt ==
    ASSUME NEW S, NEW q \in Seq(S), NoRepeats(q), NEW i \in 1 .. Len(q), NEW u, q[i] = u
    PROVE  Position(q, u) = i
  BY PositionUnique

LEMMA AppendPosition ==
    ASSUME NEW S, NEW q \in Seq(S), NoRepeats(q), NEW u \in S, u \notin InLine(q),
           NEW v \in InLine(q)
    PROVE  Position(Append(q, u), v) = Position(q, v)
  <1> DEFINE r == Append(q, u)
  <1>1. /\ r \in Seq(S) /\ NoRepeats(r) /\ Len(r) = Len(q) + 1
        /\ \A i \in 1 .. Len(q) : r[i] = q[i]
    BY AppendLemma
  <1>2. Position(q, v) \in 1 .. Len(q) /\ q[Position(q, v)] = v
    BY PositionLemma
  <1> HIDE DEF r
  <1>3. Position(q, v) \in 1 .. Len(r) /\ r[Position(q, v)] = v
    BY <1>1, <1>2
  <1>4. Position(r, v) = Position(q, v)
    BY <1>1, <1>3, FoundAt
  <1> QED BY <1>4 DEF r

\* Who stood behind the user who was put in front keeps his place.
LEMMA PrependPosition ==
    ASSUME NEW S, NEW q \in Seq(S), NoRepeats(q), NEW u \in S, u \notin InLine(q)
    PROVE  /\ Position(<<u>> \o q, u) = 1
           /\ \A v \in InLine(q) : Position(<<u>> \o q, v) = Position(q, v) + 1
  <1> DEFINE r == <<u>> \o q
  <1>1. /\ r \in Seq(S) /\ NoRepeats(r) /\ Len(r) = Len(q) + 1 /\ r[1] = u
        /\ \A i \in 1 .. Len(q) : r[i + 1] = q[i]
    BY PrependLemma
  <1> HIDE DEF r
  <1>2. Position(r, u) = 1
    <2>1. 1 \in 1 .. Len(r)
      BY <1>1
    <2> QED BY <1>1, <2>1, FoundAt
  <1>3. ASSUME NEW v \in InLine(q) PROVE Position(r, v) = Position(q, v) + 1
    <2>1. Position(q, v) \in 1 .. Len(q) /\ q[Position(q, v)] = v
      BY PositionLemma
    <2>2. Position(q, v) + 1 \in 1 .. Len(r) /\ r[Position(q, v) + 1] = v
      BY <1>1, <2>1
    <2> QED BY <1>1, <2>2, FoundAt
  <1> QED BY <1>2, <1>3 DEF r

LEMMA DequeuePosition ==
    ASSUME NEW S, NEW q \in Seq(S), NoRepeats(q), q # <<>>, NEW v \in InLine(Dequeue(q))
    PROVE  Position(Dequeue(q), v) = Position(q, v) - 1
  <1> DEFINE r == Dequeue(q)
  <1>1. /\ r \in Seq(S) /\ NoRepeats(r) /\ Len(r) = Len(q) - 1
        /\ \A i \in 1 .. Len(q) - 1 : r[i] = q[i + 1]
    BY DequeueLemma
  <1> HIDE DEF r
  <1>2. ASSUME v \in InLine(r) PROVE Position(r, v) = Position(q, v) - 1
    <2>1. Position(r, v) \in 1 .. Len(r) /\ r[Position(r, v)] = v
      BY <1>1, <1>2, PositionLemma
    <2>2. Position(r, v) + 1 \in 1 .. Len(q) /\ q[Position(r, v) + 1] = v
      BY <1>1, <2>1
    <2>3. Position(q, v) = Position(r, v) + 1
      BY <2>2, FoundAt
    <2> QED BY <2>1, <2>3
  <1> QED BY <1>2 DEF r

LEMMA WithoutPosition ==
    ASSUME NEW S, NEW q \in Seq(S), NoRepeats(q), NEW u \in InLine(q),
           NEW v \in InLine(q) \ {u}
    PROVE  Position(Without(q, u), v) =
               IF Position(q, v) < Position(q, u) THEN Position(q, v)
               ELSE Position(q, v) - 1
  <1> DEFINE w == Without(q, u)
             p == Position(q, u)
             k == Position(q, v)
             i == IF k < p THEN k ELSE k - 1
  <1>1. /\ w \in Seq(S) /\ NoRepeats(w) /\ Len(w) = Len(q) - 1
        /\ \A j \in 1 .. Len(q) - 1 : w[j] = IF j < p THEN q[j] ELSE q[j + 1]
    BY WithoutLemma, WithoutNoRepeats
  <1>2. /\ p \in 1 .. Len(q) /\ q[p] = u
        /\ k \in 1 .. Len(q) /\ q[k] = v
    BY PositionLemma
  <1> HIDE DEF w, p, k
  <1>3. k # p
    BY <1>2
  <1>4. i \in 1 .. Len(w) /\ w[i] = v
    BY <1>1, <1>2, <1>3
  <1>5. Position(w, v) = i
    BY <1>1, <1>4, FoundAt
  <1> QED BY <1>5 DEF w, p, k

\* Where everybody stands after one of them, or somebody else, was put in front.
LEMMA FrontPosition ==
    ASSUME NEW S, NEW q \in Seq(S), NoRepeats(q), NEW a \in S, NEW u \in InLine(q)
    PROVE  LET r == <<a>> \o Without(q, a)
           IN  /\ u = a => Position(r, u) = 1
               /\ u # a => Position(r, u) =
                     IF a \in InLine(q) /\ Position(q, a) < Position(q, u)
                     THEN Position(q, u) ELSE Position(q, u) + 1
  <1> DEFINE w == Without(q, a)
  <1>1. w \in Seq(S) /\ NoRepeats(w) /\ InLine(w) = InLine(q) \ {a}
    BY WithoutNoRepeats
  <1>2. u # a => Position(w, u) =
           IF a \in InLine(q) /\ Position(q, a) < Position(q, u)
           THEN Position(q, u) - 1 ELSE Position(q, u)
    <2>1. CASE a \notin InLine(q)
      BY <2>1 DEF Without
    <2>2. CASE a \in InLine(q) /\ u # a
      <3>1. /\ Position(q, a) \in 1 .. Len(q) /\ q[Position(q, a)] = a
            /\ Position(q, u) \in 1 .. Len(q) /\ q[Position(q, u)] = u
        BY <2>2, PositionLemma
      <3>2. Position(w, u) = IF Position(q, u) < Position(q, a)
                             THEN Position(q, u) ELSE Position(q, u) - 1
        BY <2>2, WithoutPosition
      <3> QED BY <2>2, <3>1, <3>2
    <2> QED BY <2>1, <2>2
  <1> HIDE DEF w
  <1>3. /\ u = a => Position(<<a>> \o w, u) = 1
        /\ u # a => Position(<<a>> \o w, u) = Position(w, u) + 1
    BY <1>1, PrependPosition
  <1>4. Position(q, u) \in Nat
    BY PositionLemma
  <1>5. u # a => Position(<<a>> \o w, u) =
            IF a \in InLine(q) /\ Position(q, a) < Position(q, u)
            THEN Position(q, u) ELSE Position(q, u) + 1
    BY <1>2, <1>3, <1>4
  <1> QED BY <1>3, <1>5 DEF w

-----------------------------------------------------------------------------
(* Who overtakes whom.                                                     *)

\* All that becomes of a queue while nobody is put in front: it stays, it is
\* cleared, its head or a waiting user leaves, or a user joins at the back.
InOrder(S, q, r) ==
    \/ r = q
    \/ r = <<>>
    \/ q # <<>> /\ r = Dequeue(q)
    \/ \E u \in S \ InLine(q) : r = Append(q, u)
    \/ \E u \in InLine(q) : r = Without(q, u)

\* Whoever stays then keeps his order.
LEMMA OrderKept ==
    ASSUME NEW S, NEW q \in Seq(S), NoRepeats(q), NEW r, InOrder(S, q, r),
           NEW u \in InLine(q) \cap InLine(r), NEW v \in InLine(q) \cap InLine(r),
           Position(q, u) < Position(q, v)
    PROVE  Position(r, u) < Position(r, v)
  <1>1. /\ Position(q, u) \in 1 .. Len(q) /\ q[Position(q, u)] = u
        /\ Position(q, v) \in 1 .. Len(q) /\ q[Position(q, v)] = v
    BY PositionLemma
  <1>2. CASE r = q
    BY <1>2
  <1>3. CASE r = <<>>
    BY <1>3 DEF InLine
  <1>4. CASE q # <<>> /\ r = Dequeue(q)
    <2>1. Position(r, u) = Position(q, u) - 1 /\ Position(r, v) = Position(q, v) - 1
      BY <1>4, DequeuePosition
    <2> QED BY <1>1, <2>1
  <1>5. ASSUME NEW w \in S \ InLine(q), r = Append(q, w)
        PROVE  Position(r, u) < Position(r, v)
    BY <1>5, AppendPosition
  <1>6. ASSUME NEW w \in InLine(q), r = Without(q, w)
        PROVE  Position(r, u) < Position(r, v)
    <2>1. InLine(r) = InLine(q) \ {w}
      BY <1>6, WithoutNoRepeats
    <2>2. /\ Position(q, w) \in 1 .. Len(q) /\ q[Position(q, w)] = w
          /\ u # w /\ v # w
      BY <2>1, PositionLemma
    <2>3. /\ Position(r, u) = IF Position(q, u) < Position(q, w)
                              THEN Position(q, u) ELSE Position(q, u) - 1
          /\ Position(r, v) = IF Position(q, v) < Position(q, w)
                              THEN Position(q, v) ELSE Position(q, v) - 1
      BY <1>6, <2>2, WithoutPosition
    <2> QED BY <1>1, <2>2, <2>3
  <1> QED BY <1>2, <1>3, <1>4, <1>5, <1>6 DEF InOrder

\* And only the user who is put in front overtakes anybody.
LEMMA FrontOvertakes ==
    ASSUME NEW S, NEW q \in Seq(S), NoRepeats(q), NEW a \in S,
           NEW u \in InLine(q), NEW v \in InLine(q) \ {a},
           Position(q, u) < Position(q, v)
    PROVE  Position(<<a>> \o Without(q, a), u) < Position(<<a>> \o Without(q, a), v)
  <1> DEFINE r == <<a>> \o Without(q, a)
  <1>1. /\ Position(q, u) \in 1 .. Len(q) /\ q[Position(q, u)] = u
        /\ Position(q, v) \in 1 .. Len(q) /\ q[Position(q, v)] = v
    BY PositionLemma
  <1>2. a \in InLine(q) => Position(q, a) \in 1 .. Len(q) /\ q[Position(q, a)] = a
    BY PositionLemma
  <1>3. /\ u = a => Position(r, u) = 1
        /\ u # a => Position(r, u) =
              IF a \in InLine(q) /\ Position(q, a) < Position(q, u)
              THEN Position(q, u) ELSE Position(q, u) + 1
        /\ Position(r, v) =
              IF a \in InLine(q) /\ Position(q, a) < Position(q, v)
              THEN Position(q, v) ELSE Position(q, v) + 1
    BY FrontPosition
  <1> HIDE DEF r
  <1>4. Position(r, u) < Position(r, v)
    <2>1. CASE u = a
      BY <1>1, <1>3, <2>1
    <2>2. CASE u # a /\ a \notin InLine(q)
      BY <1>1, <1>3, <2>2
    <2>3. CASE u # a /\ a \in InLine(q)
      <3>1. Position(q, a) # Position(q, u)
        BY <1>1, <1>2, <2>3
      <3> QED BY <1>1, <1>2, <1>3, <2>3, <3>1
    <2> QED BY <2>1, <2>2, <2>3
  <1> QED BY <1>4 DEF r
=============================================================================
