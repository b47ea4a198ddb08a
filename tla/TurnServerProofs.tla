------------------------- MODULE TurnServerProofs -------------------------
(***************************************************************************)
(* What holds of the turn queue behind the handlers of the server, for any *)
(* users, addresses, turn time and limits.  The controller's proofs are    *)
(* used as they stand: Control is the proved controller, Turns the one the *)
(* server uses, and they are the same.                                     *)
(***************************************************************************)
EXTENDS TurnServer, QueueOpsProofs, FiniteSetTheorems

Control == INSTANCE TurnControllerProofs

-----------------------------------------------------------------------------
(* The controller that is proved is the one the server uses.               *)

LEMMA SameQueueOps ==
    ASSUME NEW q, NEW u
    PROVE  /\ Control!InLine(q) = InLine(q) /\ Turns!InLine(q) = InLine(q)
           /\ Control!NoRepeats(q) = NoRepeats(q) /\ Turns!NoRepeats(q) = NoRepeats(q)
           /\ Control!Without(q, u) = Without(q, u) /\ Turns!Without(q, u) = Without(q, u)
           /\ Control!Dequeue(q) = Dequeue(q) /\ Turns!Dequeue(q) = Dequeue(q)
  BY DEF Control!InLine, Turns!InLine, InLine,
         Control!NoRepeats, Turns!NoRepeats, NoRepeats,
         Control!Without, Turns!Without, Without,
         Control!Position, Turns!Position, Position,
         Control!Dequeue, Turns!Dequeue, Dequeue

LEMMA SameTimer ==
    ASSUME NEW s, NEW to, NEW t
    PROVE  /\ Turns!Arm = Control!Arm /\ Turns!Disarm = Control!Disarm
           /\ Turns!TransitionToState(s, to, t) = Control!TransitionToState(s, to, t)
  BY DEF Turns!Arm, Control!Arm, Turns!Disarm, Control!Disarm,
         Turns!Pause, Control!Pause, Turns!Unpause, Control!Unpause,
         Turns!WasArmed, Control!WasArmed,
         Turns!OnTurnStateChange, Control!OnTurnStateChange,
         Turns!TransitionToState, Control!TransitionToState

LEMMA SameUpdate ==
    ASSUME NEW q, NEW s, NEW t
    PROVE  Turns!UpdateStateMachine(q, s, t) <=> Control!UpdateStateMachine(q, s, t)
  BY SameTimer DEF Turns!StateFor, Control!StateFor,
         Turns!UpdateStateMachine, Control!UpdateStateMachine

LEMMA SameEnd ==
    ASSUME NEW t
    PROVE  Turns!EndCurrentTurnWith(t) <=> Control!EndCurrentTurnWith(t)
  BY SameTimer, SameUpdate, SameQueueOps
     DEF Turns!EndCurrentTurnWith, Control!EndCurrentTurnWith

LEMMA SameMethods ==
    ASSUME NEW u
    PROVE  /\ Turns!AddUser(u) <=> Control!AddUser(u)
           /\ Turns!RemoveUser(u) <=> Control!RemoveUser(u)
           /\ Turns!BypassTurn(u) <=> Control!BypassTurn(u)
           /\ Turns!ClearTurns <=> Control!ClearTurns
           /\ Turns!PauseQueue <=> Control!PauseQueue
           /\ Turns!UnpauseQueue <=> Control!UnpauseQueue
           /\ Turns!OnSecondElapsed <=> Control!OnSecondElapsed
  <1> USE SameQueueOps, SameUpdate
      DEF Turns!Paused, Control!Paused, Turns!UserInQueue, Control!UserInQueue,
          Turns!turnVars, Control!turnVars, Turns!AtHead, Control!AtHead
  <1>1. Turns!AddUser(u) <=> Control!AddUser(u)
    BY DEF Turns!AddUser, Control!AddUser
  <1>2. Turns!RemoveUser(u) <=> Control!RemoveUser(u)
    BY SameEnd DEF Turns!RemoveUser, Control!RemoveUser,
                   Turns!EndCurrentTurn, Control!EndCurrentTurn
  <1>3. Turns!BypassTurn(u) <=> Control!BypassTurn(u)
    BY DEF Turns!BypassTurn, Control!BypassTurn
  <1>4. Turns!ClearTurns <=> Control!ClearTurns
    BY DEF Turns!ClearTurns, Control!ClearTurns
  <1>5. Turns!PauseQueue <=> Control!PauseQueue
    BY SameTimer DEF Turns!PauseQueue, Control!PauseQueue
  <1>6. Turns!UnpauseQueue <=> Control!UnpauseQueue
    BY SameTimer DEF Turns!UnpauseQueue, Control!UnpauseQueue
  <1>7. Turns!OnSecondElapsed <=> Control!OnSecondElapsed
    BY SameEnd DEF Turns!OnSecondElapsed, Control!OnSecondElapsed
  <1> QED BY <1>1, <1>2, <1>3, <1>4, <1>5, <1>6, <1>7

-----------------------------------------------------------------------------
(* What each method does to who is in the queue and to the pause.          *)

LEMMA ControlFacts ==
    ASSUME Control!IInv
    PROVE  /\ queue \in Seq(Users) /\ NoRepeats(queue)
           /\ state \in Control!TurnStates /\ timer \in Control!Timers
           /\ timer.running => timer.leftSeconds >= 1
  BY SameQueueOps, TurnServerAssumption, Control!InvFacts

\* Steps of the controller, and steps it takes no part in, keep its invariant.
LEMMA ControlStep ==
    ASSUME Control!IInv,
           \/ \E u \in Users : \/ Turns!AddUser(u) \/ Turns!RemoveUser(u)
                               \/ Turns!BypassTurn(u)
           \/ Turns!ClearTurns \/ Turns!PauseQueue \/ Turns!UnpauseQueue
           \/ Turns!OnSecondElapsed
           \/ UNCHANGED turnVars
    PROVE  Control!IInv'
  <1>1. Control!Next \/ UNCHANGED Control!turnVars
    BY SameMethods DEF Control!Next, Control!turnVars, turnVars
  <1> QED BY <1>1, Control!NextIInv, TurnServerAssumption

LEMMA UpdateFacts ==
    ASSUME NEW q, NEW s \in Control!TurnStates, NEW t,
           Turns!UpdateStateMachine(q, s, t)
    PROVE  queue' = q /\ (Turns!Paused' <=> s = "Active_Paused")
  BY DEF Turns!UpdateStateMachine, Turns!StateFor, Turns!Paused

LEMMA EndFacts ==
    ASSUME Control!IInv, NEW t, Turns!EndCurrentTurnWith(t)
    PROVE  InLine(queue') \subseteq InLine(queue) /\ (Turns!Paused' <=> Turns!Paused)
  <1>1. queue' = Dequeue(queue) /\ (Turns!Paused' <=> state = "Active_Paused")
    BY ControlFacts, UpdateFacts, SameQueueOps DEF Turns!EndCurrentTurnWith
  <1> QED BY <1>1, ControlFacts, DequeueLemma DEF Turns!Paused

LEMMA AddFacts ==
    ASSUME Control!IInv, NEW u \in Users, u \notin InLine(queue), Turns!AddUser(u)
    PROVE  InLine(queue') \subseteq InLine(queue) \cup {u} /\ (Turns!Paused' <=> Turns!Paused)
  <1>1. CASE UNCHANGED Turns!turnVars
    BY <1>1 DEF Turns!turnVars, Turns!Paused
  <1>2. CASE Turns!UpdateStateMachine(Append(queue, u), state, timer)
    <2>1. queue' = Append(queue, u) /\ (Turns!Paused' <=> state = "Active_Paused")
      BY <1>2, ControlFacts, UpdateFacts
    <2> QED BY <2>1, ControlFacts, AppendLemma DEF Turns!Paused
  <1> QED BY <1>1, <1>2 DEF Turns!AddUser

LEMMA RemoveFacts ==
    ASSUME Control!IInv, NEW u \in Users, Turns!RemoveUser(u)
    PROVE  InLine(queue') \subseteq InLine(queue) /\ (Turns!Paused' <=> Turns!Paused)
  <1>1. CASE UNCHANGED Turns!turnVars
    BY <1>1 DEF Turns!turnVars, Turns!Paused
  <1>2. CASE Turns!UpdateStateMachine(Turns!Without(queue, u), state, timer)
    <2>1. queue' = Without(queue, u) /\ (Turns!Paused' <=> state = "Active_Paused")
      BY <1>2, ControlFacts, UpdateFacts, SameQueueOps
    <2> QED BY <2>1, ControlFacts, WithoutNoRepeats DEF Turns!Paused
  <1>3. CASE Turns!EndCurrentTurn
    BY <1>3, EndFacts DEF Turns!EndCurrentTurn
  <1> QED BY <1>1, <1>2, <1>3 DEF Turns!RemoveUser

LEMMA InFront ==
    ASSUME Control!IInv, NEW a \in Users
    PROVE  LET q == <<a>> \o Without(queue, a)
           IN  /\ q \in Seq(Users) /\ NoRepeats(q) /\ Head(q) = a
               /\ InLine(q) = InLine(queue) \cup {a}
  <1> DEFINE w == Without(queue, a)
  <1>1. w \in Seq(Users) /\ NoRepeats(w) /\ InLine(w) = InLine(queue) \ {a}
    BY ControlFacts, WithoutNoRepeats
  <1> HIDE DEF w
  <1>2. Head(<<a>> \o w) = a
    BY <1>1
  <1> QED BY <1>1, <1>2, PrependLemma DEF w

LEMMA BypassFacts ==
    ASSUME Control!IInv, NEW a \in Users, Turns!BypassTurn(a)
    PROVE  /\ Head(queue') = a /\ InLine(queue') = InLine(queue) \cup {a}
           /\ Turns!Paused' <=> Turns!Paused
  <1>1. /\ queue' = <<a>> \o Without(queue, a)
        /\ Turns!Paused' <=> state = "Active_Paused"
    BY ControlFacts, UpdateFacts, SameQueueOps DEF Turns!BypassTurn
  <1> QED BY <1>1, InFront DEF Turns!Paused

\* An indefinite turn: the pause, and then the bypass of a paused queue.
LEMMA IndefiniteFacts ==
    ASSUME Control!IInv, NEW a \in Users, OnAdminIndefiniteTurn(a)
    PROVE  /\ Control!IInv' /\ Turns!Paused'
           /\ Head(queue') = a /\ InLine(queue') = InLine(queue) \cup {a}
  <1> DEFINE q == <<a>> \o Without(queue, a)
             t == Control!TransitionToState(state, "Active_Paused", timer)
  <1>1. queue' = q /\ state' = "Active_Paused" /\ timer' = t
    BY SameTimer DEF OnAdminIndefiniteTurn
  <1>2. "Active_Paused" \in Control!TurnStates
    BY DEF Control!TurnStates
  <1>3. t \in Control!Timers /\ (t.running => t.leftSeconds >= 1)
    BY <1>2, ControlFacts, Control!TransitionTimer, TurnServerAssumption
  <1>4. Control!Settling(q, "Active_Paused", t)
    <2>1. q \in Seq(Users) /\ Control!NoRepeats(q)
      BY InFront, SameQueueOps
    <2> HIDE DEF q, t
    <2> QED BY <1>2, <1>3, <2>1 DEF Control!Settling
  <1>5. Control!UpdateStateMachine(q, "Active_Paused", t)
    BY <1>1 DEF Control!UpdateStateMachine, Control!StateFor, Control!TransitionToState
  <1>6. Control!IInv'
    <2> HIDE DEF q, t
    <2> QED BY <1>4, <1>5, Control!UpdateRestores, TurnServerAssumption
  <1> QED BY <1>1, <1>6, InFront DEF Turns!Paused

LEMMA SecondFacts ==
    ASSUME Control!IInv, Turns!OnSecondElapsed
    PROVE  InLine(queue') \subseteq InLine(queue) /\ (Turns!Paused' <=> Turns!Paused)
  BY EndFacts DEF Turns!OnSecondElapsed, Turns!Paused

LEMMA PauseFacts ==
    ASSUME Control!IInv, Turns!PauseQueue
    PROVE  queue' = queue /\ Turns!Paused'
  <1>1. "Active_Paused" \in Control!TurnStates
    BY DEF Control!TurnStates
  <1> QED BY <1>1, UpdateFacts DEF Turns!PauseQueue, Turns!Paused, Turns!turnVars

LEMMA UnpauseFacts ==
    ASSUME Control!IInv, Turns!UnpauseQueue
    PROVE  queue' = queue
  BY DEF Turns!UnpauseQueue, Turns!UpdateStateMachine, Turns!turnVars

LEMMA ClearFacts ==
    ASSUME Control!IInv, Turns!ClearTurns
    PROVE  InLine(queue') \subseteq InLine(queue) /\ (Turns!Paused' <=> Turns!Paused)
  <1>1. queue' = <<>> /\ (Turns!Paused' <=> state = "Active_Paused")
    BY ControlFacts, UpdateFacts DEF Turns!ClearTurns
  <1> QED BY <1>1 DEF Turns!Paused, InLine

-----------------------------------------------------------------------------
(* The invariant.                                                          *)

Socks == {"none", "open", "closing", "closed"}

\* Nobody is a client twice or before he has connected, and whoever can still
\* be heard is a client, unless a login displaced him.
ClientsInv ==
    /\ TypeOKConnections
    /\ NoRepeats(clients)
    /\ \A u \in Connected : sock[u] # "none"
    /\ Talking \subseteq Connected \cup displaced

AdminTypes ==
    /\ votesAllowed \in BOOLEAN
    /\ muted \subseteq IPs
    /\ banning \subseteq Users
    /\ leftBehind \subseteq Users
    /\ displaced \subseteq Users

\* The inductive invariant.
IInv ==
    /\ Control!IInv
    /\ ClientsInv
    /\ AdminTypes
    /\ DisabledIsPaused
    /\ GhostsExplained
    /\ TurnLimitPlusOne

-----------------------------------------------------------------------------
(* Connections.                                                            *)

LEMMA ConnectedAreUsers ==
    ASSUME TypeOKConnections
    PROVE  Connected \subseteq Users
  BY DEF TypeOKConnections, Connected, InLine

LEMMA ClosingLemma ==
    ASSUME NEW s \in [Users -> Socks], NEW x
    PROVE  /\ Closing(s, x) \in [Users -> Socks]
           /\ \A v \in Users :
                 /\ Closing(s, x)[v] = "none" <=> s[v] = "none"
                 /\ Closing(s, x)[v] \in {"open", "closing"} <=> s[v] \in {"open", "closing"}
  BY DEF Closing, Socks

\* Who is not heard of and not new keeps his place.
LEMMA ClientsStay ==
    ASSUME ClientsInv, clients' = clients, joined' \subseteq Users,
           displaced' = displaced,
           sock' = sock \/ \E u \in Users : sock' = Closing(sock, u)
    PROVE  ClientsInv' /\ Connected' = Connected
  <1>1. /\ sock' \in [Users -> Socks]
        /\ \A v \in Users :
              /\ sock'[v] = "none" <=> sock[v] = "none"
              /\ sock'[v] \in {"open", "closing"} <=> sock[v] \in {"open", "closing"}
    BY ClosingLemma DEF ClientsInv, TypeOKConnections, Socks
  <1>2. Connected' = Connected /\ Connected \subseteq Users
    BY ConnectedAreUsers DEF Connected, ClientsInv
  <1>3. Talking' = Talking
    BY <1>1 DEF Talking
  <1> QED BY <1>1, <1>2, <1>3 DEF ClientsInv, TypeOKConnections, Socks

LEMMA OpenedFacts ==
    ASSUME ClientsInv, NEW u \in Users, ConnectionOpened(u), displaced' = displaced
    PROVE  ClientsInv' /\ Connected' = Connected \cup {u}
  <1> DEFINE s == IF Cardinality(SameIP(IPOf[u])) >= MaxConnections
                  THEN Closing(sock, OldestFrom(IPOf[u])) ELSE sock
  <1>1. /\ sock[u] = "none" /\ sock' = [s EXCEPT ![u] = "open"]
        /\ clients' = Append(clients, u) /\ joined' = joined
    BY DEF ConnectionOpened
  <1>2. /\ s \in [Users -> Socks]
        /\ \A v \in Users :
              /\ s[v] = "none" <=> sock[v] = "none"
              /\ s[v] \in {"open", "closing"} <=> sock[v] \in {"open", "closing"}
    BY ClosingLemma DEF ClientsInv, TypeOKConnections, Socks
  <1> HIDE DEF s
  <1>3. /\ clients' \in Seq(Users) /\ NoRepeats(clients')
        /\ InLine(clients') = InLine(clients) \cup {u}
    BY <1>1, AppendLemma DEF ClientsInv, TypeOKConnections, Connected
  <1>4. Connected' = Connected \cup {u} /\ Connected \subseteq Users
    BY <1>3, ConnectedAreUsers DEF Connected, ClientsInv
  <1>5. sock' \in [Users -> Socks] /\ joined' \subseteq Users
    BY <1>1, <1>2 DEF ClientsInv, TypeOKConnections, Socks
  <1>6. Talking' \subseteq Talking \cup {u}
    BY <1>1, <1>2 DEF Talking
  <1>7. \A v \in Connected' : sock'[v] # "none"
    BY <1>1, <1>2, <1>4 DEF ClientsInv
  <1> QED BY <1>3, <1>4, <1>5, <1>6, <1>7 DEF ClientsInv, TypeOKConnections, Socks

LEMMA LeftFacts ==
    ASSUME ClientsInv, NEW u \in Users,
           \/ Disconnected(u) /\ displaced' = displaced
           \/ Displaced(u) /\ displaced' = displaced \cup {u}
    PROVE  ClientsInv' /\ Connected' = Connected \ {u}
  <1>1. clients' = Without(clients, u) /\ joined' = joined
    BY DEF Disconnected, Displaced
  <1>2. /\ clients' \in Seq(Users) /\ NoRepeats(clients')
        /\ InLine(clients') = InLine(clients) \ {u}
    BY <1>1, WithoutNoRepeats DEF ClientsInv, TypeOKConnections
  <1>3. Connected' = Connected \ {u} /\ Connected \subseteq Users
    BY <1>2, ConnectedAreUsers DEF Connected, ClientsInv
  <1>4. sock \in [Users -> Socks]
    BY DEF ClientsInv, TypeOKConnections, Socks
  <1>5. /\ sock' \in [Users -> Socks]
        /\ \A v \in Users : sock'[v] = "none" => sock[v] = "none"
        /\ Talking' \subseteq Connected' \cup displaced'
    <2>1. CASE Disconnected(u) /\ displaced' = displaced
      <3>1. sock' = [sock EXCEPT ![u] = "closed"]
        BY <2>1 DEF Disconnected
      <3>2. Talking' \subseteq Talking \ {u}
        BY <1>4, <3>1 DEF Talking
      <3> QED BY <1>3, <1>4, <2>1, <3>1, <3>2 DEF ClientsInv, Socks
    <2>2. CASE Displaced(u) /\ displaced' = displaced \cup {u}
      <3>1. sock' = Closing(sock, u)
        BY <2>2 DEF Displaced
      <3>2. Talking' = Talking
        BY <1>4, <3>1, ClosingLemma DEF Talking
      <3> QED BY <1>3, <1>4, <2>2, <3>1, <3>2, ClosingLemma DEF ClientsInv
    <2> QED BY <2>1, <2>2
  <1>6. \A v \in Connected' : sock'[v] # "none"
    BY <1>3, <1>5 DEF ClientsInv
  <1> QED BY <1>1, <1>2, <1>3, <1>5, <1>6 DEF ClientsInv, TypeOKConnections, Socks

-----------------------------------------------------------------------------
(* Counting.                                                               *)

LEMMA InLineFinite ==
    ASSUME NEW q \in Seq(Users)
    PROVE  IsFiniteSet(InLine(q))
  <1>1. IsFiniteSet(1 .. Len(q))
    BY FS_Interval
  <1>2. q \in Surjection(1 .. Len(q), InLine(q))
    BY DEF InLine, Surjection
  <1> QED BY <1>1, <1>2, FS_Surjection

LEMMA QueueFromFinite ==
    ASSUME Control!IInv, NEW ip
    PROVE  /\ IsFiniteSet(InQueueFrom(ip)) /\ IsFiniteSet(InQueueFrom(ip) \ Staff)
           /\ Cardinality(InQueueFrom(ip)) \in Nat
  <1>1. IsFiniteSet(InLine(queue))
    BY ControlFacts, InLineFinite
  <1>2. InQueueFrom(ip) \subseteq InLine(queue) /\ InQueueFrom(ip) \ Staff \subseteq InLine(queue)
    BY DEF InQueueFrom
  <1> QED BY <1>1, <1>2, FS_Subset, FS_CardinalityType

\* The limit holds on as long as only staff enter.
LEMMA LimitKept ==
    ASSUME IInv, InLine(queue') \subseteq InLine(queue) \cup Staff
    PROVE  TurnLimitPlusOne'
  <1> SUFFICES ASSUME NEW ip \in IPs
               PROVE  Cardinality(InQueueFrom(ip)' \ Staff) <= TurnMaximum + 1
    BY DEF TurnLimitPlusOne
  <1> DEFINE before == InQueueFrom(ip) \ Staff
             after == InQueueFrom(ip)' \ Staff
  <1>1. IsFiniteSet(before) /\ Cardinality(before) <= TurnMaximum + 1
    BY QueueFromFinite DEF IInv, TurnLimitPlusOne
  <1>2. after \subseteq before
    BY DEF InQueueFrom
  <1> HIDE DEF before, after
  <1>3. /\ Cardinality(after) <= Cardinality(before)
        /\ Cardinality(after) \in Nat /\ Cardinality(before) \in Nat
    BY <1>1, <1>2, FS_Subset, FS_CardinalityType
  <1>4. Cardinality(after) <= TurnMaximum + 1
    BY <1>1, <1>3, TurnServerAssumption
  <1> QED BY <1>4 DEF after

\* A request passes when no more than the maximum are in the queue.
LEMMA LimitAdds ==
    ASSUME IInv, NEW u \in Users, WithinTurnLimit(u),
           InLine(queue') \subseteq InLine(queue) \cup {u}
    PROVE  TurnLimitPlusOne'
  <1> SUFFICES ASSUME NEW ip \in IPs
               PROVE  Cardinality(InQueueFrom(ip)' \ Staff) <= TurnMaximum + 1
    BY DEF TurnLimitPlusOne
  <1> DEFINE before == InQueueFrom(ip)
             after == InQueueFrom(ip)' \ Staff
  <1>1. IsFiniteSet(before) /\ Cardinality(before) \in Nat
    BY QueueFromFinite DEF IInv
  <1>2. CASE IPOf[u] = ip
    <2>1. Cardinality(before) <= TurnMaximum
      BY <1>1, <1>2, TurnServerAssumption DEF WithinTurnLimit
    <2>2. after \subseteq before \cup {u}
      BY DEF InQueueFrom
    <2> HIDE DEF before, after
    <2>3. /\ IsFiniteSet(before \cup {u})
          /\ Cardinality(before \cup {u}) \in Nat
          /\ Cardinality(before \cup {u}) <= Cardinality(before) + 1
      <3>1. /\ IsFiniteSet(before \cup {u})
            /\ Cardinality(before \cup {u}) =
                 IF u \in before THEN Cardinality(before) ELSE Cardinality(before) + 1
        BY <1>1, FS_AddElement
      <3>2. IsFiniteSet(before) /\ Cardinality(before) \in Nat
        BY <1>1
      <3> QED BY <3>1, <3>2
    <2>4. Cardinality(after) <= Cardinality(before \cup {u}) /\ Cardinality(after) \in Nat
      BY <2>2, <2>3, FS_Subset, FS_CardinalityType
    <2>5. Cardinality(after) <= TurnMaximum + 1
      BY <1>1, <2>1, <2>3, <2>4, TurnServerAssumption
    <2> QED BY <2>5 DEF after
  <1>3. CASE IPOf[u] # ip
    <2>1. after \subseteq before \ Staff
      BY <1>3 DEF InQueueFrom
    <2>2. IsFiniteSet(before \ Staff) /\ Cardinality(before \ Staff) <= TurnMaximum + 1
      BY QueueFromFinite DEF IInv, TurnLimitPlusOne
    <2> HIDE DEF before, after
    <2>3. /\ Cardinality(after) <= Cardinality(before \ Staff)
          /\ Cardinality(after) \in Nat /\ Cardinality(before \ Staff) \in Nat
      BY <2>1, <2>2, FS_Subset, FS_CardinalityType
    <2>4. Cardinality(after) <= TurnMaximum + 1
      BY <2>2, <2>3, TurnServerAssumption
    <2> QED BY <2>4 DEF after
  <1> QED BY <1>2, <1>3

-----------------------------------------------------------------------------
(* Every step.                                                             *)

\* What is left to show of a step after which only staff are new in the queue.
LEMMA Preserved ==
    ASSUME IInv, Control!IInv', ClientsInv', AdminTypes',
           ~votesAllowed' => Turns!Paused',
           InLine(queue') \subseteq InLine(queue) \cup Staff,
           InLine(queue') \ Connected' \subseteq leftBehind' \cup displaced'
    PROVE  IInv'
  <1>1. TurnLimitPlusOne'
    BY LimitKept
  <1>2. DisabledIsPaused' /\ GhostsExplained'
    BY DEF DisabledIsPaused, GhostsExplained
  <1> QED BY <1>1, <1>2 DEF IInv

\* A step of the turn queue that nobody enters.
LEMMA NobodyEnters ==
    ASSUME IInv, Control!IInv', UNCHANGED <<connVars, adminVars, historyVars>>,
           Turns!Paused' <=> Turns!Paused,
           InLine(queue') \subseteq InLine(queue)
    PROVE  IInv'
  <1>1. ClientsInv' /\ Connected' = Connected
    BY ClientsStay DEF IInv, connVars, historyVars, ClientsInv, TypeOKConnections
  <1>2. AdminTypes'
    BY DEF IInv, AdminTypes, adminVars, historyVars
  <1> QED BY <1>1, <1>2, Preserved
          DEF IInv, DisabledIsPaused, GhostsExplained, adminVars, historyVars

\* A member of the staff who is still heard puts himself in front.
LEMMA StaffEnters ==
    ASSUME IInv, Control!IInv', UNCHANGED <<connVars, adminVars, historyVars>>,
           Turns!Paused => Turns!Paused',
           NEW a \in Staff \cap Talking,
           InLine(queue') \subseteq InLine(queue) \cup {a}
    PROVE  IInv'
  <1>1. ClientsInv' /\ Connected' = Connected
    BY ClientsStay DEF IInv, connVars, historyVars, ClientsInv, TypeOKConnections
  <1>2. AdminTypes'
    BY DEF IInv, AdminTypes, adminVars, historyVars
  <1>3. a \in Connected \cup displaced
    BY DEF IInv, ClientsInv
  <1> QED BY <1>1, <1>2, <1>3, Preserved
          DEF IInv, DisabledIsPaused, GhostsExplained, adminVars, historyVars

\* A step that does not touch the turn queue and after which as many are clients.
LEMMA TurnsUntouched ==
    ASSUME IInv, UNCHANGED <<turnVars, votesAllowed, historyVars>>,
           ClientsInv', Connected \subseteq Connected', AdminTypes'
    PROVE  IInv'
  <1>1. Control!IInv' /\ (Turns!Paused' <=> Turns!Paused) /\ queue' = queue
    BY ControlStep DEF IInv, turnVars, Turns!Paused
  <1> QED BY <1>1, Preserved DEF IInv, DisabledIsPaused, GhostsExplained, historyVars

\* connectionClosed of the turn queue.
LEMMA LeaveFacts ==
    ASSUME IInv, NEW u \in Users, LeaveTurns(u), Connected' = Connected \ {u}
    PROVE  /\ Control!IInv' /\ (Turns!Paused' <=> Turns!Paused)
           /\ InLine(queue') \subseteq InLine(queue)
           /\ leftBehind \subseteq leftBehind' /\ leftBehind' \subseteq Users
           /\ InLine(queue') \ Connected' \subseteq leftBehind' \cup displaced
  <1>1. CASE u \in Connected
    <2>1. Turns!RemoveUser(u) /\ leftBehind' = IF u \in InLine(queue') THEN leftBehind \cup {u}
                                               ELSE leftBehind
      BY <1>1 DEF LeaveTurns
    <2>2. /\ Control!IInv' /\ (Turns!Paused' <=> Turns!Paused)
          /\ InLine(queue') \subseteq InLine(queue)
      BY <2>1, ControlStep, RemoveFacts DEF IInv
    <2> QED BY <2>1, <2>2 DEF IInv, AdminTypes, GhostsExplained
  <1>2. CASE u \notin Connected
    <2>1. UNCHANGED turnVars /\ leftBehind' = leftBehind
      BY <1>2 DEF LeaveTurns
    <2>2. Control!IInv' /\ (Turns!Paused' <=> Turns!Paused) /\ queue' = queue
      BY <2>1, ControlStep DEF IInv, turnVars, Turns!Paused
    <2> QED BY <1>2, <2>1, <2>2 DEF IInv, AdminTypes, GhostsExplained
  <1> QED BY <1>1, <1>2

LEMMA InitIInv == Init => IInv
  <1> SUFFICES ASSUME Init PROVE IInv
    OBVIOUS
  <1>1. Control!IInv
    <2>1. Turns!Init <=> Control!Init
      BY SameTimer DEF Turns!Init, Control!Init
    <2> QED BY <2>1, Control!InitIInv, TurnServerAssumption DEF Init
  <1>2. InLine(queue) = {} /\ Connected = {} /\ clients = <<>>
    BY DEF Init, InitConnections, Turns!Init, Connected, InLine
  <1>3. ClientsInv
    <2>1. TypeOKConnections /\ NoRepeats(clients)
      BY <1>2 DEF Init, InitConnections, TypeOKConnections, NoRepeats
    <2>2. Talking = {}
      BY DEF Init, InitConnections, Talking
    <2> QED BY <1>2, <2>1, <2>2 DEF ClientsInv
  <1>4. AdminTypes /\ DisabledIsPaused /\ GhostsExplained
    BY <1>2 DEF Init, AdminTypes, DisabledIsPaused, GhostsExplained
  <1>5. TurnLimitPlusOne
    <2> SUFFICES ASSUME NEW ip \in IPs
                 PROVE  Cardinality(InQueueFrom(ip) \ Staff) <= TurnMaximum + 1
      BY DEF TurnLimitPlusOne
    <2>1. InQueueFrom(ip) \ Staff = {}
      BY <1>2 DEF InQueueFrom
    <2> QED BY <2>1, FS_EmptySet, TurnServerAssumption
  <1> QED BY <1>1, <1>3, <1>4, <1>5 DEF IInv

\* A request adds a user who is heard, and so a client or displaced.
LEMMA TurnRequestedIInv ==
    ASSUME IInv, NEW u \in Users, TurnRequested(u)
    PROVE  IInv'
  <1>1. /\ u \in Talking /\ u \notin InLine(queue) /\ WithinTurnLimit(u)
        /\ Turns!AddUser(u)
        /\ UNCHANGED <<connVars, adminVars, historyVars>>
    BY DEF TurnRequested
  <1>2. /\ Control!IInv' /\ (Turns!Paused' <=> Turns!Paused)
        /\ InLine(queue') \subseteq InLine(queue) \cup {u}
    BY <1>1, AddFacts, ControlStep DEF IInv
  <1>3. ClientsInv' /\ Connected' = Connected
    BY <1>1, ClientsStay DEF IInv, connVars, historyVars, ClientsInv, TypeOKConnections
  <1>4. AdminTypes' /\ DisabledIsPaused'
    BY <1>1, <1>2 DEF IInv, AdminTypes, DisabledIsPaused, adminVars, historyVars
  <1>5. GhostsExplained'
    BY <1>1, <1>2, <1>3 DEF IInv, GhostsExplained, ClientsInv, historyVars
  <1>6. TurnLimitPlusOne'
    BY <1>1, <1>2, LimitAdds
  <1> QED BY <1>2, <1>3, <1>4, <1>5, <1>6 DEF IInv

LEMMA ClientStepIInv ==
    ASSUME IInv, NEW u \in Users,
           \/ Opens(u) \/ Joins(u) \/ SocketCloses(u)
           \/ Disconnects(u) \/ LoginDisplaces(u) \/ TurnForfeited(u) \/ BanDone(u)
    PROVE  IInv'
  <1>1. CASE Opens(u)
    <2>1. ClientsInv' /\ Connected' = Connected \cup {u}
      BY <1>1, OpenedFacts DEF Opens, IInv, historyVars
    <2>2. AdminTypes'
      BY <1>1 DEF Opens, IInv, AdminTypes, adminVars, historyVars
    <2> QED BY <1>1, <2>1, <2>2, TurnsUntouched DEF Opens, adminVars
  <1>2. CASE Joins(u)
    <2>1. ClientsInv' /\ Connected' = Connected
      BY <1>2, ClientsStay
         DEF Joins, ConnectToNode, IInv, historyVars, ClientsInv, TypeOKConnections
    <2>2. AdminTypes'
      BY <1>2 DEF Joins, IInv, AdminTypes, adminVars, historyVars
    <2> QED BY <1>2, <2>1, <2>2, TurnsUntouched DEF Joins, adminVars
  <1>3. CASE SocketCloses(u)
    <2>1. ClientsInv' /\ Connected' = Connected
      BY <1>3, ClientsStay
         DEF SocketCloses, CloseSocket, IInv, historyVars, ClientsInv, TypeOKConnections
    <2>2. AdminTypes'
      BY <1>3 DEF SocketCloses, IInv, AdminTypes, adminVars, historyVars
    <2> QED BY <1>3, <2>1, <2>2, TurnsUntouched DEF SocketCloses, adminVars
  <1>4. CASE Disconnects(u) \/ LoginDisplaces(u)
    <2>1. ClientsInv' /\ Connected' = Connected \ {u}
      BY <1>4, LeftFacts DEF Disconnects, LoginDisplaces, IInv
    <2>2. /\ Control!IInv' /\ (Turns!Paused' <=> Turns!Paused)
          /\ InLine(queue') \subseteq InLine(queue)
          /\ leftBehind' \subseteq Users
          /\ InLine(queue') \ Connected' \subseteq leftBehind' \cup displaced
      BY <1>4, <2>1, LeaveFacts DEF Disconnects, LoginDisplaces
    <2>3. displaced \subseteq displaced' /\ displaced' \subseteq Users /\ UNCHANGED adminVars
      BY <1>4 DEF Disconnects, LoginDisplaces, IInv, AdminTypes
    <2>4. AdminTypes' /\ (~votesAllowed' => Turns!Paused')
      BY <2>2, <2>3 DEF IInv, AdminTypes, DisabledIsPaused, adminVars
    <2> QED BY <2>1, <2>2, <2>3, <2>4, Preserved
  <1>5. CASE TurnForfeited(u)
    <2>1. Turns!RemoveUser(u) /\ UNCHANGED <<connVars, adminVars, historyVars>>
      BY <1>5 DEF TurnForfeited
    <2> QED BY <2>1, RemoveFacts, ControlStep, NobodyEnters DEF IInv
  <1>6. CASE BanDone(u)
    <2>1. ClientsInv' /\ Connected' = Connected
      BY <1>6, ClientsStay DEF BanDone, IInv, historyVars, ClientsInv, TypeOKConnections
    <2>2. AdminTypes'
      BY <1>6 DEF BanDone, IInv, AdminTypes, historyVars
    <2> QED BY <1>6, <2>1, <2>2, TurnsUntouched DEF BanDone
  <1> QED BY <1>1, <1>2, <1>3, <1>4, <1>5, <1>6

\* A mute, or its end, or the await of a ban.
LEMMA MutesIInv ==
    ASSUME IInv, UNCHANGED <<connVars, turnVars, votesAllowed, historyVars>>,
           muted' \subseteq IPs, banning' \subseteq Users
    PROVE  IInv'
  <1>1. ClientsInv' /\ Connected' = Connected
    BY ClientsStay DEF IInv, connVars, historyVars, ClientsInv, TypeOKConnections
  <1>2. AdminTypes'
    BY DEF IInv, AdminTypes, historyVars
  <1> QED BY <1>1, <1>2, TurnsUntouched

LEMMA StaffStepIInv ==
    ASSUME IInv, NEW a \in Staff, StaffStep(a)
    PROVE  IInv'
  <1>0. a \in Users /\ a \in Staff \cap Talking
    BY TurnServerAssumption DEF StaffStep
  <1>1. ASSUME NEW u \in Users, OnAdminEndTurn(u) PROVE IInv'
    BY <1>1, RemoveFacts, ControlStep, NobodyEnters DEF OnAdminEndTurn, IInv
  <1>2. ASSUME NEW u \in Users, Muted(u) \/ BanStarts(u) PROVE IInv'
    <2>1. /\ UNCHANGED <<connVars, turnVars, votesAllowed, historyVars>>
          /\ muted' \subseteq IPs /\ banning' \subseteq Users
      BY <1>2 DEF Muted, BanStarts, IInv, AdminTypes, IPs
    <2> QED BY <2>1, MutesIInv
  <1>3. CASE OnAdminClearQueue
    BY <1>3, ClearFacts, ControlStep, NobodyEnters DEF OnAdminClearQueue, IInv
  <1>4. CASE OnAdminBypassTurn(a)
    BY <1>0, <1>4, BypassFacts, ControlStep, StaffEnters DEF OnAdminBypassTurn, IInv
  <1>5. ASSUME NEW enabled \in BOOLEAN, OnAdminToggleTurns(enabled) PROVE IInv'
    <2>1. /\ Control!IInv' /\ queue' = queue
          /\ ~votesAllowed' => Turns!Paused'
      BY <1>5, PauseFacts, UnpauseFacts, ControlStep DEF OnAdminToggleTurns, IInv
    <2>2. UNCHANGED <<connVars, muted, banning, historyVars>> /\ votesAllowed' \in BOOLEAN
      BY <1>5 DEF OnAdminToggleTurns
    <2>3. ClientsInv' /\ Connected' = Connected
      BY <2>2, ClientsStay DEF IInv, connVars, historyVars, ClientsInv, TypeOKConnections
    <2>4. AdminTypes'
      BY <2>2 DEF IInv, AdminTypes, historyVars
    <2> QED BY <2>1, <2>2, <2>3, <2>4, Preserved DEF IInv, GhostsExplained, historyVars
  <1>6. CASE OnAdminIndefiniteTurn(a)
    <2>1. UNCHANGED <<connVars, adminVars, historyVars>>
      BY <1>6 DEF OnAdminIndefiniteTurn
    <2> QED BY <1>0, <1>6, <2>1, IndefiniteFacts, StaffEnters DEF IInv
  <1> QED BY <1>1, <1>2, <1>3, <1>4, <1>5, <1>6 DEF StaffStep

LEMMA NextIInv == IInv /\ [Next]_serverVars => IInv'
  <1> SUFFICES ASSUME IInv, [Next]_serverVars PROVE IInv'
    OBVIOUS
  <1>1. ASSUME NEW ip \in IPs, Unmuted(ip) PROVE IInv'
    <2>1. /\ UNCHANGED <<connVars, turnVars, votesAllowed, historyVars>>
          /\ muted' \subseteq IPs /\ banning' \subseteq Users
      BY <1>1 DEF Unmuted, IInv, AdminTypes
    <2> QED BY <2>1, MutesIInv
  <1>2. CASE Second
    BY <1>2, SecondFacts, ControlStep, NobodyEnters DEF Second, IInv
  <1>3. CASE UNCHANGED serverVars
    <2>1. /\ UNCHANGED <<connVars, turnVars, votesAllowed, historyVars>>
          /\ muted' \subseteq IPs /\ banning' \subseteq Users
      BY <1>3 DEF serverVars, adminVars, IInv, AdminTypes
    <2> QED BY <2>1, MutesIInv
  <1> QED BY <1>1, <1>2, <1>3, TurnRequestedIInv, ClientStepIInv, StaffStepIInv DEF Next

-----------------------------------------------------------------------------
(* Theorems.                                                               *)

\* The inductive invariant holds of every behaviour.
THEOREM Invariance == Spec => []IInv
  BY InitIInv, NextIInv, PTL DEF Spec

LEMMA IInvConsistent == IInv => ControllerConsistent
  <1> SUFFICES ASSUME IInv PROVE ControllerConsistent
    OBVIOUS
  <1>1. TypeOKConnections /\ AdminTypes
    BY DEF IInv, ClientsInv
  <1>2. /\ Turns!TypeOK /\ Turns!NoDuplicates /\ Turns!StateMatchesQueue
        /\ Turns!ClockRunsWhileContested /\ Turns!NoStaleClock
    BY SameQueueOps
       DEF IInv, Control!IInv,
           Control!TypeOK, Turns!TypeOK, Control!TurnStates, Turns!TurnStates,
           Control!Timers, Turns!Timers, Control!NoDuplicates, Turns!NoDuplicates,
           Control!StateMatchesQueue, Turns!StateMatchesQueue,
           Control!ClockRunsWhileContested, Turns!ClockRunsWhileContested,
           Control!NoStaleClock, Turns!NoStaleClock, Control!Paused, Turns!Paused
  <1> QED BY <1>1, <1>2 DEF ControllerConsistent, TypeOK, AdminTypes, IInv

\* The handlers keep the controller consistent, those included that call it
\* twice, and all variables their types.
THEOREM ControllerConsistentHolds == Spec => []ControllerConsistent
  BY Invariance, IInvConsistent, PTL

\* Whoever waits without being a client was left behind by a paused queue or
\* displaced by a login.
THEOREM GhostsExplainedHolds == Spec => []GhostsExplained
  BY Invariance, PTL DEF IInv

\* No address has more than one place above the maximum, staff aside.
THEOREM TurnLimitHolds == Spec => []TurnLimitPlusOne
  BY Invariance, PTL DEF IInv

\* While turns are disabled, the queue is paused.
THEOREM DisabledIsPausedHolds == Spec => []DisabledIsPaused
  BY Invariance, PTL DEF IInv

\* Whoever is muted does not enter the queue by asking.
LEMMA StepMutedStayOut ==
    ASSUME IInv, Next, NEW u \in Users, Enters(u), IPOf[u] \in muted
    PROVE  u \in Staff /\ Head(queue') = u
  <1> USE DEF IInv, Enters
  <1>1. ASSUME NEW v \in Users, Opens(v) \/ Joins(v) \/ SocketCloses(v) \/ BanDone(v)
        PROVE  FALSE
    BY <1>1 DEF Opens, Joins, SocketCloses, BanDone, turnVars
  <1>2. ASSUME NEW v \in Users, Disconnects(v) \/ LoginDisplaces(v) PROVE FALSE
    <2>1. LeaveTurns(v)
      BY <1>2 DEF Disconnects, LoginDisplaces
    <2> QED BY <2>1, RemoveFacts DEF LeaveTurns, turnVars
  <1>3. ASSUME NEW v \in Users, TurnRequested(v) PROVE FALSE
    BY <1>3, AddFacts DEF TurnRequested
  <1>4. ASSUME NEW v \in Users, TurnForfeited(v) PROVE FALSE
    BY <1>4, RemoveFacts DEF TurnForfeited
  <1>5. ASSUME NEW a \in Staff, StaffStep(a) PROVE u \in Staff /\ Head(queue') = u
    <2>0. a \in Users
      BY TurnServerAssumption
    <2>1. ASSUME NEW v \in Users, OnAdminEndTurn(v) \/ Muted(v) \/ BanStarts(v) PROVE FALSE
      BY <2>1, RemoveFacts DEF OnAdminEndTurn, Muted, BanStarts, turnVars
    <2>2. ~OnAdminClearQueue
      BY ClearFacts DEF OnAdminClearQueue
    <2>3. CASE OnAdminBypassTurn(a)
      BY <2>0, <2>3, BypassFacts DEF OnAdminBypassTurn
    <2>4. ASSUME NEW enabled \in BOOLEAN, OnAdminToggleTurns(enabled) PROVE FALSE
      BY <2>4, PauseFacts, UnpauseFacts DEF OnAdminToggleTurns
    <2>5. CASE OnAdminIndefiniteTurn(a)
      BY <2>0, <2>5, IndefiniteFacts
    <2> QED BY <1>5, <2>1, <2>2, <2>3, <2>4, <2>5 DEF StaffStep
  <1>6. ASSUME NEW ip \in IPs, Unmuted(ip) PROVE FALSE
    BY <1>6 DEF Unmuted, turnVars
  <1>7. ~Second
    BY SecondFacts DEF Second
  <1> QED BY <1>1, <1>2, <1>3, <1>4, <1>5, <1>6, <1>7 DEF Next

\* No muted user enters the queue, except a member of the staff at its head.
THEOREM MutedStayOutHolds == Spec => MutedStayOut
  <1>1. IInv /\ [Next]_serverVars =>
           [\A u \in Users : Enters(u) /\ IPOf[u] \in muted =>
               u \in Staff /\ Head(queue') = u]_serverVars
    BY StepMutedStayOut
  <1> QED BY <1>1, Invariance, PTL DEF Spec, MutedStayOut

-----------------------------------------------------------------------------
(* What the handlers call.                                                 *)

\* A handler calls at most one method of the controller; the two that put
\* somebody in front are for staff, and an indefinite turn calls two at once.
LEMMA MethodSteps ==
    ASSUME [Next]_serverVars
    PROVE  \/ \E u \in Users : Turns!AddUser(u) \/ Turns!RemoveUser(u)
           \/ Turns!ClearTurns \/ Turns!PauseQueue \/ Turns!UnpauseQueue
           \/ Turns!OnSecondElapsed
           \/ UNCHANGED turnVars
           \/ \E a \in Staff : Turns!BypassTurn(a) \/ OnAdminIndefiniteTurn(a)
  <1>1. ASSUME NEW u \in Users,
               \/ Opens(u) \/ Joins(u) \/ SocketCloses(u)
               \/ Disconnects(u) \/ LoginDisplaces(u)
               \/ TurnRequested(u) \/ TurnForfeited(u) \/ BanDone(u)
        PROVE  Turns!AddUser(u) \/ Turns!RemoveUser(u) \/ UNCHANGED turnVars
    BY <1>1
       DEF Opens, Joins, SocketCloses, Disconnects, LoginDisplaces, LeaveTurns,
           TurnRequested, TurnForfeited, BanDone
  <1>2. ASSUME NEW a \in Staff, StaffStep(a)
        PROVE  \/ \E u \in Users : Turns!AddUser(u) \/ Turns!RemoveUser(u)
               \/ Turns!ClearTurns \/ Turns!PauseQueue \/ Turns!UnpauseQueue
               \/ UNCHANGED turnVars
               \/ Turns!BypassTurn(a) \/ OnAdminIndefiniteTurn(a)
    <2>1. ASSUME NEW u \in Users, OnAdminEndTurn(u) \/ Muted(u) \/ BanStarts(u)
          PROVE  Turns!RemoveUser(u) \/ UNCHANGED turnVars
      BY <2>1 DEF OnAdminEndTurn, Muted, BanStarts
    <2>2. CASE OnAdminClearQueue
      BY <2>2 DEF OnAdminClearQueue
    <2>3. CASE OnAdminBypassTurn(a)
      BY <2>3 DEF OnAdminBypassTurn
    <2>4. ASSUME NEW enabled \in BOOLEAN, OnAdminToggleTurns(enabled)
          PROVE  Turns!PauseQueue \/ Turns!UnpauseQueue
      BY <2>4 DEF OnAdminToggleTurns
    <2> QED BY <1>2, <2>1, <2>2, <2>3, <2>4 DEF StaffStep
  <1>3. ASSUME NEW ip \in IPs, Unmuted(ip) PROVE UNCHANGED turnVars
    BY <1>3 DEF Unmuted
  <1>4. CASE Second
    BY <1>4 DEF Second
  <1>5. CASE UNCHANGED serverVars
    BY <1>5 DEF serverVars
  <1> QED BY <1>1, <1>2, <1>3, <1>4, <1>5 DEF Next

-----------------------------------------------------------------------------
(* The server implements the abstract line.                                *)

LEMMA SameLineOps ==
    ASSUME NEW q, NEW u
    PROVE  /\ Line!InLine(q) = InLine(q) /\ Control!Line!InLine(q) = InLine(q)
           /\ Line!Without(q, u) = Without(q, u) /\ Control!Line!Without(q, u) = Without(q, u)
  BY DEF Line!InLine, Control!Line!InLine, InLine,
         Line!Without, Control!Line!Without, Without,
         Line!Position, Control!Line!Position, Position

\* The line the proved controller implements is the one of the server.
LEMMA SameLine ==
    ASSUME NEW u
    PROVE  /\ Control!Line!Join(u) <=> Line!Join(u)
           /\ Control!Line!Leave(u) <=> Line!Leave(u)
           /\ Control!Line!Preempt(u) <=> Line!Preempt(u)
           /\ Control!Line!Seize(u) <=> Line!Seize(u)
           /\ Control!Line!Advance <=> Line!Advance
           /\ Control!Line!Clear <=> Line!Clear
           /\ Control!Line!Freeze <=> Line!Freeze
           /\ Control!Line!Thaw <=> Line!Thaw
  <1> USE SameLineOps DEF Turns!Paused, Control!Paused
  <1>1. Control!Line!Join(u) <=> Line!Join(u)
    BY DEF Control!Line!Join, Line!Join
  <1>2. Control!Line!Leave(u) <=> Line!Leave(u)
    BY DEF Control!Line!Leave, Line!Leave
  <1>3. Control!Line!Preempt(u) <=> Line!Preempt(u)
    BY DEF Control!Line!Preempt, Line!Preempt
  <1>4. Control!Line!Seize(u) <=> Line!Seize(u)
    BY DEF Control!Line!Seize, Line!Seize
  <1>5. Control!Line!Advance <=> Line!Advance
    BY DEF Control!Line!Advance, Line!Advance
  <1>6. Control!Line!Clear <=> Line!Clear
    BY DEF Control!Line!Clear, Line!Clear
  <1>7. Control!Line!Freeze <=> Line!Freeze
    BY DEF Control!Line!Freeze, Line!Freeze
  <1>8. Control!Line!Thaw <=> Line!Thaw
    BY DEF Control!Line!Thaw, Line!Thaw
  <1> QED BY <1>1, <1>2, <1>3, <1>4, <1>5, <1>6, <1>7, <1>8

\* A method of the controller is a step of the line, or leaves it alone.
LEMMA MethodSimulation ==
    ASSUME Control!IInv,
           \/ \E u \in Users : \/ Turns!AddUser(u) \/ Turns!RemoveUser(u)
                               \/ Turns!BypassTurn(u)
           \/ Turns!ClearTurns \/ Turns!PauseQueue \/ Turns!UnpauseQueue
           \/ Turns!OnSecondElapsed
           \/ UNCHANGED turnVars
    PROVE  [Line!Next]_(Line!vars)
  <1>1. [Control!Next]_(Control!turnVars)
    BY SameMethods DEF Control!Next, Control!turnVars, turnVars
  <1>2. [Control!Line!Next]_(Control!Line!vars)
    BY <1>1, Control!StepSimulation, TurnServerAssumption
  <1> QED BY <1>2, SameLine
        DEF Line!Next, Control!Line!Next, Line!vars, Control!Line!vars,
            Turns!Paused, Control!Paused

\* An indefinite turn is a step of the line of its own.
LEMMA IndefiniteSimulation ==
    ASSUME Control!IInv, NEW a \in Users, OnAdminIndefiniteTurn(a)
    PROVE  Line!Seize(a)
  <1>1. queue' = <<a>> \o Without(queue, a) /\ Turns!Paused'
    BY IndefiniteFacts DEF OnAdminIndefiniteTurn
  <1>2. Line!Without(queue, a) = Without(queue, a)
    BY SameLineOps
  <1>3. Turns!Paused' = TRUE
    BY <1>1 DEF Turns!Paused
  <1> QED BY <1>1, <1>2, <1>3 DEF Line!Seize

\* Every handler of the server is a step of the line or leaves it alone.
LEMMA StepSimulation == IInv /\ [Next]_serverVars => [Line!Next]_(Line!vars)
  <1> SUFFICES ASSUME IInv, [Next]_serverVars PROVE [Line!Next]_(Line!vars)
    OBVIOUS
  <1>1. Control!IInv /\ \A a \in Staff : a \in Users
    BY TurnServerAssumption DEF IInv
  <1>2. ASSUME NEW a \in Staff, OnAdminIndefiniteTurn(a) PROVE Line!Next
    BY <1>1, <1>2, IndefiniteSimulation DEF Line!Next
  <1> QED BY <1>1, <1>2, MethodSteps, MethodSimulation

\* The queue of the server is the line TurnLine describes: whatever requests,
\* disconnects, logins elsewhere and staff commands meet, nobody who waits is
\* lost, doubled or moved, and a frozen line lets nobody in.
THEOREM ImplementsLineHolds == Spec => ImplementsLine
  <1>1. Init => Line!Init
    BY DEF Init, Turns!Init, Line!Init, Turns!Paused
  <1> QED BY <1>1, Invariance, StepSimulation, PTL DEF Spec, ImplementsLine, Line!Safety

-----------------------------------------------------------------------------
(* The order of the queue.                                                 *)

\* Every handler keeps the queue in order, but for those by which a member of
\* the staff puts himself in front.
LEMMA QueueSteps ==
    ASSUME IInv, [Next]_serverVars
    PROVE  \/ InOrder(Users, queue, queue')
           \/ \E a \in Staff : queue' = <<a>> \o Without(queue, a)
  <1>1. ASSUME \/ \E u \in Users : Turns!AddUser(u) \/ Turns!RemoveUser(u)
               \/ Turns!ClearTurns \/ Turns!PauseQueue \/ Turns!UnpauseQueue
               \/ Turns!OnSecondElapsed
               \/ UNCHANGED turnVars
        PROVE  InOrder(Users, queue, queue')
    <2>1. Control!InOrder(Users, queue, queue')
      BY <1>1, SameMethods, Control!OrderlySteps, TurnServerAssumption
         DEF IInv, Control!turnVars, turnVars
    <2> QED BY <2>1, SameQueueOps DEF Control!InOrder, InOrder
  <1>2. ASSUME NEW a \in Staff, Turns!BypassTurn(a) \/ OnAdminIndefiniteTurn(a)
        PROVE  queue' = <<a>> \o Without(queue, a)
    BY <1>2, SameQueueOps DEF Turns!BypassTurn, Turns!UpdateStateMachine, OnAdminIndefiniteTurn
  <1> QED BY <1>1, <1>2, MethodSteps

LEMMA StepOvertakes == IInv /\ [Next]_serverVars => OvertakesAsStaff
  <1> SUFFICES ASSUME IInv, [Next]_serverVars,
                      NEW u \in InLine(queue) \cap InLine(queue'),
                      NEW v \in InLine(queue) \cap InLine(queue'),
                      Position(queue, u) < Position(queue, v)
               PROVE  \/ Position(queue', u) < Position(queue', v)
                      \/ v \in Staff /\ Head(queue') = v
    BY DEF OvertakesAsStaff
  <1>1. Control!IInv /\ queue \in Seq(Users) /\ NoRepeats(queue)
    BY ControlFacts DEF IInv
  <1>2. CASE InOrder(Users, queue, queue')
    BY <1>1, <1>2, OrderKept
  <1>3. ASSUME NEW a \in Staff, queue' = <<a>> \o Without(queue, a)
        PROVE  \/ Position(queue', u) < Position(queue', v)
               \/ v \in Staff /\ Head(queue') = v
    <2>0. a \in Users
      BY TurnServerAssumption
    <2>1. CASE v = a
      BY <1>1, <1>3, <2>0, <2>1, InFront
    <2>2. CASE v # a
      BY <1>1, <1>3, <2>0, <2>2, FrontOvertakes
    <2> QED BY <2>1, <2>2
  <1> QED BY <1>2, <1>3, QueueSteps

\* Whoever gets ahead of another who stays in the queue is a member of the
\* staff who put himself in front: no order of requests, forfeits, disconnects
\* and other people's commands gets anybody else there.
THEOREM OnlyStaffOvertakesHolds == Spec => OnlyStaffOvertakes
  BY Invariance, StepOvertakes, PTL DEF Spec, OnlyStaffOvertakes

-----------------------------------------------------------------------------
(* The waits.                                                              *)

LEMMA SameWaits ==
    ASSUME NEW q, NEW t, NEW u
    PROVE  /\ Turns!Position(q, u) = Control!Position(q, u)
           /\ Turns!Ahead(q, u) = Control!Ahead(q, u)
           /\ Turns!WaitingTime(q, t, u) = Control!WaitingTime(q, t, u)
  BY DEF Turns!Position, Control!Position, Turns!Ahead, Control!Ahead,
         Turns!WaitingTime, Control!WaitingTime

LEMMA StepWaitKept == IInv /\ [Next]_serverVars => Turns!WaitKept
  <1> SUFFICES ASSUME IInv, [Next]_serverVars PROVE Turns!WaitKept
    OBVIOUS
  <1>1. CASE \E a \in Staff : OnAdminIndefiniteTurn(a)
    BY <1>1 DEF OnAdminIndefiniteTurn, Turns!WaitKept
  <1>2. CASE [Control!Next]_(Control!turnVars)
    <2>1. Control!WaitKept
      BY <1>2, Control!StepWaitKept, TurnServerAssumption DEF IInv
    <2> QED BY <2>1, SameWaits, SameMethods, SameQueueOps
          DEF Turns!WaitKept, Control!WaitKept, Turns!StillWaiting, Control!StillWaiting
  <1>3. \/ \E a \in Staff : OnAdminIndefiniteTurn(a)
        \/ [Control!Next]_(Control!turnVars)
    BY MethodSteps, SameMethods, TurnServerAssumption
       DEF Control!Next, Control!turnVars, turnVars
  <1> QED BY <1>1, <1>2, <1>3

\* The wait that sendTurnUpdate tells a client never grows, whatever requests,
\* disconnects, mutes, bans and logins elsewhere other users come with, unless
\* staff put somebody ahead of him or pause the queue; each second of the clock
\* takes a second off it (323-358, 623-720, 919-945).
THEOREM HandlersKeepWaits == Spec => [][Turns!WaitKept]_serverVars
  BY Invariance, StepWaitKept, PTL DEF Spec
=============================================================================
