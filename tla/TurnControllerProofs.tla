---------------------- MODULE TurnControllerProofs ----------------------
(***************************************************************************)
(* What holds of the turn controller for every set of users and every      *)
(* turn time.                                                              *)
(***************************************************************************)
EXTENDS TurnController, QueueOpsProofs

\* The inductive invariant.  No part of it is inductive alone: that the clock
\* runs while the queue is contested needs the state to match the queue, which
\* decides the transition taken, and that no clock runs with nothing on it.
IInv ==
    /\ TypeOK
    /\ NoDuplicates
    /\ StateMatchesQueue
    /\ ClockRunsWhileContested
    /\ NoStaleClock

\* What a method has established of the queue, state and timer it hands to
\* updateStateMachine.
Settling(q, s, t) ==
    /\ q \in Seq(Users)
    /\ NoRepeats(q)
    /\ s \in TurnStates
    /\ t \in Timers
    /\ t.running => t.leftSeconds >= 1
    /\ s \in {"Inactive", "Active_OneUser"} => ~t.running
    /\ s = "Active" => (Len(q) > 1 => t.running)

-----------------------------------------------------------------------------
\* What the timer's methods return.
LEMMA TimerMethods ==
    ASSUME NEW t \in Timers
    PROVE  /\ Arm \in Timers /\ Arm.running /\ Arm.leftSeconds >= 1
           /\ Disarm \in Timers /\ ~Disarm.running /\ ~WasArmed(Disarm)
           /\ Pause(t) \in Timers /\ ~Pause(t).running
           /\ WasArmed(t) <=> t.leftSeconds >= 1
           /\ WasArmed(t) => /\ Unpause(t) \in Timers
                             /\ Unpause(t).running
                             /\ Unpause(t).leftSeconds >= 1
  <1>1. t.leftSeconds \in 0 .. TurnTime /\ t.running \in BOOLEAN
    BY DEF Timers
  <1>2. Arm \in Timers /\ Arm.running /\ Arm.leftSeconds >= 1
    BY TurnTimeAssumption DEF Arm, Timers
  <1>3. Disarm \in Timers /\ ~Disarm.running /\ ~WasArmed(Disarm)
    BY TurnTimeAssumption DEF Disarm, Timers, WasArmed
  <1>4. Pause(t) \in Timers /\ ~Pause(t).running
    BY DEF Pause, Timers
  <1>5. WasArmed(t) <=> t.leftSeconds >= 1
    BY <1>1, TurnTimeAssumption DEF WasArmed
  <1>6. WasArmed(t) => /\ Unpause(t) \in Timers
                       /\ Unpause(t).running
                       /\ Unpause(t).leftSeconds >= 1
    BY <1>5 DEF Unpause, Timers
  <1> QED BY <1>2, <1>3, <1>4, <1>5, <1>6

\* The timer keeps its type through every state change, an interval is never
\* left running on an empty clock, and the clock runs in no state but those
\* where it should.
LEMMA TransitionTimer ==
    ASSUME NEW from \in TurnStates, NEW to \in TurnStates, NEW t \in Timers,
           t.running => t.leftSeconds >= 1
    PROVE  /\ TransitionToState(from, to, t) \in Timers
           /\ TransitionToState(from, to, t).running =>
                 TransitionToState(from, to, t).leftSeconds >= 1
           /\ to = "Active" /\ from # "Active" => TransitionToState(from, to, t).running
           /\ to = "Active_OneUser" /\ from = "Active" =>
                 ~TransitionToState(from, to, t).running
           /\ to = "Inactive" /\ from \in {"Active", "Active_OneUser"} =>
                 ~TransitionToState(from, to, t).running
           /\ to # "Active" /\ ~t.running => ~TransitionToState(from, to, t).running
           /\ from = to => TransitionToState(from, to, t) = t
  <1> DEFINE r == TransitionToState(from, to, t)
  <1>1. from = to => r = t
    BY DEF TransitionToState
  <1>2. from # to => r = OnTurnStateChange(from, to, t)
    BY DEF TransitionToState
  <1>3. Pause(t) \in Timers /\ ~Pause(t).running
    BY TimerMethods
  <1> HIDE DEF r
  <1>4. CASE to = "Inactive" /\ from # to
    <2>1. r = Disarm \/ (r = t /\ from \notin {"Active", "Active_OneUser"})
      BY <1>2, <1>4, TimerMethods DEF OnTurnStateChange
    <2> QED BY <1>4, <2>1, TimerMethods DEF r
  <1>5. CASE to = "Active_OneUser" /\ from # to
    <2>1. r = Pause(t) \/ (r = t /\ (from = "Active" => ~WasArmed(t)))
      BY <1>2, <1>5 DEF OnTurnStateChange
    <2> QED BY <1>3, <1>5, <2>1, TimerMethods DEF r
  <1>6. CASE to = "Active" /\ from # to
    <2>1. r = Arm \/ (r = Unpause(t) /\ WasArmed(t))
      BY <1>2, <1>6 DEF OnTurnStateChange
    <2> QED BY <1>6, <2>1, TimerMethods DEF r
  <1>7. CASE to = "Active_Paused" /\ from # to
    <2>1. r = Pause(t) \/ r = t
      BY <1>2, <1>7 DEF OnTurnStateChange
    <2> QED BY <1>3, <1>7, <2>1 DEF r
  <1>8. CASE from = to
    BY <1>1, <1>8 DEF r
  <1> QED BY <1>4, <1>5, <1>6, <1>7, <1>8 DEF TurnStates

\* updateStateMachine restores the invariant from whatever a method hands it.
LEMMA UpdateRestores ==
    ASSUME NEW q, NEW s, NEW t, Settling(q, s, t), UpdateStateMachine(q, s, t)
    PROVE  IInv'
  <1>1. /\ q \in Seq(Users) /\ NoRepeats(q) /\ s \in TurnStates /\ t \in Timers
        /\ t.running => t.leftSeconds >= 1
    BY DEF Settling
  <1>2. queue' = q /\ state' = StateFor(s, q) /\ timer' = TransitionToState(s, state', t)
    BY DEF UpdateStateMachine
  <1>3. state' \in TurnStates
    BY <1>1, <1>2 DEF StateFor, TurnStates
  <1>4. /\ timer' \in Timers
        /\ timer'.running => timer'.leftSeconds >= 1
        /\ state' = "Active" /\ s # "Active" => timer'.running
        /\ state' = "Active_OneUser" /\ s = "Active" => ~timer'.running
        /\ state' = "Inactive" /\ s \in {"Active", "Active_OneUser"} => ~timer'.running
        /\ state' # "Active" /\ ~t.running => ~timer'.running
        /\ s = state' => timer' = t
    BY <1>1, <1>2, <1>3, TransitionTimer
  <1>5. Len(q) \in Nat
    BY <1>1
  <1>6. TypeOK' /\ NoDuplicates' /\ NoStaleClock'
    BY <1>1, <1>2, <1>3, <1>4 DEF TypeOK, NoDuplicates, NoStaleClock
  <1>7. StateMatchesQueue'
    <2> SUFFICES ASSUME state' # "Active_Paused"
                 PROVE  /\ state' = "Active" <=> Len(q) > 1
                        /\ state' = "Active_OneUser" <=> Len(q) = 1
      BY <1>2 DEF StateMatchesQueue, Paused
    <2> QED BY <1>2, <1>5 DEF StateFor
  <1>8. ClockRunsWhileContested'
    <2> SUFFICES ASSUME state' # "Active_Paused"
                 PROVE  /\ timer'.running <=> Len(q) > 1
                        /\ timer'.running => timer'.leftSeconds \in 1 .. TurnTime
      BY <1>2 DEF ClockRunsWhileContested, Paused
    <2>1. s # "Active_Paused" /\ s \in {"Inactive", "Active", "Active_OneUser"}
      BY <1>1, <1>2 DEF StateFor, TurnStates
    <2>2. timer'.running => timer'.leftSeconds \in 1 .. TurnTime
      BY <1>4, TurnTimeAssumption DEF Timers
    <2>3. CASE Len(q) > 1
      <3>1. state' = "Active"
        BY <1>2, <2>1, <2>3 DEF StateFor
      <3>2. s = "Active" => timer'.running
        BY <1>4, <2>3, <3>1 DEF Settling
      <3> QED BY <1>4, <2>2, <2>3, <3>1, <3>2
    <2>4. CASE ~(Len(q) > 1)
      <3>1. state' \in {"Active_OneUser", "Inactive"}
        BY <1>2, <2>1, <2>4 DEF StateFor
      <3>2. s # "Active" => ~t.running
        BY <2>1 DEF Settling
      <3>3. ~timer'.running
        BY <1>4, <2>1, <3>1, <3>2
      <3> QED BY <2>4, <3>3
    <2> QED BY <2>3, <2>4
  <1> QED BY <1>6, <1>7, <1>8 DEF IInv

-----------------------------------------------------------------------------
\* A turn may end with any timer that agrees with the state: the running one
\* (the user leaves, staff end his turn) or the one that has just run out.
LEMMA EndTurnRestores ==
    ASSUME IInv, NEW t \in Timers, t.running => t.leftSeconds >= 1,
           state \in {"Inactive", "Active_OneUser"} => ~t.running,
           EndCurrentTurnWith(t)
    PROVE  IInv'
  <1> DEFINE rest == Dequeue(queue)
             armed == IF Len(rest) > 1 THEN Arm ELSE t
  <1>1. queue \in Seq(Users) /\ NoRepeats(queue) /\ state \in TurnStates
    BY DEF IInv, TypeOK, NoDuplicates
  <1>2. /\ rest \in Seq(Users) /\ NoRepeats(rest)
        /\ queue = <<>> => rest = <<>>
        /\ queue # <<>> => Len(rest) = Len(queue) - 1
    BY <1>1, DequeueLemma DEF Dequeue
  <1>3. armed \in Timers /\ (armed.running => armed.leftSeconds >= 1)
    BY TurnTimeAssumption DEF Arm, Timers
  <1>4. state \in {"Inactive", "Active_OneUser"} => ~armed.running
    <2> SUFFICES ASSUME state \in {"Inactive", "Active_OneUser"}
                 PROVE  ~(Len(rest) > 1)
      OBVIOUS
    <2>1. ~(Len(queue) > 1) /\ Len(queue) \in Nat
      BY <1>1 DEF IInv, StateMatchesQueue, Paused
    <2> QED BY <1>2, <2>1
  <1>5. Len(rest) > 1 => armed.running
    BY DEF Arm
  <1>6. Settling(rest, state, armed)
    BY <1>1, <1>2, <1>3, <1>4, <1>5 DEF Settling
  <1>7. UpdateStateMachine(rest, state, armed)
    BY DEF EndCurrentTurnWith
  <1> QED BY <1>6, <1>7, UpdateRestores

\* Facts the invariant gives to every step.
LEMMA InvFacts ==
    ASSUME IInv
    PROVE  /\ queue \in Seq(Users) /\ NoRepeats(queue)
           /\ state \in TurnStates /\ timer \in Timers
           /\ timer.running => timer.leftSeconds >= 1
           /\ state \in {"Inactive", "Active_OneUser"} => ~timer.running
           /\ state = "Active" => timer.running
           /\ state = "Active" <=> (~Paused /\ Len(queue) > 1)
           /\ Len(queue) \in Nat
  BY DEF IInv, TypeOK, NoDuplicates, NoStaleClock, StateMatchesQueue,
         ClockRunsWhileContested, Paused

LEMMA InitIInv == Init => IInv
  <1> SUFFICES ASSUME Init PROVE IInv
    OBVIOUS
  <1>1. queue \in Seq(Users) /\ Len(queue) = 0
    BY DEF Init
  <1>2. TypeOK
    BY <1>1, TurnTimeAssumption DEF Init, TypeOK, TurnStates, Timers, Disarm
  <1>3. NoDuplicates
    BY <1>1 DEF NoDuplicates, NoRepeats
  <1>4. StateMatchesQueue /\ ClockRunsWhileContested /\ NoStaleClock
    BY <1>1 DEF Init, Disarm, StateMatchesQueue, ClockRunsWhileContested,
                NoStaleClock, Paused
  <1> QED BY <1>2, <1>3, <1>4 DEF IInv

LEMMA UnchangedIInv == IInv /\ UNCHANGED turnVars => IInv'
  BY DEF IInv, turnVars, TypeOK, NoDuplicates, StateMatchesQueue,
         ClockRunsWhileContested, NoStaleClock, Paused

LEMMA NextIInv == IInv /\ [Next]_turnVars => IInv'
  <1> SUFFICES ASSUME IInv, [Next]_turnVars PROVE IInv'
    OBVIOUS
  <1> USE InvFacts
  <1>1. ASSUME NEW u \in Users, AddUser(u) PROVE IInv'
    <2>1. CASE ~UserInQueue(u) /\ ~Paused
      <3>1. UpdateStateMachine(Append(queue, u), state, timer)
        BY <1>1, <2>1 DEF AddUser
      <3>2. Settling(Append(queue, u), state, timer)
        BY <2>1, AppendLemma DEF UserInQueue, Settling
      <3> QED BY <3>1, <3>2, UpdateRestores
    <2>2. CASE UserInQueue(u) \/ Paused
      BY <1>1, <2>2, UnchangedIInv DEF AddUser
    <2> QED BY <2>1, <2>2
  <1>2. ASSUME EndCurrentTurn PROVE IInv'
    BY <1>2, EndTurnRestores DEF EndCurrentTurn
  <1>3. ASSUME NEW u \in Users, RemoveUser(u) PROVE IInv'
    <2>1. CASE AtHead(u) /\ EndCurrentTurn
      BY <1>2, <2>1
    <2>2. CASE /\ UserInQueue(u) /\ ~Paused
               /\ UpdateStateMachine(Without(queue, u), state, timer)
      <3>1. Without(queue, u) \in Seq(Users) /\ NoRepeats(Without(queue, u))
        BY WithoutNoRepeats
      <3>2. Len(Without(queue, u)) = Len(queue) - 1
        BY <2>2, WithoutLemma DEF UserInQueue
      <3>3. Settling(Without(queue, u), state, timer)
        BY <3>1, <3>2 DEF Settling
      <3> QED BY <2>2, <3>3, UpdateRestores
    <2>3. CASE UNCHANGED turnVars
      BY <2>3, UnchangedIInv
    <2> QED BY <1>3, <2>1, <2>2, <2>3 DEF RemoveUser
  <1>4. ASSUME NEW u \in Users, BypassTurn(u) PROVE IInv'
    <2>1. /\ Without(queue, u) \in Seq(Users) /\ NoRepeats(Without(queue, u))
          /\ u \notin InLine(Without(queue, u))
      BY WithoutNoRepeats
    <2>2. /\ <<u>> \o Without(queue, u) \in Seq(Users)
          /\ NoRepeats(<<u>> \o Without(queue, u))
      BY <2>1, PrependLemma
    <2>3. Settling(<<u>> \o Without(queue, u), state, timer)
      BY <2>2 DEF Settling
    <2> QED BY <1>4, <2>3, UpdateRestores DEF BypassTurn
  <1>5. ASSUME ClearTurns PROVE IInv'
    <2>1. <<>> \in Seq(Users) /\ NoRepeats(<<>>)
      BY DEF NoRepeats
    <2>2. Settling(<<>>, state, timer)
      BY <2>1 DEF Settling
    <2> QED BY <1>5, <2>2, UpdateRestores DEF ClearTurns
  <1>6. ASSUME PauseQueue PROVE IInv'
    <2> DEFINE t == TransitionToState(state, "Active_Paused", timer)
    <2>1. CASE ~Paused
      <3>1. t \in Timers /\ (t.running => t.leftSeconds >= 1)
        BY TransitionTimer DEF TurnStates
      <3>2. Settling(queue, "Active_Paused", t)
        BY <3>1 DEF Settling, TurnStates
      <3> QED BY <1>6, <2>1, <3>2, UpdateRestores DEF PauseQueue
    <2>2. CASE Paused
      BY <1>6, <2>2, UnchangedIInv DEF PauseQueue
    <2> QED BY <2>1, <2>2
  <1>7. ASSUME UnpauseQueue PROVE IInv'
    <2> DEFINE t == TransitionToState(state, "Active", timer)
    <2>1. CASE Paused
      <3>1. t \in Timers /\ (t.running => t.leftSeconds >= 1) /\ t.running
        BY <2>1, TransitionTimer DEF TurnStates, Paused
      <3>2. Settling(queue, "Active", t)
        BY <3>1 DEF Settling, TurnStates
      <3> QED BY <1>7, <2>1, <3>2, UpdateRestores DEF UnpauseQueue
    <2>2. CASE ~Paused
      BY <1>7, <2>2, UnchangedIInv DEF UnpauseQueue
    <2> QED BY <2>1, <2>2
  <1>8. ASSUME OnSecondElapsed PROVE IInv'
    <2> DEFINE left == timer.leftSeconds - 1
               t == [timer EXCEPT !.leftSeconds = left]
               out == [t EXCEPT !.running = FALSE]
    <2>1. timer.running /\ timer.leftSeconds \in 1 .. TurnTime
      BY <1>8, TurnTimeAssumption DEF OnSecondElapsed, Timers
    <2>2. /\ t \in Timers /\ t.running = timer.running /\ t.leftSeconds = left
          /\ out \in Timers /\ ~out.running
      <3>1. /\ timer.leftSeconds - 1 \in 0 .. TurnTime
            /\ timer = [leftSeconds |-> timer.leftSeconds, running |-> timer.running]
            /\ timer.running \in BOOLEAN
        BY <2>1, TurnTimeAssumption DEF Timers
      <3>2. t = [leftSeconds |-> left, running |-> timer.running]
        BY <3>1
      <3>3. out = Pause(t)
        BY DEF Pause
      <3> HIDE DEF t, out
      <3>4. t \in Timers /\ t.running = timer.running /\ t.leftSeconds = left
        BY <3>1, <3>2 DEF Timers
      <3> QED BY <3>3, <3>4, TimerMethods
    <2>3. CASE left < 1
      <3>1. EndCurrentTurnWith(out)
        BY <1>8, <2>1, <2>3 DEF OnSecondElapsed
      <3> HIDE DEF out
      <3> QED BY <2>2, <3>1, EndTurnRestores
    <2>4. CASE left >= 1
      <3>1. timer' = t /\ queue' = queue /\ state' = state
        BY <1>8, <2>1, <2>4 DEF OnSecondElapsed
      <3>2. left \in 1 .. TurnTime
        BY <2>1, <2>4, TurnTimeAssumption
      <3> HIDE DEF t
      <3> QED BY <2>2, <3>1, <3>2
              DEF IInv, TypeOK, NoDuplicates, StateMatchesQueue,
                  ClockRunsWhileContested, NoStaleClock, Paused
    <2>5. left < 1 \/ left >= 1
      BY <2>1
    <2> QED BY <2>3, <2>4, <2>5
  <1>9. CASE UNCHANGED turnVars
    BY <1>9, UnchangedIInv
  <1> QED BY <1>1, <1>2, <1>3, <1>4, <1>5, <1>6, <1>7, <1>8, <1>9 DEF Next

-----------------------------------------------------------------------------
\* The inductive invariant holds of every behaviour.
THEOREM Invariance == Spec => []IInv
  BY InitIInv, NextIInv, PTL DEF Spec

\* The variables keep their types, with a clock that never shows more than a
\* turn or less than nothing.
THEOREM TypeCorrect == Spec => []TypeOK
  BY Invariance, PTL DEF IInv

\* No interleaving of joins, bypasses and removals puts a user in the queue
\* twice.
THEOREM NoDuplicatesHolds == Spec => []NoDuplicates
  BY Invariance, PTL DEF IInv

\* Unless paused, the state says how many users the queue holds.
THEOREM StateMatchesQueueHolds == Spec => []StateMatchesQueue
  BY Invariance, PTL DEF IInv

\* Unless paused, the clock runs exactly while somebody waits, with between a
\* second and a turn on it.
THEOREM ClockRunsHolds == Spec => []ClockRunsWhileContested
  BY Invariance, PTL DEF IInv

\* No interval runs on an empty clock, paused or not.
THEOREM NoStaleClockHolds == Spec => []NoStaleClock
  BY Invariance, PTL DEF IInv
-----------------------------------------------------------------------------
(* The controller implements the abstract line.                            *)

\* updateStateMachine neither pauses nor unpauses.
LEMMA UpdateKeepsPaused ==
    ASSUME NEW q, NEW s, NEW t, s \in TurnStates, UpdateStateMachine(q, s, t)
    PROVE  queue' = q /\ (Paused' <=> s = "Active_Paused")
  BY DEF UpdateStateMachine, StateFor, Paused

\* The end of a turn is a step of the line, or nothing when nobody is in it.
LEMMA EndTurnAdvances ==
    ASSUME IInv, NEW t, EndCurrentTurnWith(t)
    PROVE  [Line!Advance]_<<queue, Paused>>
  <1>1. state \in TurnStates
    BY InvFacts
  <1>2. queue' = Dequeue(queue) /\ (Paused' <=> Paused)
    BY <1>1, UpdateKeepsPaused DEF EndCurrentTurnWith, Paused
  <1>3. Paused' = Paused
    BY <1>2 DEF Paused
  <1> QED BY <1>2, <1>3 DEF Line!Advance, Dequeue

\* Every step of the controller is a step of the line or leaves it alone.
LEMMA StepSimulation == IInv /\ [Next]_turnVars => [Line!Next]_(Line!vars)
  <1> SUFFICES ASSUME IInv, [Next]_turnVars
               PROVE  Line!Next \/ (queue' = queue /\ Paused' = Paused)
    BY DEF Line!vars
  <1>0. state \in TurnStates
    BY InvFacts
  <1>i. \A q : Line!InLine(q) = InLine(q)
    BY DEF Line!InLine, InLine
  <1>w. \A q, u : Line!Without(q, u) = Without(q, u)
    BY DEF Line!Without, Without, Line!Position, Position, Line!InLine, InLine
  <1>a. ASSUME UNCHANGED turnVars PROVE queue' = queue /\ Paused' = Paused
    BY <1>a DEF turnVars, Paused
  <1>b. ASSUME NEW q, NEW t, UpdateStateMachine(q, state, t)
        PROVE  queue' = q /\ Paused' = Paused
    <2>1. queue' = q /\ (Paused' <=> Paused)
      BY <1>0, <1>b, UpdateKeepsPaused DEF Paused
    <2> QED BY <2>1 DEF Paused
  <1>c. ASSUME NEW t, EndCurrentTurnWith(t)
        PROVE  Line!Advance \/ (queue' = queue /\ Paused' = Paused)
    BY <1>c, EndTurnAdvances
  <1>1. ASSUME NEW u \in Users, AddUser(u)
        PROVE  Line!Join(u) \/ (queue' = queue /\ Paused' = Paused)
    <2>1. CASE UNCHANGED turnVars
      BY <1>a, <2>1
    <2>2. CASE /\ ~UserInQueue(u) /\ ~Paused
               /\ UpdateStateMachine(Append(queue, u), state, timer)
      <3>1. queue' = Append(queue, u) /\ Paused' = Paused
        BY <1>b, <2>2
      <3> QED BY <1>i, <2>2, <3>1 DEF Line!Join, UserInQueue
    <2> QED BY <1>1, <2>1, <2>2 DEF AddUser
  <1>2. ASSUME NEW u \in Users, RemoveUser(u)
        PROVE  Line!Leave(u) \/ Line!Advance \/ (queue' = queue /\ Paused' = Paused)
    <2>1. CASE AtHead(u) /\ EndCurrentTurn
      BY <1>c, <2>1 DEF EndCurrentTurn
    <2>2. CASE /\ UserInQueue(u) /\ ~Paused
               /\ UpdateStateMachine(Without(queue, u), state, timer)
      <3>1. queue' = Without(queue, u) /\ Paused' = Paused
        BY <1>b, <2>2
      <3> QED BY <1>i, <1>w, <2>2, <3>1 DEF Line!Leave, UserInQueue
    <2>3. CASE UNCHANGED turnVars
      BY <1>a, <2>3
    <2> QED BY <1>2, <2>1, <2>2, <2>3 DEF RemoveUser
  <1>3. ASSUME NEW u \in Users, BypassTurn(u) PROVE Line!Preempt(u)
    BY <1>3, <1>b, <1>w DEF BypassTurn, Line!Preempt
  <1>4. ASSUME EndCurrentTurn
        PROVE  Line!Advance \/ (queue' = queue /\ Paused' = Paused)
    BY <1>4, <1>c DEF EndCurrentTurn
  <1>5. ASSUME ClearTurns PROVE Line!Clear
    BY <1>5, <1>b DEF ClearTurns, Line!Clear
  <1>6. ASSUME PauseQueue PROVE Line!Freeze \/ (queue' = queue /\ Paused' = Paused)
    <2>1. CASE UNCHANGED turnVars
      BY <1>a, <2>1
    <2>2. CASE UpdateStateMachine(queue, "Active_Paused",
                   TransitionToState(state, "Active_Paused", timer))
      <3>1. queue' = queue /\ Paused'
        BY <2>2, UpdateKeepsPaused DEF TurnStates
      <3>2. Paused' = TRUE
        BY <3>1 DEF Paused
      <3> QED BY <3>1, <3>2 DEF Line!Freeze
    <2> QED BY <1>6, <2>1, <2>2 DEF PauseQueue
  <1>7. ASSUME UnpauseQueue PROVE Line!Thaw \/ (queue' = queue /\ Paused' = Paused)
    <2>1. CASE UNCHANGED turnVars
      BY <1>a, <2>1
    <2>2. CASE UpdateStateMachine(queue, "Active",
                   TransitionToState(state, "Active", timer))
      <3>1. queue' = queue /\ ~Paused'
        BY <2>2, UpdateKeepsPaused DEF TurnStates
      <3>2. Paused' = FALSE
        BY <3>1 DEF Paused
      <3> QED BY <3>1, <3>2 DEF Line!Thaw
    <2> QED BY <1>7, <2>1, <2>2 DEF UnpauseQueue
  <1>8. ASSUME OnSecondElapsed
        PROVE  Line!Advance \/ (queue' = queue /\ Paused' = Paused)
    <2>1. (\E t : EndCurrentTurnWith(t)) \/ UNCHANGED <<queue, state>>
      BY <1>8 DEF OnSecondElapsed
    <2>2. CASE UNCHANGED <<queue, state>>
      BY <2>2 DEF Paused
    <2> QED BY <1>c, <2>1, <2>2
  <1>9. CASE UNCHANGED turnVars
    BY <1>9, <1>a
  <1> QED BY <1>1, <1>2, <1>3, <1>4, <1>5, <1>6, <1>7, <1>8, <1>9
          DEF Next, Line!Next

\* The controller implements the abstract line: users join only at its back and
\* not while it is frozen, and only its head, a user who leaves or the staff
\* change it otherwise.  (That the fairness of the line is implemented too is
\* model-checked.)
THEOREM ImplementsLineSafety == Spec => Line!Safety
  <1>1. Init => Line!Init
    BY DEF Init, Line!Init, Paused
  <1> QED BY <1>1, Invariance, StepSimulation, PTL DEF Spec, Line!Safety

-----------------------------------------------------------------------------
(* The order of the queue and the wait a user is told.                     *)

\* Unless somebody is put in front, the queue stays in order.
LEMMA OrderlySteps ==
    ASSUME IInv,
           \/ \E u \in Users : AddUser(u) \/ RemoveUser(u)
           \/ EndCurrentTurn \/ ClearTurns \/ PauseQueue \/ UnpauseQueue
           \/ OnSecondElapsed
           \/ UNCHANGED turnVars
    PROVE  InOrder(Users, queue, queue')
  <1> USE DEF InOrder
  <1>1. ASSUME NEW t, EndCurrentTurnWith(t)
        PROVE  queue' = queue \/ (queue # <<>> /\ queue' = Dequeue(queue))
    BY <1>1 DEF EndCurrentTurnWith, UpdateStateMachine, Dequeue
  <1>2. ASSUME NEW u \in Users, AddUser(u) PROVE InOrder(Users, queue, queue')
    BY <1>2 DEF AddUser, UserInQueue, UpdateStateMachine, turnVars
  <1>3. ASSUME NEW u \in Users, RemoveUser(u) PROVE InOrder(Users, queue, queue')
    BY <1>1, <1>3 DEF RemoveUser, EndCurrentTurn, UserInQueue, UpdateStateMachine, turnVars
  <1>4. ClearTurns => queue' = <<>>
    BY DEF ClearTurns, UpdateStateMachine
  <1>5. PauseQueue \/ UnpauseQueue => queue' = queue
    BY DEF PauseQueue, UnpauseQueue, UpdateStateMachine, turnVars
  <1>6. OnSecondElapsed => queue' = queue \/ (queue # <<>> /\ queue' = Dequeue(queue))
    BY <1>1 DEF OnSecondElapsed
  <1>7. EndCurrentTurn => queue' = queue \/ (queue # <<>> /\ queue' = Dequeue(queue))
    BY <1>1 DEF EndCurrentTurn
  <1> QED BY <1>2, <1>3, <1>4, <1>5, <1>6, <1>7 DEF turnVars

\* All that can happen to the queue in one step.
LEMMA QueueSteps ==
    ASSUME IInv, [Next]_turnVars
    PROVE  \/ InOrder(Users, queue, queue')
           \/ \E u \in Users : queue' = <<u>> \o Without(queue, u)
  <1>1. ASSUME NEW u \in Users, BypassTurn(u) PROVE queue' = <<u>> \o Without(queue, u)
    BY <1>1 DEF BypassTurn, UpdateStateMachine
  <1> QED BY <1>1, OrderlySteps DEF Next

LEMMA StepOvertaken == IInv /\ [Next]_turnVars => OvertakenOnlyAtHead
  <1> SUFFICES ASSUME IInv, [Next]_turnVars,
                      NEW u \in InLine(queue) \cap InLine(queue'),
                      NEW v \in InLine(queue) \cap InLine(queue'),
                      Position(queue, u) < Position(queue, v)
               PROVE  Position(queue', u) < Position(queue', v) \/ Position(queue', v) = 1
    BY DEF OvertakenOnlyAtHead
  <1>1. queue \in Seq(Users) /\ NoRepeats(queue)
    BY InvFacts
  <1>2. CASE InOrder(Users, queue, queue')
    BY <1>1, <1>2, OrderKept
  <1>3. ASSUME NEW a \in Users, queue' = <<a>> \o Without(queue, a)
        PROVE  Position(queue', u) < Position(queue', v) \/ Position(queue', v) = 1
    BY <1>1, <1>3, FrontPosition, FrontOvertakes
  <1> QED BY <1>2, <1>3, QueueSteps

\* Users who stay in the queue keep their order, but for whoever is put in front.
THEOREM NobodyOvertakenHolds == Spec => NobodyOvertaken
  BY Invariance, StepOvertaken, PTL DEF Spec, NobodyOvertaken

\* Whole turns of waiting.
LEMMA WholeTurns ==
    ASSUME NEW m \in Int, NEW n \in Int, m <= n
    PROVE  /\ m * TurnTime \in Int /\ m * TurnTime <= n * TurnTime
           /\ TurnTime + (n - 1) * TurnTime = n * TurnTime
  <1>1. TurnTime \in Nat
    BY TurnTimeAssumption
  <1>2. (n - m) \in Nat /\ (n - m) * TurnTime >= 0
    BY <1>1
  <1>3. n * TurnTime = m * TurnTime + (n - m) * TurnTime
    BY <1>1
  <1>4. TurnTime + (n - 1) * TurnTime = n * TurnTime
    BY <1>1
  <1>5. m * TurnTime \in Int /\ (n - m) * TurnTime \in Int
    BY <1>1, <1>2
  <1> QED BY <1>2, <1>3, <1>4, <1>5

\* Between two contested moments the clock is what it was, or has lost a second,
\* or shows a whole turn because the queue has moved up.
LEMMA ContestedSteps ==
    ASSUME IInv, [Next]_turnVars, state = "Active", state' = "Active"
    PROVE  \/ queue' = queue /\ timer' = timer
           \/ queue # <<>> /\ queue' = Dequeue(queue) /\ timer' = Arm
           \/ OnSecondElapsed /\ queue' = queue
                 /\ timer' = [timer EXCEPT !.leftSeconds = @ - 1]
           \/ \E u \in Users \ InLine(queue) : queue' = Append(queue, u) /\ timer' = timer
           \/ \E u \in InLine(queue) : queue' = Without(queue, u) /\ timer' = timer
           \/ \E u \in Users : queue' = <<u>> \o Without(queue, u) /\ timer' = timer
  <1>0. ~Paused /\ Len(queue) > 1 /\ queue # <<>> /\ queue \in Seq(Users)
    BY InvFacts DEF Paused
  <1>1. ASSUME NEW q, NEW t, UpdateStateMachine(q, state, t)
        PROVE  queue' = q /\ timer' = t /\ Len(q) > 1
    BY <1>1 DEF UpdateStateMachine, StateFor, TransitionToState
  <1>2. ASSUME NEW t, EndCurrentTurnWith(t)
        PROVE  queue # <<>> /\ queue' = Dequeue(queue) /\ timer' = Arm
    BY <1>0, <1>1, <1>2 DEF EndCurrentTurnWith
  <1>3. ASSUME NEW u \in Users, AddUser(u)
        PROVE  \/ queue' = queue /\ timer' = timer
               \/ \E v \in Users \ InLine(queue) : queue' = Append(queue, v) /\ timer' = timer
    <2>1. CASE UNCHANGED turnVars
      BY <2>1 DEF turnVars
    <2>2. CASE u \notin InLine(queue) /\ UpdateStateMachine(Append(queue, u), state, timer)
      <3>1. queue' = Append(queue, u) /\ timer' = timer
        BY <1>1, <2>2
      <3> QED BY <2>2, <3>1
    <2> QED BY <1>3, <2>1, <2>2 DEF AddUser, UserInQueue
  <1>4. ASSUME NEW u \in Users, RemoveUser(u)
        PROVE  \/ queue' = queue /\ timer' = timer
               \/ queue # <<>> /\ queue' = Dequeue(queue) /\ timer' = Arm
               \/ \E v \in InLine(queue) : queue' = Without(queue, v) /\ timer' = timer
    BY <1>1, <1>2, <1>4 DEF RemoveUser, EndCurrentTurn, UserInQueue, turnVars
  <1>5. ASSUME NEW u \in Users, BypassTurn(u)
        PROVE  queue' = <<u>> \o Without(queue, u) /\ timer' = timer
    BY <1>1, <1>5 DEF BypassTurn
  <1>6. ~ClearTurns
    <2> SUFFICES ASSUME ClearTurns PROVE FALSE
      OBVIOUS
    <2>1. Len(<<>>) > 1
      BY <1>1 DEF ClearTurns
    <2> QED BY <2>1
  <1>7. ~PauseQueue
    BY <1>0 DEF PauseQueue, UpdateStateMachine, StateFor
  <1>8. UnpauseQueue => queue' = queue /\ timer' = timer
    BY <1>0 DEF UnpauseQueue, turnVars
  <1>9. OnSecondElapsed => \/ queue # <<>> /\ queue' = Dequeue(queue) /\ timer' = Arm
                           \/ queue' = queue /\ timer' = [timer EXCEPT !.leftSeconds = @ - 1]
    BY <1>2 DEF OnSecondElapsed
  <1>10. EndCurrentTurn => queue # <<>> /\ queue' = Dequeue(queue) /\ timer' = Arm
    BY <1>2 DEF EndCurrentTurn
  <1> QED BY <1>3, <1>4, <1>5, <1>6, <1>7, <1>8, <1>9, <1>10 DEF Next, turnVars

\* A second of a contested clock: it ends the turn when it was the last.
LEMMA ContestedSecond ==
    ASSUME IInv, OnSecondElapsed, state = "Active", state' = "Active"
    PROVE  \/ /\ timer.leftSeconds = 1 /\ queue # <<>>
              /\ queue' = Dequeue(queue) /\ timer' = Arm
           \/ queue' = queue /\ timer' = [timer EXCEPT !.leftSeconds = @ - 1]
  <1>1. timer.leftSeconds \in 1 .. TurnTime /\ Len(queue) > 1 /\ queue # <<>>
    BY InvFacts, TurnTimeAssumption DEF Timers
  <1>2. ASSUME NEW t, EndCurrentTurnWith(t) PROVE queue' = Dequeue(queue) /\ timer' = Arm
    BY <1>2 DEF EndCurrentTurnWith, UpdateStateMachine, StateFor, TransitionToState
  <1> QED BY <1>1, <1>2, TurnTimeAssumption DEF OnSecondElapsed

\* A wait depends on the place in the queue and on the clock.
LEMMA WaitingTimes ==
    ASSUME NEW q, NEW t, NEW u, NEW r, NEW s,
           Position(q, u) \in Nat, Position(r, u) \in Nat,
           t.leftSeconds \in Nat, s.leftSeconds \in Nat
    PROVE  /\ Position(r, u) <= Position(q, u) /\ s.leftSeconds <= t.leftSeconds =>
                 WaitingTime(r, s, u) <= WaitingTime(q, t, u)
           /\ Position(r, u) = Position(q, u) - 1 /\ s.leftSeconds = TurnTime =>
                 WaitingTime(r, s, u) = WaitingTime(q, t, u) - t.leftSeconds
           /\ Position(r, u) = Position(q, u) /\ s.leftSeconds = t.leftSeconds - 1 =>
                 WaitingTime(r, s, u) = WaitingTime(q, t, u) - 1
  <1> DEFINE m == Position(r, u) - 2
             n == Position(q, u) - 2
  <1>1. m \in Int /\ n \in Int /\ TurnTime \in Nat
    BY TurnTimeAssumption
  <1>2. WaitingTime(q, t, u) = t.leftSeconds + n * TurnTime
    BY DEF WaitingTime
  <1>3. WaitingTime(r, s, u) = s.leftSeconds + m * TurnTime
    BY DEF WaitingTime
  <1>4. m <= n <=> Position(r, u) <= Position(q, u)
    OBVIOUS
  <1>5. /\ m = n <=> Position(r, u) = Position(q, u)
        /\ m = n - 1 <=> Position(r, u) = Position(q, u) - 1
    OBVIOUS
  <1> HIDE DEF m, n
  <1>6. /\ m * TurnTime \in Int /\ n * TurnTime \in Int
        /\ m <= n => m * TurnTime <= n * TurnTime
        /\ TurnTime + (n - 1) * TurnTime = n * TurnTime
    BY <1>1, WholeTurns
  <1>7. m <= n /\ s.leftSeconds <= t.leftSeconds =>
           WaitingTime(r, s, u) <= WaitingTime(q, t, u)
    BY <1>1, <1>2, <1>3, <1>6
  <1>8. m = n - 1 /\ s.leftSeconds = TurnTime =>
           WaitingTime(r, s, u) = WaitingTime(q, t, u) - t.leftSeconds
    BY <1>1, <1>2, <1>3, <1>6
  <1>9. m = n /\ s.leftSeconds = t.leftSeconds - 1 =>
           WaitingTime(r, s, u) = WaitingTime(q, t, u) - 1
    BY <1>1, <1>2, <1>3, <1>6
  <1> QED BY <1>4, <1>5, <1>7, <1>8, <1>9

LEMMA StepWaitKept == IInv /\ [Next]_turnVars => WaitKept
  <1> SUFFICES ASSUME IInv, [Next]_turnVars, state = "Active", state' = "Active",
                      NEW u \in Users, StillWaiting(u),
                      Ahead(queue', u) \subseteq Ahead(queue, u)
               PROVE  /\ WaitingTime(queue', timer', u) <= WaitingTime(queue, timer, u)
                      /\ OnSecondElapsed =>
                           WaitingTime(queue', timer', u) = WaitingTime(queue, timer, u) - 1
    BY DEF WaitKept
  <1> DEFINE p == Position(queue, u)
             after == Position(queue', u)
  <1>0. IInv'
    BY NextIInv
  <1>1. /\ queue \in Seq(Users) /\ NoRepeats(queue) /\ queue' \in Seq(Users)
        /\ u \in InLine(queue) /\ u \in InLine(queue')
        /\ p \in 1 .. Len(queue) /\ queue[p] = u /\ p > 1
        /\ after \in 1 .. Len(queue') /\ queue'[after] = u /\ after > 1
    <2>1. queue \in Seq(Users) /\ NoRepeats(queue) /\ queue' \in Seq(Users)
      BY <1>0 DEF IInv, TypeOK, NoDuplicates
    <2> QED BY <2>1, PositionLemma DEF StillWaiting
  <1>2. timer.leftSeconds \in 1 .. TurnTime /\ timer'.leftSeconds \in 1 .. TurnTime
        /\ timer \in Timers
    <2>1. timer.running /\ timer \in Timers
      BY InvFacts
    <2>2. timer'.running /\ timer' \in Timers /\ (timer'.running => timer'.leftSeconds >= 1)
      <3>1. ~Paused' /\ Len(queue') > 1
        BY <1>0 DEF Paused, IInv, StateMatchesQueue
      <3> QED BY <1>0, <3>1 DEF IInv, ClockRunsWhileContested, TypeOK, NoStaleClock
    <2>3. timer.leftSeconds >= 1
      BY <2>1, InvFacts
    <2> QED BY <2>1, <2>2, <2>3, TurnTimeAssumption DEF Timers
  <1>3. queue # <<>> /\ queue' = Dequeue(queue) => after = p - 1
    BY <1>1, DequeuePosition
  <1>4. Arm.leftSeconds = TurnTime
    BY DEF Arm
  <1>5. ASSUME timer' = [timer EXCEPT !.leftSeconds = @ - 1]
        PROVE  timer'.leftSeconds = timer.leftSeconds - 1
    BY <1>2, <1>5 DEF Timers
  <1>6. p \in Nat /\ after \in Nat /\ timer.leftSeconds \in Nat /\ timer'.leftSeconds \in Nat
    BY <1>1, <1>2, TurnTimeAssumption
  <1>7. after <= p /\ timer'.leftSeconds <= timer.leftSeconds =>
           WaitingTime(queue', timer', u) <= WaitingTime(queue, timer, u)
    BY <1>6, WaitingTimes
  <1>8. after = p - 1 /\ timer'.leftSeconds = TurnTime =>
           WaitingTime(queue', timer', u) = WaitingTime(queue, timer, u) - timer.leftSeconds
    BY <1>6, WaitingTimes
  <1>9. after = p /\ timer'.leftSeconds = timer.leftSeconds - 1 =>
           WaitingTime(queue', timer', u) = WaitingTime(queue, timer, u) - 1
    BY <1>6, WaitingTimes
  <1>10. WaitingTime(queue, timer, u) \in Int
    <2>1. (p - 2) * TurnTime \in Int
      BY <1>6, TurnTimeAssumption, WholeTurns
    <2> HIDE DEF p
    <2> QED BY <1>6, <2>1 DEF WaitingTime, p
  <1>11. OnSecondElapsed =>
            WaitingTime(queue', timer', u) = WaitingTime(queue, timer, u) - 1
    <2> SUFFICES ASSUME OnSecondElapsed
                 PROVE  WaitingTime(queue', timer', u) = WaitingTime(queue, timer, u) - 1
      OBVIOUS
    <2>1. CASE timer.leftSeconds = 1 /\ queue # <<>> /\ queue' = Dequeue(queue) /\ timer' = Arm
      BY <1>3, <1>4, <1>8, <2>1
    <2>2. CASE queue' = queue /\ timer' = [timer EXCEPT !.leftSeconds = @ - 1]
      BY <1>5, <1>9, <2>2
    <2> QED BY <2>1, <2>2, ContestedSecond
  <1>12. WaitingTime(queue', timer', u) <= WaitingTime(queue, timer, u)
    <2>1. CASE queue' = queue /\ timer' = timer
      BY <1>6, <1>7, <2>1
    <2>2. CASE queue # <<>> /\ queue' = Dequeue(queue) /\ timer' = Arm
      BY <1>3, <1>4, <1>6, <1>8, <1>10, <2>2
    <2>3. CASE OnSecondElapsed
      BY <1>10, <1>11, <2>3
    <2>4. ASSUME NEW v \in Users \ InLine(queue), queue' = Append(queue, v), timer' = timer
          PROVE  WaitingTime(queue', timer', u) <= WaitingTime(queue, timer, u)
      <3>1. after = p
        BY <1>1, <2>4, AppendPosition
      <3> QED BY <1>6, <1>7, <2>4, <3>1
    <2>5. ASSUME NEW v \in InLine(queue), queue' = Without(queue, v), timer' = timer
          PROVE  WaitingTime(queue', timer', u) <= WaitingTime(queue, timer, u)
      <3>1. u # v
        BY <1>1, <2>5, WithoutNoRepeats
      <3>2. after <= p
        BY <1>1, <2>5, <3>1, WithoutPosition
      <3> QED BY <1>6, <1>7, <2>5, <3>2
    <2>6. ASSUME NEW a \in Users, queue' = <<a>> \o Without(queue, a), timer' = timer
          PROVE  WaitingTime(queue', timer', u) <= WaitingTime(queue, timer, u)
      <3>1. /\ u = a => after = 1
            /\ u # a => after = IF a \in InLine(queue) /\ Position(queue, a) < p
                                THEN p ELSE p + 1
        BY <1>1, <2>6, FrontPosition
      <3>2. a \in Ahead(queue', u)
        <4>1. Without(queue, a) \in Seq(Users)
          BY <1>1, WithoutNoRepeats
        <4>2. queue'[1] = a
          BY <2>6, <4>1
        <4>3. 1 \in 1 .. Position(queue', u) - 1
          BY <1>1
        <4> QED BY <4>2, <4>3 DEF Ahead
      <3>3. PICK i \in 1 .. p - 1 : queue[i] = a
        BY <3>2 DEF Ahead
      <3>4. a \in InLine(queue) /\ Position(queue, a) = i /\ i < p
        BY <1>1, <3>3, FoundAt DEF InLine
      <3> QED BY <1>1, <1>6, <1>7, <2>6, <3>1, <3>4
    <2> QED BY <2>1, <2>2, <2>3, <2>4, <2>5, <2>6, ContestedSteps
  <1> QED BY <1>11, <1>12

\* A wait that was told never grows unless somebody was put ahead, and a second
\* takes a second off it, the second that ends a turn included.
THEOREM PromisedWaitKeptHolds == Spec => PromisedWaitKept
  BY Invariance, StepWaitKept, PTL DEF Spec, PromisedWaitKept
=============================================================================
