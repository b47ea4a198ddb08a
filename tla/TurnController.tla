------------------------- MODULE TurnController -------------------------
(***************************************************************************)
(* cvmts/src/TurnController.ts and the timer it owns (util/timer.ts): the  *)
(* turn queue, the four-state machine that decides whether the turn clock  *)
(* runs, and the clock.  JavaScript runs one handler at a time, so every   *)
(* public method and every interval callback is one action.  The callback  *)
(* updateCb(getTurnInfo()) that ends each of them is modelled where it is  *)
(* received, in TurnServer.tla; TurnInfo below is what it is given.        *)
(***************************************************************************)
EXTENDS QueueOps

CONSTANTS
    Users,      \* the User objects that ever exist
    TurnTime    \* config.collabvm.turnTime, in seconds

ASSUME TurnTimeAssumption == TurnTime \in Nat \ {0}

VARIABLES
    queue,      \* the turn queue; its head has the turn
    state,      \* the state of the controller
    timer       \* [leftSeconds, running]: running is timerInterval !== undefined

turnVars == <<queue, state, timer>>

TurnStates == {"Inactive", "Active", "Active_OneUser", "Active_Paused"}
Timers == [leftSeconds : 0 .. TurnTime, running : BOOLEAN]

-----------------------------------------------------------------------------
(* util/timer.ts.  t is the timer before the call.                         *)

Arm == [leftSeconds |-> TurnTime, running |-> TRUE]
Disarm == [leftSeconds |-> 0, running |-> FALSE]
Pause(t) == [t EXCEPT !.running = FALSE]
WasArmed(t) == t.leftSeconds # 0
Unpause(t) == IF WasArmed(t) THEN [t EXCEPT !.running = TRUE] ELSE t

-----------------------------------------------------------------------------
(* The state machine.                                                      *)

\* Fault: the clock is not stopped when a single user is left.
OneUserKeepsClock(from, to, t) ==
    CASE to = "Inactive" -> Disarm
      [] to = "Active_OneUser" -> t
      [] to = "Active" ->
            IF from = "Active_Paused" /\ WasArmed(t) THEN Unpause(t) ELSE Arm
      [] to = "Active_Paused" -> Pause(t)

\* The timer after onTurnStateChange: the case for Inactive has no break and
\* falls through into the one for Active_OneUser.
OnTurnStateChange(from, to, t) ==
    CASE to = "Inactive" ->
            LET d == IF from \in {"Active", "Active_OneUser"} THEN Disarm ELSE t
            IN  IF from = "Active" /\ WasArmed(d) THEN Pause(d) ELSE d
      [] to = "Active_OneUser" ->
            IF from = "Active" /\ WasArmed(t) THEN Pause(t) ELSE t
      [] to = "Active" ->
            IF from = "Active_Paused" /\ WasArmed(t) THEN Unpause(t) ELSE Arm
      [] to = "Active_Paused" ->
            IF from # "Inactive" /\ WasArmed(t) THEN Pause(t) ELSE t

\* Fault: the state change handler runs although the state did not change.
TransitionAlways(from, to, t) == OnTurnStateChange(from, to, t)

TransitionToState(from, to, t) ==
    IF from = to THEN t ELSE OnTurnStateChange(from, to, t)

\* The state updateStateMachine moves to: a paused controller stays paused.
StateFor(s, q) ==
    IF s = "Active_Paused" THEN s
    ELSE IF Len(q) > 1 THEN "Active"
    ELSE IF Len(q) = 1 THEN "Active_OneUser"
    ELSE "Inactive"

\* Every mutator ends here, with the queue, state and timer it leaves.
UpdateStateMachine(q, s, t) ==
    /\ queue' = q
    /\ state' = StateFor(s, q)
    /\ timer' = TransitionToState(s, StateFor(s, q), t)

-----------------------------------------------------------------------------
(* Queries.                                                                *)

Paused == state = "Active_Paused"
UserInQueue(u) == u \in InLine(queue)
AtHead(u) == queue # <<>> /\ Head(queue) = u
UserIsActive(u) == state # "Inactive" /\ AtHead(u)

\* getTurnInfo in the state Active: the seconds user u is told to wait.
WaitingTime(q, t, u) ==
    t.leftSeconds + (Position(q, u) - 2) * TurnTime

-----------------------------------------------------------------------------
(* The public methods and the interval callback.                           *)

\* Fault: joining does not look whether the user already waits.
AddUserTwice(u) ==
    ~Paused /\ Len(queue) < 4 /\ UpdateStateMachine(Append(queue, u), state, timer)

\* Fault: joining does not look whether the queue is paused.
AddUserWhilePaused(u) ==
    ~UserInQueue(u) /\ UpdateStateMachine(Append(queue, u), state, timer)

AddUser(u) ==
    \/ /\ ~UserInQueue(u)
       /\ ~Paused
       /\ UpdateStateMachine(Append(queue, u), state, timer)
    \/ /\ UserInQueue(u) \/ Paused
       /\ UNCHANGED turnVars

\* Fault: the clock is not armed for the next turn.
EndCurrentTurnNoArm(t) == UpdateStateMachine(Dequeue(queue), state, t)

\* endCurrentTurn, entered with timer t.
EndCurrentTurnWith(t) ==
    LET rest == Dequeue(queue)
    IN  UpdateStateMachine(rest, state, IF Len(rest) > 1 THEN Arm ELSE t)

EndCurrentTurn == EndCurrentTurnWith(timer)

\* A user who waits in a paused queue is not removed.
RemoveUser(u) ==
    \/ /\ AtHead(u)
       /\ EndCurrentTurn
    \/ /\ UserInQueue(u)
       /\ ~AtHead(u)
       /\ ~Paused
       /\ UpdateStateMachine(Without(queue, u), state, timer)
    \/ /\ ~UserInQueue(u) \/ (Paused /\ ~AtHead(u))
       /\ UNCHANGED turnVars

\* The timer is left alone: the new head inherits what is left of the turn.
BypassTurn(u) == UpdateStateMachine(<<u>> \o Without(queue, u), state, timer)

\* Fault: the queue is emptied behind the state machine's back.
ClearTurnsSilently == queue' = <<>> /\ UNCHANGED <<state, timer>>

ClearTurns == UpdateStateMachine(<<>>, state, timer)

PauseQueue ==
    \/ /\ ~Paused
       /\ UpdateStateMachine(queue, "Active_Paused",
                             TransitionToState(state, "Active_Paused", timer))
    \/ Paused /\ UNCHANGED turnVars

UnpauseQueue ==
    \/ /\ Paused
       /\ UpdateStateMachine(queue, "Active",
                             TransitionToState(state, "Active", timer))
    \/ ~Paused /\ UNCHANGED turnVars

\* Fault: an interval that was removed still fires.
OnSecondElapsedRemoved ==
    /\ timer.leftSeconds >= 0
    /\ timer' = [timer EXCEPT !.leftSeconds = @ - 1]
    /\ UNCHANGED <<queue, state>>

\* The interval fires: the last second removes it and ends the turn.
OnSecondElapsed ==
    LET left == timer.leftSeconds - 1
        t == [timer EXCEPT !.leftSeconds = left]
    IN  /\ timer.running
        /\ \/ /\ left < 1
              /\ EndCurrentTurnWith([t EXCEPT !.running = FALSE])
           \/ /\ left >= 1
              /\ timer' = t
              /\ UNCHANGED <<queue, state>>

-----------------------------------------------------------------------------
Init ==
    /\ queue = <<>>
    /\ state = "Inactive"
    /\ timer = Disarm

Next ==
    \/ \E u \in Users : AddUser(u) \/ RemoveUser(u) \/ BypassTurn(u)
    \/ EndCurrentTurn
    \/ ClearTurns
    \/ PauseQueue
    \/ UnpauseQueue
    \/ OnSecondElapsed

\* An interval that stays armed keeps firing; nobody is obliged to call.
Fairness == WF_turnVars(OnSecondElapsed)

Spec == Init /\ [][Next]_turnVars /\ Fairness
-----------------------------------------------------------------------------
(* Properties.                                                             *)

\* The types of the variables.
TypeOK ==
    /\ queue \in Seq(Users)
    /\ state \in TurnStates
    /\ timer \in Timers

\* A user stands in the queue at most once, whatever order joins, bypasses
\* and removals come in (addUser 120, bypassTurn 148).
NoDuplicates == NoRepeats(queue)

\* Unless a moderator paused it, the state tells how many users are in the
\* queue: none, one, or more (updateStateMachine 99-109).
StateMatchesQueue ==
    ~Paused =>
        /\ state = "Active" <=> Len(queue) > 1
        /\ state = "Active_OneUser" <=> Len(queue) = 1

\* Unless paused, the clock runs exactly while somebody waits, with at least a
\* second and at most a whole turn on it: nobody's turn is cut while he is
\* alone, and a wait is never unbounded (onTurnStateChange 54-96 with the
\* timer's pause, unpause and wasArmed).
ClockRunsWhileContested ==
    ~Paused =>
        /\ timer.running <=> Len(queue) > 1
        /\ timer.running => timer.leftSeconds \in 1 .. TurnTime

\* An interval is never left running with nothing on it: the next second of
\* such a clock would end a turn that has just begun.
NoStaleClock == timer.running => timer.leftSeconds >= 1

\* Nobody is overtaken: two users who stay in the queue keep their order,
\* unless the one behind was put at the head by bypassTurn (147-150).
OvertakenOnlyAtHead ==
    \A u, v \in InLine(queue) \cap InLine(queue') :
        Position(queue, u) < Position(queue, v) =>
            Position(queue', u) < Position(queue', v) \/ Position(queue', v) = 1
NobodyOvertaken == [][OvertakenOnlyAtHead]_turnVars

\* While the queue is active, the wait a user was told (getTurnInfo 227-238)
\* never grows unless somebody was put ahead of him, and each second of the
\* clock takes exactly one second off it, the second that ends a turn too.
StillWaiting(u) ==
    /\ u \in InLine(queue) /\ Position(queue, u) > 1
    /\ u \in InLine(queue') /\ Position(queue', u) > 1
WaitKept ==
    (state = "Active" /\ state' = "Active") =>
        \A u \in Users :
            StillWaiting(u) /\ Ahead(queue', u) \subseteq Ahead(queue, u) =>
                /\ WaitingTime(queue', timer', u) <= WaitingTime(queue, timer, u)
                /\ OnSecondElapsed =>
                     WaitingTime(queue', timer', u) = WaitingTime(queue, timer, u) - 1
PromisedWaitKept == [][WaitKept]_turnVars

\* A waiting user is served or leaves in the end, however others join, leave
\* and end their turns, provided staff stop pausing and bypassing: nothing in
\* the state machine can lose the clock of a contested queue.
Waits(u) == u \in InLine(queue) /\ Position(queue, u) > 1
StaffCalm ==
    /\ <>[]~Paused
    /\ <>[][\A u \in Users : ~BypassTurn(u)]_turnVars
WaiterServed == StaffCalm => \A u \in Users : Waits(u) ~> ~Waits(u)

\* The controller implements the abstract line, its fairness included: a turn
\* that stays contested and unfrozen is ended by the clock.
Line == INSTANCE TurnLine WITH line <- queue, frozen <- Paused
ImplementsLine == Line!Spec

\* "active, but explicitly paused by an admin or moderator"
\* (TurnController.ts:12): the clock of a paused queue stands still.
PausedClockStopped == Paused => ~timer.running
=========================================================================
