--------------------------- MODULE TurnServer ---------------------------
(***************************************************************************)
(* The turn queue as the server uses it: Connections and TurnController    *)
(* composed by the handlers of CollabVMServer.ts, each of which is one     *)
(* step.  A handler may call several methods of the controller; the state  *)
(* between two of its calls is seen by nobody.                             *)
(*                                                                         *)
(* Authentication and the turn whitelist, which only refuse requests, are  *)
(* off, as in config.example.toml.  A member of the staff is one for as    *)
(* long as he is connected.                                                *)
(***************************************************************************)
EXTENDS Connections

CONSTANTS
    Staff,       \* users with rank Admin (who may do all a Moderator may)
    TurnTime,    \* config.collabvm.turnTime
    TurnMaximum  \* config.collabvm.turnlimit.maximum, with the limit enabled

ASSUME TurnServerAssumption ==
    /\ Staff \subseteq Users
    /\ TurnTime \in Nat \ {0}
    /\ TurnMaximum \in Nat

VARIABLES
    queue, state, timer,   \* of TurnController
    votesAllowed,          \* the flag of CollabVMServer.ts:54
    muted,                 \* the addresses whose IPData.muted is set
    banning,               \* users whose ban() awaits BanUser
    leftBehind,            \* history: who was not removed from a paused queue
    displaced              \* history: who was displaced by a login

Turns == INSTANCE TurnController

turnVars == <<queue, state, timer>>
adminVars == <<votesAllowed, muted, banning>>
historyVars == <<leftBehind, displaced>>
serverVars == <<connVars, turnVars, adminVars, historyVars>>

-----------------------------------------------------------------------------
(* Connections.                                                            *)

Opens(u) ==
    /\ ConnectionOpened(u)
    /\ UNCHANGED <<turnVars, adminVars, historyVars>>

Joins(u) ==
    /\ ConnectToNode(u)
    /\ UNCHANGED <<turnVars, adminVars, historyVars>>

SocketCloses(u) ==
    /\ CloseSocket(u)
    /\ UNCHANGED <<turnVars, adminVars, historyVars>>

\* Fault: a user whose socket the server closed itself is not taken out.
LeaveTurnsIfOpen(u) ==
    IF u \in Connected /\ sock[u] = "open"
    THEN /\ Turns!RemoveUser(u)
         /\ leftBehind' = IF u \in InLine(queue') THEN leftBehind \cup {u}
                          ELSE leftBehind
    ELSE UNCHANGED <<turnVars, leftBehind>>

\* connectionClosed: the turn queue is left only by a user who was still among
\* the clients.
LeaveTurns(u) ==
    IF u \in Connected
    THEN /\ Turns!RemoveUser(u)
         /\ leftBehind' = IF u \in InLine(queue') THEN leftBehind \cup {u}
                          ELSE leftBehind
    ELSE UNCHANGED <<turnVars, leftBehind>>

Disconnects(u) ==
    /\ Disconnected(u)
    /\ LeaveTurns(u)
    /\ UNCHANGED <<adminVars, displaced>>

LoginDisplaces(u) ==
    /\ Displaced(u)
    /\ LeaveTurns(u)
    /\ displaced' = displaced \cup {u}
    /\ UNCHANGED adminVars

-----------------------------------------------------------------------------
(* Turns.                                                                  *)

InQueueFrom(ip) == {u \in InLine(queue) : IPOf[u] = ip}

\* Fault: only clients are counted, not whoever else is in the queue.
WithinTurnLimitClients(u) ==
    ~(Cardinality(InQueueFrom(IPOf[u]) \cap Connected) > TurnMaximum)

\* The user asking is not counted: he is not in the queue yet.
WithinTurnLimit(u) == ~(Cardinality(InQueueFrom(IPOf[u])) > TurnMaximum)

\* Fault: the mute is not looked at.
TurnRequestedMuted(u) ==
    /\ u \in Talking \cap joined
    /\ u \notin InLine(queue)
    /\ WithinTurnLimit(u)
    /\ Turns!AddUser(u)
    /\ UNCHANGED <<connVars, adminVars, historyVars>>

\* onTurnRequest(user, false).
TurnRequested(u) ==
    /\ u \in Talking \cap joined
    /\ u \notin InLine(queue)
    /\ IPOf[u] \notin muted
    /\ WithinTurnLimit(u)
    /\ Turns!AddUser(u)
    /\ UNCHANGED <<connVars, adminVars, historyVars>>

\* onTurnRequest(user, true).
TurnForfeited(u) ==
    /\ u \in Talking \cap joined
    /\ Turns!RemoveUser(u)
    /\ UNCHANGED <<connVars, adminVars, historyVars>>

Second ==
    /\ Turns!OnSecondElapsed
    /\ UNCHANGED <<connVars, adminVars, historyVars>>

-----------------------------------------------------------------------------
(* Staff.  A displaced or closing member of the staff may still be heard.  *)

\* Fault: the user whose turn is ended goes to the back of the queue.
OnAdminEndTurnRequeues(u) ==
    /\ u \in Connected /\ u \in InLine(queue)
    /\ queue' = Append(Without(queue, u), u)
    /\ UNCHANGED <<state, timer, connVars, adminVars, historyVars>>

OnAdminEndTurn(u) ==
    /\ u \in Connected
    /\ Turns!RemoveUser(u)
    /\ UNCHANGED <<connVars, adminVars, historyVars>>

OnAdminClearQueue ==
    /\ Turns!ClearTurns
    /\ UNCHANGED <<connVars, adminVars, historyVars>>

OnAdminBypassTurn(a) ==
    /\ Turns!BypassTurn(a)
    /\ UNCHANGED <<connVars, adminVars, historyVars>>

\* Fault: an empty queue is not paused.
OnAdminToggleTurnsBusy(enabled) ==
    /\ votesAllowed' = enabled
    /\ \/ enabled /\ Turns!UnpauseQueue
       \/ ~enabled /\ queue # <<>> /\ Turns!PauseQueue
       \/ ~enabled /\ queue = <<>> /\ UNCHANGED turnVars
    /\ UNCHANGED <<connVars, muted, banning, historyVars>>

OnAdminToggleTurns(enabled) ==
    /\ votesAllowed' = enabled
    /\ \/ enabled /\ Turns!UnpauseQueue
       \/ ~enabled /\ Turns!PauseQueue
    /\ UNCHANGED <<connVars, muted, banning, historyVars>>

\* Fault: the place the user already has in the queue is kept.
OnAdminIndefiniteTurnAgain(a) ==
    /\ Len(queue) < 4
    /\ queue' = <<a>> \o queue
    /\ state' = "Active_Paused"
    /\ timer' = Turns!TransitionToState(state, "Active_Paused", timer)
    /\ UNCHANGED <<connVars, adminVars, historyVars>>

\* pauseQueue, then bypassTurn: the controller is paused when a is put in
\* front, and its timer is as the pause left it.
OnAdminIndefiniteTurn(a) ==
    /\ queue' = <<a>> \o Without(queue, a)
    /\ state' = "Active_Paused"
    /\ timer' = Turns!TransitionToState(state, "Active_Paused", timer)
    /\ UNCHANGED <<connVars, adminVars, historyVars>>

\* onAdminMuteUser and, when the temporary mute runs out, unmute.
Muted(u) ==
    /\ u \in Connected
    /\ muted' = muted \cup {IPOf[u]}
    /\ UNCHANGED <<connVars, turnVars, votesAllowed, banning, historyVars>>

Unmuted(ip) ==
    /\ ip \in muted
    /\ muted' = muted \ {ip}
    /\ UNCHANGED <<connVars, turnVars, votesAllowed, banning, historyVars>>

\* onAdminBanUser up to its await, and after it.
BanStarts(u) ==
    /\ u \in Connected \ banning
    /\ muted' = muted \cup {IPOf[u]}
    /\ banning' = banning \cup {u}
    /\ UNCHANGED <<connVars, turnVars, votesAllowed, historyVars>>

BanDone(u) ==
    /\ u \in banning
    /\ banning' = banning \ {u}
    /\ sock' = Closing(sock, u)
    /\ UNCHANGED <<clients, joined, turnVars, votesAllowed, muted, historyVars>>

-----------------------------------------------------------------------------
Init ==
    /\ InitConnections
    /\ Turns!Init
    /\ votesAllowed = TRUE
    /\ muted = {}
    /\ banning = {}
    /\ leftBehind = {}
    /\ displaced = {}

StaffStep(a) ==
    /\ a \in Talking
    /\ \/ \E u \in Users : OnAdminEndTurn(u) \/ Muted(u) \/ BanStarts(u)
       \/ OnAdminClearQueue
       \/ OnAdminBypassTurn(a)
       \/ \E enabled \in BOOLEAN : OnAdminToggleTurns(enabled)
       \/ OnAdminIndefiniteTurn(a)

Next ==
    \/ \E u \in Users :
          \/ Opens(u) \/ Joins(u) \/ SocketCloses(u)
          \/ Disconnects(u) \/ LoginDisplaces(u)
          \/ TurnRequested(u) \/ TurnForfeited(u)
          \/ BanDone(u)
    \/ \E a \in Staff : StaffStep(a)
    \/ \E ip \in IPs : Unmuted(ip)
    \/ Second

Spec == Init /\ [][Next]_serverVars

-----------------------------------------------------------------------------
(* Properties.                                                             *)

\* The types of the variables.
TypeOK ==
    /\ TypeOKConnections
    /\ Turns!TypeOK
    /\ votesAllowed \in BOOLEAN
    /\ muted \subseteq IPs
    /\ banning \subseteq Users
    /\ leftBehind \subseteq Users
    /\ displaced \subseteq Users

\* While turns are disabled the queue is paused, whatever indefinite turns and
\* ends of turns come in between (onAdminToggleTurns 706-714).
DisabledIsPaused == ~votesAllowed => Turns!Paused

\* The controller stays well-typed and consistent through the handlers that call it twice
\* (onAdminIndefiniteTurn 716-720) and through disconnects in any state, and
\* agrees with the flag the server keeps beside it.
ControllerConsistent ==
    /\ TypeOK
    /\ Turns!NoDuplicates
    /\ Turns!StateMatchesQueue
    /\ Turns!ClockRunsWhileContested
    /\ Turns!NoStaleClock
    /\ DisabledIsPaused

\* Whoever is in the queue without being a client any more was left there by a
\* paused queue, or asked for the turn after a login had displaced him: no
\* other order of leaving, kicking and asking leaves a turn to nobody
\* (connectionClosed 190-205, removeUser 129-145).
GhostsExplained == InLine(queue) \ Connected \subseteq leftBehind \cup displaced

\* Who is not staff takes at most one place more than the configured maximum
\* per address, whatever mixture of bypasses, ghosts and disconnects the count
\* of onTurnRequest meets (344-351).
TurnLimitPlusOne ==
    \A ip \in IPs : Cardinality(InQueueFrom(ip) \ Staff) <= TurnMaximum + 1

\* Nobody whose address is muted, by staff or for the time a ban takes, enters
\* the queue; only a member of the staff puts himself in front all the same
\* (onTurnRequest 340-342, ban 153-159).
Enters(u) == u \notin InLine(queue) /\ u \in InLine(queue')
MutedStayOut ==
    [][\A u \in Users : Enters(u) /\ IPOf[u] \in muted =>
          u \in Staff /\ Head(queue') = u]_serverVars

\* The handlers of the server, those included that call the controller twice,
\* leave the queue a line as TurnLine describes it: no mixture of requests,
\* disconnects, displacements and staff commands loses, doubles or reorders
\* whoever waits (connectionClosed 190-205, onTurnRequest 323-360, and the
\* commands of staff 654-720).
Line == INSTANCE TurnLine WITH line <- queue, frozen <- Turns!Paused
ImplementsLine == Line!Safety

\* Of two users who stay in the queue the one behind gets ahead of the other
\* only if he is a member of the staff, who then has the turn: nobody else can
\* make his way by asking, leaving and asking again (onTurnRequest 323-360,
\* onAdminBypassTurn 685-688, onAdminIndefiniteTurn 716-720).
OvertakesAsStaff ==
    \A u, v \in InLine(queue) \cap InLine(queue') :
        Position(queue, u) < Position(queue, v) =>
            \/ Position(queue', u) < Position(queue', v)
            \/ v \in Staff /\ Head(queue') = v
OnlyStaffOvertakes == [][OvertakesAsStaff]_serverVars
==========================================================================
