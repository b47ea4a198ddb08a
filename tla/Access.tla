------------------------------- MODULE Access -------------------------------
(***************************************************************************)
(* How a client gets in, is kept alive, is muted or banned, and goes:      *)
(* the WebSocket front (net/ws/WSServer.ts, WSClient.ts), the ban manager  *)
(* and its database (BanManager.ts, Database.ts), the keep-alive, the      *)
(* chat limiter, mute and ban of a user (User.ts, RateLimiter.ts), over    *)
(* the shared data of addresses (AddressData).                             *)
(*                                                                         *)
(* The check of the ban list and the write to it are awaited: the query    *)
(* and what follows it are two steps.  A rejected promise of either is     *)
(* handled nowhere and ends the process, and so does a socket that is      *)
(* reset during the check.  Administrators are not clients of this model:  *)
(* what they ask for may come at any time, and again.  So may a kick,      *)
(* which stands for every call of kick() and closeConnection() by others   *)
(* (an administrator, the connection limit, the other rate limiters).      *)
(* Bans are kept in the database (cvmban); a ban command may run as well.  *)
(***************************************************************************)
EXTENDS AddressData, FiniteSetsExt

CONSTANTS
    ChatLimit,      \* automute.messages
    Quiet,          \* the clients that may stop answering without a close
    MaxBans         \* bound on the bans that wait for the database at a time

\* An address is a record: its family, its first 64 bits and the rest.
ASSUME AddressAssumption ==
    IPOf \in [Users -> [family : {4, 6}, net : Nat, host : Nat]]
ASSUME ChatLimitAssumption == ChatLimit \in Nat \ {0} /\ MaxBans \in Nat

VARIABLES
    up,         \* the process lives
    socket,     \* where each connection is
    bans,       \* the rows of the table: addresses or /64 networks
    inserting,  \* the bans of each user that await the database
    banStage,   \* where the ban of each user is that the database took
    alive,      \* the client at the other end answers
    asked,      \* the clients whose nopRecieveTimeout runs
    requests,   \* ChatRateLimit.requestCount
    window,     \* ChatRateLimit.limiterSet
    failed      \* history: what has failed, a request to the database or a socket

banVars == <<inserting, banStage>>
accessVars == <<socket, bans, banVars, alive, asked, requests, window>>
vars == <<up, failed, dataVars, accessVars>>

TypeOK ==
    /\ DataTypeOK
    /\ up \in BOOLEAN /\ failed \in {"nothing", "database", "socket"}
    /\ socket \in [Users -> {"none", "checking", "passed", "banned",
                             "open", "closing", "closed", "refused"}]
    /\ \A b \in bans : b.family \in {4, 6}
    /\ inserting \in [Users -> Nat]
    /\ banStage \in [Users -> {"none", "inserted", "done"}]
    /\ alive \in SUBSET Users
    /\ asked \in SUBSET Users
    /\ requests \in [Users -> 0 .. ChatLimit - 1]
    /\ window \in SUBSET Users

Init ==
    /\ InitData
    /\ up = TRUE /\ failed = "nothing"
    /\ socket = [u \in Users |-> "none"]
    /\ bans = {}
    /\ inserting = [u \in Users |-> 0]
    /\ banStage = [u \in Users |-> "none"]
    /\ alive = Users
    /\ asked = {}
    /\ requests = [u \in Users |-> 0]
    /\ window = {}

\* A user the server still has: until the disconnect event of its socket.
Live(u) == socket[u] \in {"open", "closing"}

-----------------------------------------------------------------------------
(***************************************************************************)
(* The WebSocket front.                                                    *)
(***************************************************************************)

\* Fault: the address itself is the key.
FormatIPRaw(a) == a

\* BanManager.formatIP: an IPv4 address, or the /64 network of an IPv6 one.
FormatIP(a) == IF a.family = 4 THEN a ELSE [a EXCEPT !.host = 0]

\* httpOnUpgrade: protocol, origin and forwarding headers are refused, or the
\* check of the ban list is awaited.
Upgrade(u) ==
    /\ up /\ socket[u] = "none"
    /\ \E s \in {"refused", "checking"} : socket' = [socket EXCEPT ![u] = s]
    /\ UNCHANGED <<up, failed, dataVars, bans, banVars, alive, asked, requests, window>>

\* Database.isIPBanned: the query reads the table.
Query(u) ==
    /\ up /\ socket[u] = "checking"
    /\ socket' = [socket EXCEPT ![u] =
                    IF FormatIP(IPOf[u]) \in bans THEN "banned" ELSE "passed"]
    /\ UNCHANGED <<up, failed, dataVars, bans, banVars, alive, asked, requests, window>>

\* httpOnUpgrade after its await, a banned client.
Forbid(u) ==
    /\ up /\ socket[u] = "banned"
    /\ socket' = [socket EXCEPT ![u] = "refused"]
    /\ UNCHANGED <<up, failed, dataVars, bans, banVars, alive, asked, requests, window>>

\* httpOnUpgrade after its await, and onConnection: the user is made, with the
\* data of its address.
Open(u) ==
    /\ up /\ socket[u] = "passed"
    /\ socket' = [socket EXCEPT ![u] = "open"]
    /\ GetIPData(u)
    /\ UNCHANGED <<up, failed, bans, banVars, alive, asked, requests, window>>

\* The client resets the connection while the ban list is asked: the HTTP server
\* has taken its listener off the socket, and httpOnUpgrade adds none, so that
\* the error is caught nowhere.
SocketReset(u) ==
    /\ up /\ socket[u] \in {"checking", "passed", "banned"}
    /\ up' = FALSE /\ failed' = "socket"
    /\ UNCHANGED <<dataVars, accessVars>>

\* The client closes the connection, or never completes it.
HangUp(u) ==
    /\ up
    /\ \/ /\ socket[u] \in {"checking", "passed", "banned"}
          /\ socket' = [socket EXCEPT ![u] = "refused"]
       \/ /\ socket[u] = "open"
          /\ socket' = [socket EXCEPT ![u] = "closing"]
    /\ UNCHANGED <<up, failed, dataVars, bans, banVars, alive, asked, requests, window>>

\* WSClient.close: only an open socket is closed.
Closed(u) == [socket EXCEPT ![u] = IF @ = "open" THEN "closing" ELSE @]

\* User.kick and User.closeConnection.
Kick(u) ==
    /\ up /\ socket[u] = "open"
    /\ socket' = Closed(u)
    /\ UNCHANGED <<up, failed, dataVars, bans, banVars, alive, asked, requests, window>>

\* The close event of the socket: WSClient says 'disconnect' and the listener
\* of the User lets go of the address and stops its intervals.  A timeout of
\* the keep-alive that runs goes on, to close a closed socket.
Disconnect(u) ==
    /\ up /\ socket[u] = "closing"
    /\ socket' = [socket EXCEPT ![u] = "closed"]
    /\ Unref(u)
    /\ UNCHANGED <<up, failed, bans, banVars, alive, asked, requests, window>>

-----------------------------------------------------------------------------
(***************************************************************************)
(* The keep-alive.  The interval of ten seconds asks, a timeout of three   *)
(* closes: a timeout is over before the interval can start a second one.   *)
(***************************************************************************)

\* The client freezes or its network goes away without a word.
FallsSilent(u) ==
    /\ up /\ u \in Quiet /\ socket[u] = "open" /\ u \in alive
    /\ alive' = alive \ {u}
    /\ UNCHANGED <<up, failed, dataVars, socket, bans, banVars, asked, requests, window>>

\* Fault: the client is asked and no timeout is started.
OnNoMsgOnlyAsks(u) ==
    /\ up /\ Live(u) /\ u \notin asked
    /\ UNCHANGED vars

\* User.onNoMsg: no nop has come for ten seconds.
OnNoMsg(u) ==
    /\ up /\ Live(u) /\ u \notin asked
    /\ asked' = asked \cup {u}
    /\ UNCHANGED <<up, failed, dataVars, socket, bans, banVars, alive, requests, window>>

\* User.onNop.
OnNop(u) ==
    /\ up /\ Live(u) /\ u \in alive /\ u \in asked
    /\ asked' = asked \ {u}
    /\ UNCHANGED <<up, failed, dataVars, socket, bans, banVars, alive, requests, window>>

\* The timeout of User.onNoMsg.
NopTimeout(u) ==
    /\ up /\ u \in asked
    /\ asked' = asked \ {u}
    /\ socket' = Closed(u)
    /\ UNCHANGED <<up, failed, dataVars, bans, banVars, alive, requests, window>>

-----------------------------------------------------------------------------
(***************************************************************************)
(* Chat, mutes and bans.                                                   *)
(***************************************************************************)

\* Fault: the limiter trips on the request after the limit.
TripsLate(u) == requests[u] = ChatLimit

\* RateLimiter.request reaches its limit: on the limit-th request itself.
Trips(u) == requests[u] + 1 = ChatLimit

\* onChat of a client that is not staff, with onChatMsgSent and
\* RateLimiter.request: the request that reaches the limit mutes for a while.
OnChat(u) ==
    /\ up /\ socket[u] = "open"
    /\ holder[u] \notin muted
    /\ IF Trips(u)
       THEN /\ Mute(u, FALSE)
            /\ requests' = [requests EXCEPT ![u] = 0]
            /\ window' = window \ {u}
       ELSE /\ requests' = [requests EXCEPT ![u] = @ + 1]
            /\ window' = window \cup {u}
            /\ UNCHANGED dataVars
    /\ UNCHANGED <<up, failed, socket, bans, banVars, alive, asked>>

\* The timeout of the RateLimiter.
WindowEnds(u) ==
    /\ up /\ u \in window
    /\ window' = window \ {u}
    /\ requests' = [requests EXCEPT ![u] = 0]
    /\ UNCHANGED <<up, failed, dataVars, socket, bans, banVars, alive, asked>>

\* onAdminMuteUser.
OnAdminMuteUser(u, permanent) ==
    /\ up /\ Live(u)
    /\ Mute(u, permanent)
    /\ UNCHANGED <<up, failed, accessVars>>

\* tempMuteTime after the last temporary mute.
MuteExpires(o) ==
    /\ up /\ Unmute(o)
    /\ UNCHANGED <<up, failed, accessVars>>

\* onAdminBanUser and User.ban up to the await of BanUser.  Nothing keeps staff
\* from banning a user twice while he is in the list of clients.
OnAdminBanUser(u) ==
    /\ up /\ Live(u)
    /\ MapThenSumSet(LAMBDA v : inserting[v], Users) < MaxBans
    /\ Mute(u, TRUE)
    /\ inserting' = [inserting EXCEPT ![u] = @ + 1]
    /\ UNCHANGED <<up, failed, socket, bans, banStage, alive, asked, requests, window>>

\* Fault: an insert whose answer is late is sent again.
BanIPRetried(u) ==
    /\ up /\ inserting[u] > 0
    /\ IF FormatIP(IPOf[u]) \in bans
       THEN up' = FALSE /\ UNCHANGED bans
       ELSE bans' = bans \cup {FormatIP(IPOf[u])} /\ UNCHANGED up
    /\ UNCHANGED <<failed, dataVars, socket, banVars, alive, asked, requests, window>>

\* Database.banIP: the address is the primary key, and a second insert of it
\* rejects a promise that nobody handles.
BanIP(u) ==
    /\ up /\ inserting[u] > 0
    /\ IF FormatIP(IPOf[u]) \in bans
       THEN up' = FALSE /\ UNCHANGED <<bans, banVars>>
       ELSE /\ bans' = bans \cup {FormatIP(IPOf[u])}
            /\ inserting' = [inserting EXCEPT ![u] = @ - 1]
            /\ banStage' = [banStage EXCEPT ![u] = "inserted"]
            /\ UNCHANGED up
    /\ UNCHANGED <<failed, dataVars, socket, alive, asked, requests, window>>

\* Fault: the user is kicked before the ban, not after.
BanDoneNoKick(u) ==
    /\ up /\ banStage[u] = "inserted"
    /\ banStage' = [banStage EXCEPT ![u] = "done"]
    /\ UNCHANGED <<up, failed, dataVars, socket, bans, inserting, alive, asked, requests, window>>

\* The ban command, whose failure is only logged, and User.ban after its await.
BanDone(u) ==
    /\ up /\ banStage[u] = "inserted"
    /\ banStage' = [banStage EXCEPT ![u] = "done"]
    /\ socket' = Closed(u)
    /\ UNCHANGED <<up, failed, dataVars, bans, inserting, alive, asked, requests, window>>

\* The database refuses a request: the promise is handled neither by
\* httpOnUpgrade nor by onAdminBanUser.
DbFails ==
    /\ up
    /\ \E u \in Users : socket[u] = "checking" \/ inserting[u] > 0
    /\ up' = FALSE /\ failed' = "database"
    /\ UNCHANGED <<dataVars, accessVars>>

GarbageCollect == up /\ Collect /\ UNCHANGED <<up, failed, accessVars>>

Next ==
    \/ \E u \in Users :
        \/ Upgrade(u) \/ Query(u) \/ Forbid(u) \/ Open(u)
        \/ HangUp(u) \/ SocketReset(u) \/ Kick(u) \/ Disconnect(u)
        \/ FallsSilent(u) \/ OnNoMsg(u) \/ OnNop(u) \/ NopTimeout(u)
        \/ OnChat(u) \/ WindowEnds(u) \/ MuteExpires(u)
        \/ OnAdminMuteUser(u, TRUE) \/ OnAdminMuteUser(u, FALSE)
        \/ OnAdminBanUser(u) \/ BanIP(u) \/ BanDone(u)
    \/ DbFails
    \/ GarbageCollect

\* Timers fire, the database answers and a socket that is being closed closes
\* (ws gives up on the other end after a while).  What clients and
\* administrators do is not fair.
Fairness ==
    \A u \in Users :
        /\ WF_vars(Disconnect(u))
        /\ WF_vars(OnNoMsg(u)) /\ WF_vars(NopTimeout(u))
        /\ WF_vars(BanIP(u)) /\ WF_vars(BanDone(u))

Spec == Init /\ [][Next]_vars /\ Fairness

-----------------------------------------------------------------------------
(***************************************************************************)
(* Properties.                                                             *)
(***************************************************************************)

Holders(o) == {u \in Users : Live(u) /\ holder[u] = o}

\* All connections of an address share one object, the one in the map, and its
\* count is the number of them: so the collection never takes data in use, and
\* a mute or a vote of one connection is seen by all the others.
SharedData ==
    /\ \A u \in Users : Live(u) => ipDatas[IPOf[u]] = holder[u]
    /\ \A o \in Users : refCount[o] = Cardinality(Holders(o))

\* While an address stays connected, a mute of it lasts until the timeout of a
\* temporary mute fires and binds the connections that join: opening another
\* connection, losing one, a ban in progress or the collection end no mute.
MuteBinds ==
    [][\A u, v \in Users :
        /\ Live(u) /\ Live(u)' /\ holder[u] \in muted
        /\ IPOf[v] = IPOf[u] /\ Live(v)'
        /\ ~(holder[u] \in timer /\ holder[u] \notin timer')
        => holder[v]' \in muted'
      ]_vars

\* The addresses a ban is meant for: the address itself, or its /64 network.
SameScope(a, b) ==
    \/ a = b
    \/ a.family = 6 /\ b.family = 6 /\ a.net = b.net

Banned(u) ==
    \E v \in Users : banStage[v] \in {"inserted", "done"} /\ SameScope(IPOf[u], IPOf[v])

\* Once a ban is written, no connection of the address or its /64 network
\* passes the check any more: only one that was checked before still gets in.
BannedStayOut ==
    [][\A u \in Users : Banned(u) /\ socket[u] \in {"none", "checking"}
                            => socket'[u] \notin {"passed", "open"}]_vars

\* The process ends only because the database fails, because a client resets its
\* socket while the ban list is asked, or because a second ban, of the same user
\* or of another of his address or network, cannot be written: no other order of
\* bans, checks, kicks and closes rejects a promise.
ExitExplained ==
    ~up => \/ failed # "nothing"
           \/ \E u, v \in Users : /\ inserting[u] > 0
                                  /\ banStage[v] \in {"inserted", "done"}
                                  /\ SameScope(IPOf[u], IPOf[v])

\* A user who is banned is thrown out, however the ban meets a kick, a close
\* or other bans, unless the process ends.
BannedIsGone ==
    \A u \in Users : inserting[u] > 0 ~> (socket[u] = "closed" \/ ~up)

\* A client that stops answering is closed, so that it leaves the turn queue,
\* the vote and the data of its address.
SilentIsGone ==
    \A u \in Users : (socket[u] = "open" /\ u \notin alive) ~> (socket[u] = "closed" \/ ~up)
=============================================================================
