--------------------------- MODULE Connections ---------------------------
(***************************************************************************)
(* The connections of the server: CollabVMServer.connectionOpened and      *)
(* connectionClosed with the clients array they keep, the socket of each   *)
(* User, and connectedToNode.  Closing a socket is not the end of it: the  *)
(* "disconnect" event comes later, and until then messages that were on    *)
(* their way are still handled.                                            *)
(***************************************************************************)
EXTENDS QueueOps, FiniteSets

CONSTANTS
    Users,           \* User objects: one per connection, never reused
    IPOf,            \* the address each user connects from
    MaxConnections   \* config.collabvm.maxConnections

ASSUME MaxConnectionsAssumption == MaxConnections \in Nat \ {0}

VARIABLES
    sock,            \* the socket of each user
    clients,         \* the clients array, oldest first
    joined           \* the users with connectedToNode

connVars == <<sock, clients, joined>>

IPs == {IPOf[u] : u \in Users}
Connected == InLine(clients)

\* Users whose messages may still arrive.
Talking == {u \in Users : sock[u] \in {"open", "closing"}}

\* this.clients.filter(c => c.IP.address === ...), as positions.
SameIP(ip) == {i \in 1 .. Len(clients) : IPOf[clients[i]] = ip}
OldestFrom(ip) == clients[CHOOSE i \in SameIP(ip) : \A j \in SameIP(ip) : i <= j]

\* User.kick and User.closeConnection: closing a closing socket changes nothing.
Closing(s, u) == [s EXCEPT ![u] = IF @ = "open" THEN "closing" ELSE @]

\* connectionOpened: at the limit the oldest client of the address is kicked;
\* he stays among the clients until his socket reports the disconnect.
ConnectionOpened(u) ==
    /\ sock[u] = "none"
    /\ sock' = [IF Cardinality(SameIP(IPOf[u])) >= MaxConnections
                THEN Closing(sock, OldestFrom(IPOf[u]))
                ELSE sock
                EXCEPT ![u] = "open"]
    /\ clients' = Append(clients, u)
    /\ UNCHANGED joined

\* Staff kick or ban, a rate limit, a missing nop: the server closes the socket.
CloseSocket(u) ==
    /\ sock[u] = "open"
    /\ sock' = Closing(sock, u)
    /\ UNCHANGED <<clients, joined>>

\* connectViewShared up to its first await.
ConnectToNode(u) ==
    /\ u \in Talking \ joined
    /\ joined' = joined \cup {u}
    /\ UNCHANGED <<sock, clients>>

\* The disconnect event: connectionClosed, unless a login displaced the user.
Disconnected(u) ==
    /\ u \in Talking
    /\ sock' = [sock EXCEPT ![u] = "closed"]
    /\ clients' = Without(clients, u)
    /\ UNCHANGED joined

\* onLogin for the account of u on another connection: connectionClosed is
\* called by hand and the socket is kicked.
Displaced(u) ==
    /\ u \in Connected
    /\ sock' = Closing(sock, u)
    /\ clients' = Without(clients, u)
    /\ UNCHANGED joined

InitConnections ==
    /\ sock = [u \in Users |-> "none"]
    /\ clients = <<>>
    /\ joined = {}

TypeOKConnections ==
    /\ sock \in [Users -> {"none", "open", "closing", "closed"}]
    /\ clients \in Seq(Users)
    /\ joined \subseteq Users
==========================================================================
