---------------------------- MODULE Sessions ----------------------------
(***************************************************************************)
(* Who is who: the names of users, logins, and the user list every client  *)
(* keeps from what it is told (CollabVMServer.ts: connectionOpened,        *)
(* connectionClosed, onLogin, onRename, onAdminRename, renameUser).  The   *)
(* server never sends the list again: it is right only if every addition,  *)
(* removal and renaming reaches every client in the right order.           *)
(*                                                                         *)
(* Authentication is enabled.  A login awaits the auth server; kick() has  *)
(* no await of its own, so that what follows it in onLogin runs before the *)
(* next event.  A name that renameUser refuses, by its syntax or by the    *)
(* blacklist, is dealt with like one that is taken: its bearer gets a      *)
(* guest name.  The names of accounts are not exempt from that.            *)
(***************************************************************************)
EXTENDS Connections

CONSTANTS
    Accounts,       \* the names of the accounts
    StaffAccounts,  \* those whose rank is Admin
    Refused,        \* those whose name renameUser refuses (860-865)
    Guests,         \* the guest names
    MaxLogins,      \* bound on the logins that are awaited at a time
    NoName          \* undefined

ASSUME NamesAssumption ==
    /\ StaffAccounts \subseteq Accounts /\ Refused \subseteq Accounts
    /\ Accounts \cap Guests = {}
    /\ NoName \notin Accounts \cup Guests
    /\ MaxLogins \in Nat

VARIABLES
    name,      \* User.username
    account,   \* whose login gave the user his rank; NoName is Unregistered
    awaiting,  \* <<u, a>>: onLogin of u awaits the auth server, for account a
    view,      \* the user list of each client that can still be sent to
    renamed,   \* history: users whom staff renamed since they logged in
    doubtful   \* history: the names some client's list may be wrong about

idVars == <<name, account, awaiting, renamed, doubtful>>
vars == <<connVars, idVars, view>>

Names == Accounts \cup Guests

\* getUsernameList.
Listed == {name[u] : u \in Connected} \ {NoName}

\* The clients that can be sent to, and what becomes of their lists when told
\* says what each makes of what is sent.
Hearing == {c \in Connected : sock[c] = "open"}
Hear(told) ==
    \E hearing \in {Hearing'} :
        view' = [c \in Users |-> IF c \in hearing THEN told[view[c]] ELSE {}]
Lists == SUBSET Names

\* What a client does on adduser, remuser and rename.
Added(v, n) == v \cup {n}
Removed(v, n) == v \ {n}
Renamed(v, old, new) == IF old \in v THEN (v \ {old}) \cup {new} ELSE v

\* What is in doubt when all are told that u is called n from now on: of a user
\* who is no client any more, both his names, for somebody else may have the old
\* one and nobody will take back the new one; of a client whose old name is in
\* doubt, the new one, since a renaming of somebody unlisted lists nobody; of
\* anybody else, and of a client who is announced besides, neither.
Doubt(u, n, announced) ==
    IF u \notin InLine(clients') THEN doubtful \cup ({name[u], n} \ {NoName})
    ELSE IF announced \/ name[u] \notin doubtful THEN doubtful \ {name[u], n}
    ELSE (doubtful \ {name[u]}) \cup {n}

\* Fault: names in use are not looked at.
NameForTaken(u, wanted, listed) ==
    IF wanted = NoName THEN Guests \ listed ELSE {wanted}

\* renameUser: the names u may get when he wants one, or none (NoName), while
\* listed are in use; the name he has already is left alone.
NameFor(u, wanted, listed) ==
    IF wanted \in listed \cup Refused \cup {NoName} /\ name[u] # wanted
    THEN Guests \ listed
    ELSE {wanted}

-----------------------------------------------------------------------------
(* Connections.                                                            *)

\* The new client is sent the list; he is not in it yet.
Opens(u) ==
    /\ ConnectionOpened(u)
    /\ \E hearing \in {Hearing'} :
          view' = [c \in Users |-> IF c = u THEN Listed
                                  ELSE IF c \in hearing THEN view[c] ELSE {}]
    /\ UNCHANGED idVars

\* Fault: a user without a name is let in.
JoinsUnnamed(u) ==
    /\ ConnectToNode(u)
    /\ UNCHANGED <<idVars, view>>

Joins(u) ==
    /\ name[u] # NoName
    /\ ConnectToNode(u)
    /\ UNCHANGED <<idVars, view>>

SocketCloses(u) ==
    /\ CloseSocket(u)
    /\ Hear([v \in Lists |-> v])
    /\ UNCHANGED idVars

\* Fault: only users who joined the node are taken off the lists.
LeavesIfJoined(u) ==
    /\ Disconnected(u)
    /\ Hear([v \in Lists |->
            IF u \in Connected \cap joined THEN Removed(v, name[u]) ELSE v])
    /\ UNCHANGED idVars

\* connectionClosed; a login may still be awaited.
Leaves(u) ==
    /\ Disconnected(u)
    /\ Hear([v \in Lists |-> IF u \in Connected THEN Removed(v, name[u]) ELSE v])
    /\ doubtful' = IF u \in Connected THEN doubtful \ {name[u]} ELSE doubtful
    /\ UNCHANGED <<name, account, awaiting, renamed>>

-----------------------------------------------------------------------------
(* Names.                                                                  *)

\* onRename gives a guest another guest name, whatever name he asks for.
OnRename(u) ==
    /\ u \in Talking
    /\ account[u] = NoName
    /\ UNCHANGED connVars
    /\ \E g \in Guests \ Listed :
         /\ name' = [name EXCEPT ![u] = g]
         /\ Hear([v \in Lists |-> IF name[u] = NoName THEN Added(v, g)
                                  ELSE Renamed(v, name[u], g)])
         /\ doubtful' = Doubt(u, g, FALSE)
    /\ UNCHANGED <<account, awaiting, renamed>>

\* onAdminRename says that it cannot be done when authentication is enabled,
\* and does it.
OnAdminRename(u, wanted) ==
    /\ {s \in Talking : account[s] \in StaffAccounts} # {}
    /\ u \in Connected /\ name[u] # NoName
    /\ UNCHANGED connVars
    /\ \E n \in NameFor(u, wanted, Listed) :
         /\ name' = [name EXCEPT ![u] = n]
         /\ Hear([v \in Lists |-> Renamed(v, name[u], n)])
         /\ renamed' = IF n = name[u] THEN renamed ELSE renamed \cup {u}
         /\ doubtful' = Doubt(u, n, FALSE)
    /\ UNCHANGED <<account, awaiting>>

-----------------------------------------------------------------------------
(* Logins.                                                                 *)

\* onLogin up to its await.  A bound besides MaxLogins: no two logins of a user
\* to one account are awaited at a time.
OnLogin(u, a) ==
    /\ u \in Talking \cap joined
    /\ <<u, a>> \notin awaiting /\ Cardinality(awaiting) < MaxLogins
    /\ awaiting' = awaiting \cup {<<u, a>>}
    /\ UNCHANGED <<connVars, name, account, renamed, doubtful, view>>

\* The auth server says no or cannot be reached; who is banned is kicked.
LoginRefused(u, a) ==
    /\ <<u, a>> \in awaiting
    /\ awaiting' = awaiting \ {<<u, a>>}
    /\ sock' \in {sock, Closing(sock, u)}
    /\ UNCHANGED <<clients, joined, name, account, renamed, doubtful>>
    /\ Hear([v \in Lists |-> v])

\* The session that has the name of the account, if there is one.
Bearers(a) == {c \in Connected : name[c] = a}

\* Fault: the old session is kicked, but left in the list until its socket closes.
KickBearer(a) ==
    \/ Bearers(a) = {} /\ UNCHANGED connVars
    \/ \E old \in Bearers(a) :
         sock' = Closing(sock, old) /\ UNCHANGED <<clients, joined>>

\* connectionClosed by hand, then kick.
DisplaceBearer(a) ==
    \/ Bearers(a) = {} /\ UNCHANGED connVars
    \/ \E old \in Bearers(a) : Displaced(old)

\* The auth server says yes, to whoever u is by now: he need not be a client
\* any more, and the old session may be his own.
LoginAccepted(u, a) ==
    /\ <<u, a>> \in awaiting
    /\ awaiting' = awaiting \ {<<u, a>>}
    /\ DisplaceBearer(a)
    /\ \E n \in NameFor(u, a, {name[c] : c \in InLine(clients')}) :
         /\ name' = [name EXCEPT ![u] = n]
         /\ Hear([v \in Lists |->
                Added(Renamed(IF Bearers(a) = {} THEN v ELSE Removed(v, a),
                              name[u], n), n)])
         /\ doubtful' = Doubt(u, n, TRUE)
    /\ account' = [account EXCEPT ![u] = a]
    /\ renamed' = renamed \ {u}

-----------------------------------------------------------------------------
Init ==
    /\ InitConnections
    /\ name = [u \in Users |-> NoName]
    /\ account = [u \in Users |-> NoName]
    /\ awaiting = {}
    /\ view = [u \in Users |-> {}]
    /\ renamed = {}
    /\ doubtful = {}

Next ==
    \E u \in Users :
       \/ Opens(u) \/ Joins(u) \/ SocketCloses(u) \/ Leaves(u) \/ OnRename(u)
       \/ \E a \in Accounts : OnLogin(u, a) \/ LoginRefused(u, a) \/ LoginAccepted(u, a)
       \/ \E n \in Names \cup {NoName} : OnAdminRename(u, n)

Spec == Init /\ [][Next]_vars

-----------------------------------------------------------------------------
(* Properties.                                                             *)

\* The types of the variables; whoever is at the node has a name.
TypeOK ==
    /\ TypeOKConnections
    /\ name \in [Users -> Names \cup {NoName}]
    /\ account \in [Users -> Accounts \cup {NoName}]
    /\ awaiting \subseteq Users \X Accounts
    /\ view \in [Users -> SUBSET Names]
    /\ renamed \subseteq Users
    /\ doubtful \subseteq Names
    /\ \A u \in joined : name[u] # NoName

\* No two clients have the same name, whichever logins, displacements and
\* renamings meet (renameUser 855, assignGuestName 85-93): staff commands, the
\* lists of the clients and the turn updates all go by the name.
NamesUnique ==
    \A c, d \in Connected : name[c] = name[d] /\ name[c] # NoName => c = d

\* Every client that can still hear the server has exactly the names of the
\* clients on its list, but for names in doubt, which come from users who were
\* announced or renamed after they had left: no addition, removal or renaming is
\* lost, doubled or out of order, and the next that removes or announces such a
\* name puts every list right.
ViewsExact ==
    \A c \in Connected : sock[c] = "open" => view[c] \ doubtful = Listed \ doubtful

\* The clients who should bear the name of an account: those logged in to one
\* whose name is not refused.
Bearing == {c \in Connected : account[c] \in Accounts \ Refused}

\* An account whose name is not refused has one session: of two clients logged
\* in to it, staff have renamed at least one (onLogin 240-246 looks for the name,
\* after its await).  Two sessions of an account whose name is refused both stay,
\* for neither bears the name that the second login looks for.
OneSessionPerAccount ==
    \A c, d \in Bearing \ renamed : account[c] = account[d] => c = d

\* "Cannot rename users on a server that uses authentication."
\* (CollabVMServer.ts:671): a client who is logged in has the name of his account,
\* unless that name is refused.
LoggedInKeepName == \A u \in Bearing : name[u] = account[u]
=========================================================================
