--------------------------- MODULE SessionsProofs ---------------------------
(***************************************************************************)
(* What holds of names, accounts and user lists for any number of          *)
(* connections, accounts and logins that are awaited.                      *)
(***************************************************************************)
EXTENDS Sessions, QueueOpsProofs

Socks == {"none", "open", "closing", "closed"}

\* Who has not connected yet is nobody.
Unopened ==
    \A u \in Users : sock[u] = "none" =>
        /\ u \notin Connected
        /\ name[u] = NoName /\ account[u] = NoName
        /\ \A a \in Accounts : <<u, a>> \notin awaiting

\* Who is logged in and was not renamed by staff has the name of his account,
\* unless that name is refused.
BearsAccount == \A u \in Bearing \ renamed : name[u] = account[u]

\* The clients array holds nobody twice.
ClientsInv == TypeOKConnections /\ NoRepeats(clients)

\* The inductive invariant.
IInv ==
    /\ TypeOK /\ NoRepeats(clients)
    /\ Unopened /\ NamesUnique /\ BearsAccount
    /\ ViewsExact

-----------------------------------------------------------------------------
(* Connections.                                                            *)

LEMMA ConnectedAreUsers ==
    ASSUME TypeOKConnections
    PROVE  Connected \subseteq Users
  BY DEF TypeOKConnections, Connected, InLine

LEMMA ClosingLemma ==
    ASSUME NEW s \in [Users -> Socks], NEW x
    PROVE  /\ Closing(s, x) \in [Users -> Socks]
           /\ \A v \in Users : /\ Closing(s, x)[v] = "none" <=> s[v] = "none"
                               /\ Closing(s, x)[v] = "open" => s[v] = "open"
  BY DEF Closing, Socks

LEMMA Opened ==
    ASSUME ClientsInv, NEW u \in Users, u \notin Connected, ConnectionOpened(u)
    PROVE  /\ ClientsInv' /\ Connected' = Connected \cup {u} /\ joined' = joined
           /\ sock'[u] = "open"
           /\ \A v \in Users \ {u} : /\ sock'[v] = "none" <=> sock[v] = "none"
                                     /\ sock'[v] = "open" => sock[v] = "open"
  <1> DEFINE s == IF Cardinality(SameIP(IPOf[u])) >= MaxConnections
                  THEN Closing(sock, OldestFrom(IPOf[u])) ELSE sock
  <1>1. sock' = [s EXCEPT ![u] = "open"] /\ clients' = Append(clients, u) /\ joined' = joined
    BY DEF ConnectionOpened
  <1>2. /\ s \in [Users -> Socks]
        /\ \A v \in Users : /\ s[v] = "none" <=> sock[v] = "none"
                            /\ s[v] = "open" => sock[v] = "open"
    BY ClosingLemma DEF ClientsInv, TypeOKConnections, Socks
  <1> HIDE DEF s
  <1>3. /\ clients' \in Seq(Users) /\ NoRepeats(clients')
        /\ InLine(clients') = InLine(clients) \cup {u}
    BY <1>1, AppendLemma DEF ClientsInv, TypeOKConnections, Connected
  <1>4. sock' \in [Users -> Socks] /\ joined' \subseteq Users
    BY <1>1, <1>2 DEF ClientsInv, TypeOKConnections, Socks
  <1>5. ClientsInv'
    BY <1>3, <1>4 DEF ClientsInv, TypeOKConnections, Socks
  <1> QED BY <1>1, <1>2, <1>3, <1>5 DEF Connected, ClientsInv, TypeOKConnections

\* A client leaves the array, by the end of his socket or by hand.
LEMMA Left ==
    ASSUME ClientsInv, NEW u \in Users, Disconnected(u) \/ Displaced(u)
    PROVE  /\ ClientsInv' /\ Connected' = Connected \ {u} /\ joined' = joined
           /\ \A v \in Users : /\ sock'[v] = "none" => sock[v] = "none"
                               /\ sock'[v] = "open" => sock[v] = "open"
  <1>1. clients' = Without(clients, u) /\ joined' = joined
    BY DEF Disconnected, Displaced
  <1>2. /\ clients' \in Seq(Users) /\ NoRepeats(clients')
        /\ InLine(clients') = InLine(clients) \ {u}
    BY <1>1, WithoutNoRepeats DEF ClientsInv, TypeOKConnections
  <1>3. /\ sock' \in [Users -> Socks]
        /\ \A v \in Users : /\ sock'[v] = "none" => sock[v] = "none"
                            /\ sock'[v] = "open" => sock[v] = "open"
    <2>1. sock \in [Users -> Socks]
      BY DEF ClientsInv, TypeOKConnections, Socks
    <2>2. CASE Disconnected(u)
      BY <2>1, <2>2 DEF Disconnected, Socks
    <2>3. CASE Displaced(u)
      BY <2>1, <2>3, ClosingLemma DEF Displaced
    <2> QED BY <2>2, <2>3
  <1>4. ClientsInv'
    BY <1>1, <1>2, <1>3 DEF ClientsInv, TypeOKConnections, Socks
  <1> QED BY <1>1, <1>2, <1>3, <1>4 DEF Connected

-----------------------------------------------------------------------------
(* Lists.                                                                  *)

\* Without one client the list is shorter by his name, which nobody else has.
LEMMA ListWithout ==
    ASSUME NamesUnique, NEW u \in Connected
    PROVE  {name[c] : c \in Connected \ {u}} \ {NoName} = Listed \ {name[u]}
  BY DEF NamesUnique, Listed

\* A list that is right but for the names in doubt.
Right(v, listed, doubts) == v \ doubts = listed \ doubts

\* What is told to everybody who can hear keeps the lists exact if it makes a
\* list that is right of one that was.
LEMMA Told ==
    ASSUME TypeOK, ViewsExact, NEW told \in [Lists -> Lists],
           view' = [c \in Users |-> IF c \in Hearing' THEN told[view[c]] ELSE {}],
           Connected' \subseteq Connected, Connected \subseteq Users,
           \A c \in Connected' : sock'[c] = "open" => sock[c] = "open",
           \A v \in Lists : Right(v, Listed, doubtful) =>
                              Right(told[v], Listed', doubtful')
    PROVE  view' \in [Users -> SUBSET Names] /\ ViewsExact'
  <1>1. ASSUME NEW c \in Users PROVE view'[c] \in SUBSET Names
    BY DEF TypeOK, Lists
  <1>2. view' \in [Users -> SUBSET Names]
    BY <1>1
  <1>3. ASSUME NEW c \in Connected', sock'[c] = "open"
        PROVE  Right(view'[c], Listed', doubtful')
    <2>1. Right(view[c], Listed, doubtful) /\ c \in Users /\ c \in Hearing'
      BY <1>3 DEF ViewsExact, Hearing, Right
    <2>2. view[c] \in Lists /\ view'[c] = told[view[c]]
      BY <2>1 DEF TypeOK, Lists
    <2> QED BY <2>1, <2>2
  <1> QED BY <1>2, <1>3 DEF ViewsExact, Right

\* When u is renamed, and was not announced, what is in doubt covers what a
\* list that knows his old name makes of it, and one that does not.
LEMMA RightRenamed ==
    ASSUME TypeOK, NEW u \in Users, NEW n \in Names, NEW v \in Lists,
           u \in InLine(clients'), name[u] \in Listed \cup {NoName}, Right(v, Listed, doubtful)
    PROVE  Right(IF name[u] = NoName THEN Added(v, n) ELSE Renamed(v, name[u], n),
                 (Listed \ {name[u]}) \cup {n}, Doubt(u, n, FALSE))
  <1>1. NoName \notin v /\ NoName \notin doubtful /\ NoName \notin Listed
    BY NamesAssumption DEF TypeOK, Lists, Names, Listed
  <1>2. CASE name[u] = NoName
    <2>1. Doubt(u, n, FALSE) = doubtful \ {name[u], n}
      BY <1>1, <1>2 DEF Doubt
    <2> QED BY <1>1, <1>2, <2>1 DEF Right, Added
  <1>3. CASE name[u] \in Listed /\ name[u] \notin doubtful
    <2>1. Doubt(u, n, FALSE) = doubtful \ {name[u], n} /\ name[u] \in v
      BY <1>3 DEF Doubt, Right
    <2> QED BY <1>1, <1>3, <2>1 DEF Right, Renamed
  <1>4. CASE name[u] \in doubtful
    <2>1. Doubt(u, n, FALSE) = (doubtful \ {name[u]}) \cup {n}
      BY <1>4 DEF Doubt
    <2> QED BY <1>1, <1>4, <2>1 DEF Right, Renamed
  <1> QED BY <1>2, <1>3, <1>4

\* When a client is announced under his new name besides, neither is in doubt.
LEMMA RightAnnounced ==
    ASSUME NEW u \in Users, NEW n, NEW v, NEW mid,
           u \in InLine(clients'), Right(v, mid, doubtful)
    PROVE  Right(Added(Renamed(v, name[u], n), n), (mid \ {name[u]}) \cup {n},
                 Doubt(u, n, TRUE))
  <1>1. Doubt(u, n, TRUE) = doubtful \ {name[u], n}
    BY DEF Doubt
  <1> QED BY <1>1 DEF Right, Added, Renamed

\* When one who is no client is renamed or announced, both his names are in
\* doubt and all others as they were.
LEMMA RightStray ==
    ASSUME NEW u \in Users, NEW n, NEW v, NEW mid, NEW announced \in BOOLEAN,
           u \notin InLine(clients'), n # NoName, NoName \notin v, Right(v, mid, doubtful)
    PROVE  /\ Right(Renamed(v, name[u], n), mid, Doubt(u, n, announced))
           /\ Right(Added(v, n), mid, Doubt(u, n, announced))
           /\ Right(Added(Renamed(v, name[u], n), n), mid, Doubt(u, n, announced))
  <1>1. Doubt(u, n, announced) = doubtful \cup ({name[u], n} \ {NoName})
    BY DEF Doubt
  <1> QED BY <1>1 DEF Right, Added, Renamed

LEMMA DoubtType ==
    ASSUME TypeOK, NEW u \in Users, NEW n \in Names, NEW announced \in BOOLEAN
    PROVE  Doubt(u, n, announced) \subseteq Names
  BY DEF Doubt, TypeOK

\* A name that renameUser gives is a name, and nobody else's.
LEMMA NameForLemma ==
    ASSUME TypeOK, NEW u \in Users, NEW wanted \in Names \cup {NoName}, NEW listed,
           NEW n \in NameFor(u, wanted, listed), wanted = NoName => name[u] # NoName
    PROVE  /\ n \in Names /\ n # NoName
           /\ n \in listed => n = wanted /\ n = name[u]
           /\ wanted \notin listed \cup Refused \cup {NoName} => n = wanted
  BY NamesAssumption DEF NameFor, Names

LEMMA ListedAreNames ==
    ASSUME TypeOK, Connected \subseteq Users
    PROVE  Listed \in Lists
  BY DEF Listed, Lists, TypeOK

-----------------------------------------------------------------------------
(* The steps.                                                              *)

LEMMA InitIInv == Init => IInv
  <1> SUFFICES ASSUME Init PROVE IInv
    OBVIOUS
  <1>1. Connected = {} /\ NoRepeats(clients) /\ clients \in Seq(Users)
    BY DEF Init, InitConnections, Connected, InLine, NoRepeats
  <1>2. TypeOK
    BY <1>1 DEF Init, InitConnections, TypeOK, TypeOKConnections
  <1>3. Unopened
    BY <1>1 DEF Init, Unopened
  <1> QED BY <1>1, <1>2, <1>3 DEF IInv, NamesUnique, BearsAccount, Bearing, ViewsExact

LEMMA OpensIInv ==
    ASSUME IInv, NEW u \in Users, Opens(u)
    PROVE  IInv'
  <1>1. ConnectionOpened(u) /\ UNCHANGED idVars
        /\ view' = [c \in Users |-> IF c = u THEN Listed
                                    ELSE IF c \in Hearing' THEN view[c] ELSE {}]
    BY DEF Opens
  <1>2. sock[u] = "none" /\ ClientsInv /\ Connected \subseteq Users
    BY <1>1, ConnectedAreUsers DEF ConnectionOpened, IInv, TypeOK, ClientsInv
  <1>3. u \notin Connected /\ name[u] = NoName /\ account[u] = NoName
        /\ \A a \in Accounts : <<u, a>> \notin awaiting
    BY <1>2 DEF IInv, Unopened
  <1>4. /\ ClientsInv' /\ Connected' = Connected \cup {u} /\ joined' = joined
        /\ sock'[u] = "open"
        /\ \A v \in Users \ {u} : /\ sock'[v] = "none" <=> sock[v] = "none"
                                  /\ sock'[v] = "open" => sock[v] = "open"
    BY <1>1, <1>2, <1>3, Opened
  <1>5. Listed' = Listed
    BY <1>1, <1>3, <1>4 DEF Listed, idVars
  <1>6. view' \in [Users -> SUBSET Names]
    <2>1. Listed \in SUBSET Names
      BY <1>2, ListedAreNames DEF IInv, Lists
    <2> QED BY <1>1, <2>1 DEF IInv, TypeOK
  <1>7. TypeOK'
    BY <1>1, <1>4, <1>6 DEF IInv, TypeOK, idVars, ClientsInv
  <1>8. ViewsExact'
    <2> SUFFICES ASSUME NEW c \in Connected', sock'[c] = "open"
                 PROVE  view'[c] \ doubtful = Listed \ doubtful
      BY <1>1, <1>5 DEF ViewsExact, idVars
    <2>1. CASE c = u
      BY <1>1, <2>1
    <2>2. CASE c # u
      <3>1. c \in Connected /\ c \in Users /\ sock[c] = "open" /\ c \in Hearing'
        BY <1>2, <1>4, <2>2 DEF Hearing
      <3>2. view[c] \ doubtful = Listed \ doubtful
        BY <1>1, <3>1 DEF IInv, ViewsExact, idVars
      <3> QED BY <1>1, <2>2, <3>1, <3>2
    <2> QED BY <2>1, <2>2
  <1>9. Unopened' /\ NamesUnique' /\ BearsAccount'
    BY <1>1, <1>3, <1>4 DEF IInv, Unopened, NamesUnique, BearsAccount, Bearing, idVars
  <1> QED BY <1>4, <1>7, <1>8, <1>9 DEF IInv, ClientsInv

\* Connections and names stay, or a socket starts to close.
LEMMA QuietIInv ==
    ASSUME IInv, UNCHANGED <<clients, name, account, renamed, doubtful>>,
           joined' \subseteq Users, \A u \in joined' : name[u] # NoName,
           awaiting' \subseteq Users \X Accounts,
           \A u \in Users, a \in Accounts :
                 sock[u] = "none" => <<u, a>> \notin awaiting',
           sock' \in [Users -> Socks],
           \A u \in Users : /\ sock'[u] = "none" <=> sock[u] = "none"
                            /\ sock'[u] = "open" => sock[u] = "open",
           UNCHANGED view \/ Hear([v \in Lists |-> v])
    PROVE  IInv'
  <1>1. TypeOK /\ ViewsExact /\ TypeOKConnections
    BY DEF IInv, TypeOK
  <1>2. Connected' = Connected /\ Connected \subseteq Users /\ Listed' = Listed
    BY <1>1, ConnectedAreUsers DEF Connected, Listed
  <1>3. view' \in [Users -> SUBSET Names] /\ ViewsExact'
    <2>1. CASE UNCHANGED view
      BY <1>1, <1>2, <2>1 DEF TypeOK, ViewsExact
    <2>2. CASE Hear([v \in Lists |-> v])
      <3> DEFINE told == [v \in Lists |-> v]
      <3>1. /\ told \in [Lists -> Lists]
            /\ \A v \in Lists : Right(v, Listed, doubtful) => Right(told[v], Listed', doubtful')
        BY <1>2
      <3>2. view' = [c \in Users |-> IF c \in Hearing' THEN told[view[c]] ELSE {}]
        BY <2>2 DEF Hear
      <3> HIDE DEF told
      <3> QED BY <1>1, <1>2, <3>1, <3>2, Told
    <2> QED BY <2>1, <2>2
  <1>4. TypeOK'
    BY <1>1, <1>3 DEF TypeOK, TypeOKConnections, Socks
  <1>5. Unopened'
    BY <1>2 DEF IInv, Unopened
  <1>6. NamesUnique' /\ BearsAccount' /\ NoRepeats(clients')
    BY <1>2 DEF IInv, NamesUnique, BearsAccount, Bearing
  <1> QED BY <1>3, <1>4, <1>5, <1>6 DEF IInv

LEMMA JoinsIInv ==
    ASSUME IInv, NEW u \in Users, Joins(u)
    PROVE  IInv'
  <1>1. joined' = joined \cup {u} /\ name[u] # NoName
        /\ UNCHANGED <<sock, clients, idVars, view>>
    BY DEF Joins, ConnectToNode
  <1>2. joined' \subseteq Users /\ sock' \in [Users -> Socks] /\ awaiting' \subseteq Users \X Accounts
    BY <1>1 DEF IInv, TypeOK, TypeOKConnections, Socks, idVars
  <1>3. \A v \in joined' : name[v] # NoName
    BY <1>1 DEF IInv, TypeOK
  <1>4. \A v \in Users, a \in Accounts : sock[v] = "none" => <<v, a>> \notin awaiting'
    BY <1>1 DEF IInv, Unopened, idVars
  <1>5. UNCHANGED <<clients, name, account, renamed, doubtful>> /\ UNCHANGED view
    BY <1>1 DEF idVars
  <1> QED BY <1>1, <1>2, <1>3, <1>4, <1>5, QuietIInv

LEMMA SocketClosesIInv ==
    ASSUME IInv, NEW u \in Users, SocketCloses(u)
    PROVE  IInv'
  <1>1. sock' = Closing(sock, u) /\ UNCHANGED <<clients, joined, idVars>>
        /\ Hear([v \in Lists |-> v])
    BY DEF SocketCloses, CloseSocket
  <1>2. /\ sock \in [Users -> Socks] /\ joined' \subseteq Users
        /\ awaiting' \subseteq Users \X Accounts
        /\ \A v \in joined' : name[v] # NoName
        /\ \A v \in Users, a \in Accounts : sock[v] = "none" => <<v, a>> \notin awaiting'
    BY <1>1 DEF IInv, TypeOK, TypeOKConnections, Socks, idVars, Unopened
  <1>3. /\ sock' \in [Users -> Socks]
        /\ \A v \in Users : /\ sock'[v] = "none" <=> sock[v] = "none"
                            /\ sock'[v] = "open" => sock[v] = "open"
    BY <1>1, <1>2, ClosingLemma
  <1>4. UNCHANGED <<clients, name, account, renamed, doubtful>>
    BY <1>1 DEF idVars
  <1> QED BY <1>1, <1>2, <1>3, <1>4, QuietIInv

LEMMA LoginAsksIInv ==
    ASSUME IInv, NEW u \in Users, NEW a \in Accounts, OnLogin(u, a) \/ LoginRefused(u, a)
    PROVE  IInv'
  <1>1. sock \in [Users -> Socks] /\ joined \subseteq Users /\ awaiting \subseteq Users \X Accounts
        /\ \A v \in joined : name[v] # NoName
    BY DEF IInv, TypeOK, TypeOKConnections, Socks
  <1>2. UNCHANGED <<clients, joined, name, account, renamed, doubtful>>
    BY DEF OnLogin, LoginRefused, connVars
  <1>3. awaiting' \subseteq Users \X Accounts
        /\ \A v \in Users, b \in Accounts : sock[v] = "none" => <<v, b>> \notin awaiting'
    <2>1. CASE OnLogin(u, a)
      <3>1. awaiting' = awaiting \cup {<<u, a>>} /\ sock[u] # "none"
        BY <2>1 DEF OnLogin, Talking
      <3> QED BY <1>1, <3>1 DEF IInv, Unopened
    <2>2. CASE LoginRefused(u, a)
      <3>1. awaiting' = awaiting \ {<<u, a>>}
        BY <2>2 DEF LoginRefused
      <3> QED BY <1>1, <3>1 DEF IInv, Unopened
    <2> QED BY <2>1, <2>2
  <1>4. /\ sock' \in [Users -> Socks]
        /\ \A v \in Users : /\ sock'[v] = "none" <=> sock[v] = "none"
                            /\ sock'[v] = "open" => sock[v] = "open"
    <2>1. sock' = sock \/ sock' = Closing(sock, u)
      BY DEF OnLogin, LoginRefused, connVars
    <2> QED BY <1>1, <2>1, ClosingLemma
  <1>5. UNCHANGED view \/ Hear([v \in Lists |-> v])
    BY DEF OnLogin, LoginRefused
  <1> QED BY <1>1, <1>2, <1>3, <1>4, <1>5, QuietIInv

LEMMA LeavesIInv ==
    ASSUME IInv, NEW u \in Users, Leaves(u)
    PROVE  IInv'
  <1> DEFINE told == [v \in Lists |-> IF u \in Connected THEN Removed(v, name[u]) ELSE v]
  <1>1. /\ Disconnected(u) /\ UNCHANGED <<name, account, awaiting, renamed>>
        /\ doubtful' = IF u \in Connected THEN doubtful \ {name[u]} ELSE doubtful
        /\ view' = [c \in Users |-> IF c \in Hearing' THEN told[view[c]] ELSE {}]
    BY DEF Leaves, Hear
  <1>2. ClientsInv /\ Connected \subseteq Users /\ TypeOK /\ ViewsExact
    BY ConnectedAreUsers DEF IInv, TypeOK, ClientsInv
  <1>3. /\ ClientsInv' /\ Connected' = Connected \ {u} /\ joined' = joined
        /\ \A v \in Users : /\ sock'[v] = "none" => sock[v] = "none"
                            /\ sock'[v] = "open" => sock[v] = "open"
    BY <1>1, <1>2, Left
  <1>4. Listed' = {name[c] : c \in Connected \ {u}} \ {NoName}
    BY <1>1, <1>3 DEF Listed
  <1>5. ASSUME NEW v \in Lists, Right(v, Listed, doubtful)
        PROVE  told[v] \in Lists /\ Right(told[v], Listed', doubtful')
    <2>2. CASE u \in Connected
      <3>1. Listed' = Listed \ {name[u]}
        BY <1>4, <2>2, ListWithout DEF IInv
      <3> QED BY <1>1, <1>5, <2>2, <3>1 DEF Removed, Lists, Right
    <2>3. CASE u \notin Connected
      <3>1. Listed' = Listed
        BY <1>4, <2>3 DEF Listed
      <3> QED BY <1>1, <1>5, <2>3, <3>1
    <2> QED BY <2>2, <2>3
  <1>6. view' \in [Users -> SUBSET Names] /\ ViewsExact'
    <2>1. told \in [Lists -> Lists]
      BY DEF Removed, Lists
    <2> HIDE DEF told
    <2> QED BY <1>1, <1>2, <1>3, <1>5, <2>1, Told
  <1>7. TypeOK'
    BY <1>1, <1>2, <1>3, <1>6 DEF TypeOK, ClientsInv
  <1>8. Unopened' /\ NamesUnique' /\ BearsAccount'
    BY <1>1, <1>3 DEF IInv, Unopened, NamesUnique, BearsAccount, Bearing
  <1> QED BY <1>3, <1>6, <1>7, <1>8 DEF IInv, ClientsInv

\* The list after one client has got another name, which nobody else had.
LEMMA ListRenamed ==
    ASSUME TypeOK, NamesUnique, NEW u \in Connected, NEW n \in Names, n # NoName,
           Connected \subseteq Users,
           n \in Listed => n = name[u],
           name' = [name EXCEPT ![u] = n], UNCHANGED clients
    PROVE  /\ Listed' = (Listed \ {name[u]}) \cup {n}
           /\ NamesUnique'
  <1>1. /\ Connected' = Connected /\ u \in Users
        /\ \A c \in Users : name'[c] = IF c = u THEN n ELSE name[c]
    BY DEF Connected, TypeOK
  <1>2. \A c \in Connected : name[c] = n => c = u
    BY DEF Listed, NamesUnique
  <1>3. NamesUnique'
    BY <1>1, <1>2 DEF NamesUnique
  <1>4. Listed' = ({name[c] : c \in Connected \ {u}} \cup {n}) \ {NoName}
    BY <1>1 DEF Listed
  <1>5. {name[c] : c \in Connected \ {u}} \ {NoName} = Listed \ {name[u]}
    BY ListWithout
  <1> QED BY <1>3, <1>4, <1>5

LEMMA RenamedList ==
    ASSUME NEW v \in Lists, NEW old, NEW n \in Names
    PROVE  /\ Renamed(v, old, n) \in Lists /\ Added(v, n) \in Lists
           /\ old \in v => Renamed(v, old, n) = (v \ {old}) \cup {n}
  BY DEF Renamed, Added, Lists

LEMMA OnRenameIInv ==
    ASSUME IInv, NEW u \in Users, OnRename(u)
    PROVE  IInv'
  <1>1. PICK g \in Guests \ Listed :
          /\ name' = [name EXCEPT ![u] = g]
          /\ Hear([v \in Lists |-> IF name[u] = NoName THEN Added(v, g)
                                   ELSE Renamed(v, name[u], g)])
          /\ doubtful' = Doubt(u, g, FALSE)
    BY DEF OnRename
  <1> DEFINE told == [v \in Lists |-> IF name[u] = NoName THEN Added(v, g)
                                      ELSE Renamed(v, name[u], g)]
  <1>2. view' = [c \in Users |-> IF c \in Hearing' THEN told[view[c]] ELSE {}]
    BY <1>1 DEF Hear
  <1>3. /\ sock[u] # "none" /\ account[u] = NoName
        /\ UNCHANGED <<sock, clients, joined, account, awaiting, renamed>>
    BY DEF OnRename, connVars, Talking
  <1>4. Connected \subseteq Users /\ TypeOK /\ ViewsExact /\ Connected' = Connected
    BY <1>3, ConnectedAreUsers DEF IInv, TypeOK, Connected
  <1>5. /\ g \in Names /\ g # NoName
        /\ \A c \in Users : name'[c] = IF c = u THEN g ELSE name[c]
    BY <1>1, <1>4, NamesAssumption DEF Names, TypeOK
  <1>6. u \in Connected => Listed' = (Listed \ {name[u]}) \cup {g} /\ NamesUnique'
    BY <1>1, <1>3, <1>4, <1>5, ListRenamed DEF IInv
  <1>7. told \in [Lists -> Lists]
    BY <1>5, RenamedList
  <1>8. ASSUME NEW v \in Lists, Right(v, Listed, doubtful)
        PROVE  Right(told[v], Listed', doubtful')
    <2>1. CASE u \in Connected
      <3>1. name[u] \in Listed \cup {NoName} /\ u \in InLine(clients')
        BY <1>4, <2>1 DEF Listed, Connected
      <3>2. told[v] = IF name[u] = NoName THEN Added(v, g) ELSE Renamed(v, name[u], g)
        OBVIOUS
      <3>3. Right(told[v], (Listed \ {name[u]}) \cup {g}, Doubt(u, g, FALSE))
        <4> HIDE DEF told
        <4> QED BY <1>4, <1>5, <1>8, <3>1, <3>2, RightRenamed
      <3> HIDE DEF told
      <3> QED BY <1>1, <1>6, <2>1, <3>3
    <2>2. CASE u \notin Connected
      <3>1. Listed' = Listed /\ u \notin InLine(clients')
        BY <1>4, <1>5, <2>2 DEF Listed, Connected
      <3>2. NoName \notin v
        BY NamesAssumption DEF Lists, Names
      <3> QED BY <1>1, <1>5, <1>8, <3>1, <3>2, RightStray
    <2> QED BY <2>1, <2>2
  <1> HIDE DEF told
  <1>9. view' \in [Users -> SUBSET Names] /\ ViewsExact'
    BY <1>2, <1>3, <1>4, <1>7, <1>8, Told
  <1>10. NamesUnique'
    <2>1. CASE u \in Connected
      BY <1>6, <2>1
    <2>2. CASE u \notin Connected
      BY <1>4, <1>5, <2>2 DEF IInv, NamesUnique
    <2> QED BY <2>1, <2>2
  <1>11. TypeOK'
    <2>1. name' \in [Users -> Names \cup {NoName}]
      BY <1>1, <1>4, <1>5 DEF TypeOK
    <2>2. doubtful' \subseteq Names
      BY <1>1, <1>4, <1>5, DoubtType
    <2> QED BY <1>3, <1>4, <1>5, <1>9, <2>1, <2>2 DEF TypeOK, TypeOKConnections
  <1>12. Unopened' /\ BearsAccount'
    BY <1>3, <1>4, <1>5, NamesAssumption DEF IInv, Unopened, BearsAccount, Bearing
  <1> QED BY <1>3, <1>9, <1>10, <1>11, <1>12 DEF IInv

LEMMA OnAdminRenameIInv ==
    ASSUME IInv, NEW u \in Users, NEW wanted \in Names \cup {NoName}, OnAdminRename(u, wanted)
    PROVE  IInv'
  <1>1. PICK n \in NameFor(u, wanted, Listed) :
          /\ name' = [name EXCEPT ![u] = n]
          /\ Hear([v \in Lists |-> Renamed(v, name[u], n)])
          /\ renamed' = IF n = name[u] THEN renamed ELSE renamed \cup {u}
          /\ doubtful' = Doubt(u, n, FALSE)
    BY DEF OnAdminRename
  <1> DEFINE told == [v \in Lists |-> Renamed(v, name[u], n)]
  <1>2. view' = [c \in Users |-> IF c \in Hearing' THEN told[view[c]] ELSE {}]
    BY <1>1 DEF Hear
  <1>3. /\ u \in Connected /\ name[u] # NoName
        /\ UNCHANGED <<sock, clients, joined, account, awaiting>>
    BY DEF OnAdminRename, connVars
  <1>4. Connected \subseteq Users /\ TypeOK /\ ViewsExact /\ Connected' = Connected
    BY <1>3, ConnectedAreUsers DEF IInv, TypeOK, Connected
  <1>5. /\ n \in Names /\ n # NoName
        /\ n \in Listed => n = name[u]
        /\ \A c \in Users : name'[c] = IF c = u THEN n ELSE name[c]
    <2>1. n \in Names /\ n # NoName
      BY <1>3, <1>4, NameForLemma
    <2>2. n \in Listed => n = name[u]
      BY <1>3, <1>4, NameForLemma
    <2> QED BY <1>1, <1>4, <2>1, <2>2 DEF TypeOK
  <1>6. Listed' = (Listed \ {name[u]}) \cup {n} /\ NamesUnique'
    BY <1>1, <1>3, <1>4, <1>5, ListRenamed DEF IInv
  <1>7. told \in [Lists -> Lists]
    BY <1>5, RenamedList
  <1>8. ASSUME NEW v \in Lists, Right(v, Listed, doubtful)
        PROVE  Right(told[v], Listed', doubtful')
    <2>1. name[u] \in Listed /\ u \in InLine(clients')
      BY <1>3, <1>4 DEF Listed, Connected
    <2> QED BY <1>1, <1>3, <1>4, <1>5, <1>6, <1>8, <2>1, RightRenamed
  <1> HIDE DEF told
  <1>9. view' \in [Users -> SUBSET Names] /\ ViewsExact'
    BY <1>2, <1>3, <1>4, <1>7, <1>8, Told
  <1>10. TypeOK'
    <2>1. name' \in [Users -> Names \cup {NoName}] /\ renamed' \subseteq Users
      BY <1>1, <1>3, <1>4, <1>5 DEF TypeOK
    <2>2. doubtful' \subseteq Names
      BY <1>1, <1>4, <1>5, DoubtType
    <2> QED BY <2>2,  <1>3, <1>4, <1>5, <1>9, <2>1 DEF TypeOK, TypeOKConnections
  <1>11. Unopened' /\ BearsAccount'
    <2>1. \A c \in Users : c \notin renamed' => name'[c] = name[c] /\ c \notin renamed
      BY <1>1, <1>5
    <2>2. BearsAccount'
      BY <1>3, <1>4, <2>1 DEF IInv, BearsAccount, Bearing
    <2>3. sock[u] # "none"
      BY <1>3, <1>4 DEF IInv, Unopened
    <2>4. Unopened'
      BY <1>3, <1>4, <1>5, <2>3 DEF IInv, Unopened
    <2> QED BY <2>2, <2>4
  <1> QED BY <1>3, <1>6, <1>9, <1>10, <1>11 DEF IInv

\* After the displacement nobody bears the name of the account, and the list is
\* without it.
LEMMA Displacing ==
    ASSUME IInv, NEW a \in Accounts, DisplaceBearer(a)
    PROVE  /\ ClientsInv' /\ Connected' \subseteq Connected /\ joined' = joined
           /\ \A c \in Connected' : name[c] # a
           /\ \A v \in Users : /\ sock'[v] = "none" => sock[v] = "none"
                               /\ sock'[v] = "open" => sock[v] = "open"
           /\ {name[c] : c \in Connected'} \ {NoName} =
                  IF Bearers(a) = {} THEN Listed ELSE Removed(Listed, a)
  <1>1. ClientsInv /\ Connected \subseteq Users /\ TypeOK /\ NamesUnique /\ a # NoName
    BY ConnectedAreUsers, NamesAssumption DEF IInv, TypeOK, ClientsInv
  <1>2. CASE Bearers(a) = {} /\ UNCHANGED connVars
    <2>1. UNCHANGED <<sock, clients, joined>> /\ Connected' = Connected
      BY <1>2 DEF connVars, Connected
    <2>2. ClientsInv'
      BY <1>1, <2>1 DEF ClientsInv, TypeOKConnections
    <2> QED BY <1>2, <2>1, <2>2 DEF Bearers, Listed
  <1>3. CASE \E old \in Bearers(a) : Displaced(old)
    <2>1. PICK old \in Bearers(a) : Displaced(old)
      BY <1>3
    <2>2. old \in Connected /\ old \in Users /\ name[old] = a
      BY <1>1 DEF Bearers
    <2>3. /\ ClientsInv' /\ Connected' = Connected \ {old} /\ joined' = joined
          /\ \A v \in Users : /\ sock'[v] = "none" => sock[v] = "none"
                              /\ sock'[v] = "open" => sock[v] = "open"
      BY <1>1, <2>1, <2>2, Left
    <2>4. \A c \in Connected' : name[c] # a
      BY <1>1, <2>2, <2>3 DEF NamesUnique
    <2>5. {name[c] : c \in Connected \ {old}} \ {NoName} = Listed \ {a}
      BY <1>1, <2>2, ListWithout
    <2> QED BY <2>1, <2>3, <2>4, <2>5 DEF Removed
  <1> QED BY <1>2, <1>3 DEF DisplaceBearer

LEMMA LoginAcceptedIInv ==
    ASSUME IInv, NEW u \in Users, NEW a \in Accounts, LoginAccepted(u, a)
    PROVE  IInv'
  <1>0. PICK n \in NameFor(u, a, {name[c] : c \in InLine(clients')}) :
          /\ name' = [name EXCEPT ![u] = n]
          /\ Hear([v \in Lists |->
                 Added(Renamed(IF Bearers(a) = {} THEN v ELSE Removed(v, a), name[u], n), n)])
          /\ doubtful' = Doubt(u, n, TRUE)
    BY DEF LoginAccepted
  <1> DEFINE mid == {name[c] : c \in Connected'} \ {NoName}
             told == [v \in Lists |->
                        Added(Renamed(IF Bearers(a) = {} THEN v ELSE Removed(v, a),
                                      name[u], n), n)]
  <1>1. /\ <<u, a>> \in awaiting /\ awaiting' = awaiting \ {<<u, a>>}
        /\ account' = [account EXCEPT ![u] = a] /\ renamed' = renamed \ {u}
        /\ DisplaceBearer(a)
    BY DEF LoginAccepted
  <1>2. /\ ClientsInv' /\ Connected' \subseteq Connected /\ joined' = joined
        /\ \A c \in Connected' : name[c] # a
        /\ \A v \in Users : /\ sock'[v] = "none" => sock[v] = "none"
                            /\ sock'[v] = "open" => sock[v] = "open"
        /\ mid = IF Bearers(a) = {} THEN Listed ELSE Removed(Listed, a)
    BY <1>1, Displacing
  <1>3. Connected \subseteq Users /\ TypeOK /\ ViewsExact /\ NamesUnique
    BY ConnectedAreUsers DEF IInv, TypeOK
  <1>4. /\ n \in Names /\ n # NoName
        /\ \A c \in Connected' : name[c] # n
        /\ a \in Accounts \ Refused => n = a
    <2>1. a \in Names /\ a # NoName
      BY NamesAssumption DEF Names
    <2>2. a \notin {name[c] : c \in InLine(clients')}
      BY <1>2 DEF Connected
    <2> QED BY <1>0, <1>2, <1>3, <2>1, <2>2, NameForLemma DEF Connected
  <1>5. view' = [c \in Users |-> IF c \in Hearing' THEN told[view[c]] ELSE {}]
    BY <1>0 DEF Hear
  <1>6. \A c \in Users : name'[c] = IF c = u THEN n ELSE name[c]
    BY <1>0, <1>3 DEF TypeOK
  <1>7. told \in [Lists -> Lists]
    <2> SUFFICES ASSUME NEW v \in Lists PROVE told[v] \in Lists
      OBVIOUS
    <2>1. (IF Bearers(a) = {} THEN v ELSE Removed(v, a)) \in Lists
      BY DEF Removed, Lists
    <2> QED BY <1>4, <2>1, RenamedList
  <1>8. ASSUME NEW v \in Lists, Right(v, Listed, doubtful)
        PROVE  Right(told[v], Listed', doubtful')
    <2> DEFINE w == IF Bearers(a) = {} THEN v ELSE Removed(v, a)
    <2>1. Right(w, mid, doubtful) /\ NoName \notin w
      BY <1>2, <1>8, NamesAssumption DEF Right, Removed, Lists, Names
    <2>2. told[v] = Added(Renamed(w, name[u], n), n)
      OBVIOUS
    <2>3. CASE u \in Connected'
      <3>1. Listed' = ({name[c] : c \in Connected' \ {u}} \cup {n}) \ {NoName}
        BY <1>2, <1>3, <1>6, <2>3 DEF Listed
      <3>2. {name[c] : c \in Connected' \ {u}} \ {NoName} = mid \ {name[u]}
        BY <1>2, <1>3, <2>3 DEF NamesUnique
      <3>3. Listed' = (mid \ {name[u]}) \cup {n}
        BY <1>4, <3>1, <3>2
      <3> HIDE DEF w, mid, told
      <3> QED BY <1>0, <2>1, <2>2, <2>3, <3>3, RightAnnounced DEF Connected
    <2>4. CASE u \notin Connected'
      <3>1. Listed' = mid
        BY <1>2, <1>3, <1>6, <2>4 DEF Listed
      <3> HIDE DEF w, mid, told
      <3> QED BY <1>0, <1>4, <2>1, <2>2, <2>4, <3>1, RightStray DEF Connected
    <2> QED BY <2>3, <2>4
  <1> HIDE DEF told, mid
  <1>9. view' \in [Users -> SUBSET Names] /\ ViewsExact'
    <2>1. \A c \in Connected' : sock'[c] = "open" => sock[c] = "open"
      BY <1>2, <1>3
    <2> QED BY <1>2, <1>3, <1>5, <1>7, <1>8, <2>1, Told
  <1>10. TypeOK'
    <2>1. /\ name' \in [Users -> Names \cup {NoName}] /\ account' \in [Users -> Accounts \cup {NoName}]
          /\ awaiting' \subseteq Users \X Accounts /\ renamed' \subseteq Users /\ doubtful' \subseteq Names
      BY <1>0, <1>1, <1>3, <1>4, DoubtType DEF TypeOK
    <2>2. \A v \in joined' : name'[v] # NoName
      BY <1>2, <1>3, <1>4, <1>6 DEF TypeOK, TypeOKConnections
    <2> QED BY <1>2, <1>9, <2>1, <2>2 DEF TypeOK, ClientsInv
  <1>11. NamesUnique'
    BY <1>2, <1>3, <1>4, <1>6 DEF NamesUnique
  <1>12. BearsAccount'
    <2>1. \A c \in Users : account'[c] = IF c = u THEN a ELSE account[c]
      BY <1>1, <1>3 DEF TypeOK
    <2> QED BY <1>1, <1>2, <1>3, <1>4, <1>6, <2>1 DEF IInv, BearsAccount, Bearing
  <1>13. Unopened'
    <2>1. \A c \in Users : account'[c] = IF c = u THEN a ELSE account[c]
      BY <1>1, <1>3 DEF TypeOK
    <2>2. sock[u] # "none"
      BY <1>1 DEF IInv, Unopened
    <2> QED BY <1>1, <1>2, <1>6, <2>1, <2>2 DEF IInv, Unopened
  <1> QED BY <1>2, <1>9, <1>10, <1>11, <1>12, <1>13 DEF IInv, ClientsInv

LEMMA NextIInv == IInv /\ [Next]_vars => IInv'
  <1> SUFFICES ASSUME IInv, [Next]_vars PROVE IInv'
    OBVIOUS
  <1>1. CASE Next
    BY <1>1, OpensIInv, JoinsIInv, SocketClosesIInv, LeavesIInv, OnRenameIInv,
       LoginAsksIInv, LoginAcceptedIInv, OnAdminRenameIInv DEF Next
  <1>2. CASE UNCHANGED vars
    BY <1>2 DEF vars, connVars, idVars, IInv, TypeOK, TypeOKConnections, Unopened,
                NamesUnique, BearsAccount, Bearing, ViewsExact, Connected, Listed
  <1> QED BY <1>1, <1>2

-----------------------------------------------------------------------------
\* What names, accounts and lists rest on is kept by every connection, login,
\* displacement and renaming (CollabVMServer.ts 143-281, 668-676, 832-892).
THEOREM Invariance == Spec => []IInv
  BY InitIInv, NextIInv, PTL DEF Spec

\* The variables keep their types, and whoever is at the node has a name.
THEOREM TypeCorrect == Spec => []TypeOK
  <1>1. IInv => TypeOK
    BY DEF IInv
  <1> QED BY <1>1, Invariance, PTL

\* No two clients ever have the same name (renameUser 855, onLogin 240-281).
THEOREM NamesUniqueHolds == Spec => []NamesUnique
  <1>1. IInv => NamesUnique
    BY DEF IInv
  <1> QED BY <1>1, Invariance, PTL

\* The list of each client that can hear the server is exact, but for the names of
\* users who were announced or renamed after they had left, until the next who
\* bears such a name comes or goes (onLogin 262-281, connectionClosed 176-205).
THEOREM ViewsExactHolds == Spec => []ViewsExact
  <1>1. IInv => ViewsExact
    BY DEF IInv
  <1> QED BY <1>1, Invariance, PTL

\* Of two clients logged in to one account whose name is not refused, staff have
\* renamed at least one (onLogin 240-246).
THEOREM OneSessionHolds == Spec => []OneSessionPerAccount
  <1>1. IInv => OneSessionPerAccount
    BY NamesAssumption DEF IInv, Bearing, BearsAccount, NamesUnique, OneSessionPerAccount
  <1> QED BY <1>1, Invariance, PTL
=============================================================================
