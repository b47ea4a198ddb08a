---------------------------- MODULE AccessProofs ----------------------------
(***************************************************************************)
(* What holds of the data of addresses, of mutes and of bans for any       *)
(* number of connections and addresses.                                    *)
(***************************************************************************)
EXTENDS Access, FiniteSetTheorems, TLAPS

\* Who has been given the data of his address.
Entered == {u \in Users : socket[u] \in {"open", "closing", "closed"}}

\* An object is named by a user who has entered, and belongs to his address.
ObjectsBelong ==
    /\ \A u \in Entered : /\ holder[u] \in Entered
                          /\ IPOf[holder[u]] = IPOf[u]
    /\ \A a \in Addresses : ipDatas[a] # NoData =>
          ipDatas[a] \in Entered /\ IPOf[ipDatas[a]] = a

\* The rows of the table are the keys of the bans that have been written.
BansWritten ==
    /\ \A v \in Users : banStage[v] \in {"inserted", "done"} => FormatIP(IPOf[v]) \in bans
    /\ \A b \in bans : \E v \in Users : /\ banStage[v] \in {"inserted", "done"}
                                        /\ FormatIP(IPOf[v]) = b

\* The inductive invariant.
IInv == TypeOK /\ ObjectsBelong /\ SharedData /\ BansWritten /\ ExitExplained

\* The steps that end the process whatever is banned.
Fails == DbFails \/ \E u \in Users : SocketReset(u)

\* The part that is about the data of addresses.
DataInv == ObjectsBelong /\ SharedData

-----------------------------------------------------------------------------
(* Keys of the ban table.                                                  *)

\* The key of an address says no less than the scope a ban of it has.
LEMMA KeyIsScope ==
    ASSUME NEW u \in Users, NEW v \in Users
    PROVE  SameScope(IPOf[u], IPOf[v]) <=> FormatIP(IPOf[u]) = FormatIP(IPOf[v])
  <1> DEFINE Addr == [family : {4, 6}, net : Nat, host : Nat]
  <1>1. IPOf[u] \in Addr /\ IPOf[v] \in Addr
    BY AddressAssumption
  <1>2. \A a \in Addr : /\ a = [family |-> a.family, net |-> a.net, host |-> a.host]
                         /\ a.family \in {4, 6}
    OBVIOUS
  <1>3. \A a \in Addr : a.family = 6 =>
           FormatIP(a) = [family |-> 6, net |-> a.net, host |-> 0]
    BY DEF FormatIP
  <1>4. \A a \in Addr : a.family = 4 => FormatIP(a) = a
    BY DEF FormatIP
  <1>5. CASE IPOf[u].family = 4 /\ IPOf[v].family = 4
    BY <1>1, <1>4, <1>5 DEF SameScope
  <1>6. CASE IPOf[u].family = 6 /\ IPOf[v].family = 6
    BY <1>1, <1>3, <1>6 DEF SameScope
  <1>7. CASE IPOf[u].family # IPOf[v].family
    BY <1>1, <1>2, <1>3, <1>4, <1>7 DEF SameScope
  <1> QED BY <1>1, <1>2, <1>5, <1>6, <1>7

LEMMA KeyFamily ==
    ASSUME NEW u \in Users
    PROVE  FormatIP(IPOf[u]).family \in {4, 6}
  BY AddressAssumption DEF FormatIP

-----------------------------------------------------------------------------
(* The data of addresses.                                                  *)

LEMMA HoldersFinite ==
    ASSUME NEW o
    PROVE  /\ IsFiniteSet(Holders(o))
           /\ Cardinality(Holders(o)) \in Nat
  <1>1. Holders(o) \in SUBSET Users
    BY DEF Holders
  <1> QED BY <1>1, UsersAssumption, FS_Subset, FS_CardinalityType

\* A step that opens and closes nothing and leaves objects and counts alone.
LEMMA DataStays ==
    ASSUME DataInv, UNCHANGED <<ipDatas, holder, refCount>>,
           \A u \in Users : Live(u)' = Live(u), Entered' = Entered
    PROVE  DataInv'
  <1>1. \A o : Holders(o)' = Holders(o)
    BY DEF Holders
  <1> QED BY <1>1 DEF DataInv, ObjectsBelong, SharedData

\* A step of one socket between stages on the same side of opening and closing.
LEMMA SocketStays ==
    ASSUME TypeOK, DataInv, UNCHANGED <<ipDatas, holder, refCount>>,
           NEW u \in Users, NEW s, socket' = [socket EXCEPT ![u] = s],
           s \in {"open", "closing"} <=> socket[u] \in {"open", "closing"},
           s = "closed" <=> socket[u] = "closed"
    PROVE  DataInv'
  <1>1. /\ socket'[u] = s
        /\ \A v \in Users : v # u => socket'[v] = socket[v]
    BY DEF TypeOK
  <1>2. \A v \in Users : Live(v)' = Live(v)
    BY <1>1 DEF Live
  <1>3. Entered' = Entered
    BY <1>1 DEF Entered
  <1> QED BY <1>2, <1>3, DataStays

LEMMA ClosedStays ==
    ASSUME TypeOK, DataInv, UNCHANGED <<ipDatas, holder, refCount>>,
           NEW u \in Users, socket' = Closed(u)
    PROVE  DataInv'
  <1> DEFINE s == IF socket[u] = "open" THEN "closing" ELSE socket[u]
  <1>1. socket' = [socket EXCEPT ![u] = s]
    BY DEF Closed
  <1>2. /\ s \in {"open", "closing"} <=> socket[u] \in {"open", "closing"}
        /\ s = "closed" <=> socket[u] = "closed"
    OBVIOUS
  <1> QED BY <1>1, <1>2, SocketStays

\* A connection that opens shares the object of its address; if there is none,
\* nobody of the address is connected and no object bears its name.
LEMMA OpenData ==
    ASSUME TypeOK, DataInv, NEW u \in Users, Open(u)
    PROVE  DataInv'
  <1> DEFINE a == IPOf[u]
             known == ipDatas[a] # NoData
             o == IF known THEN ipDatas[a] ELSE u
  <1>1. /\ a \in Addresses /\ ipDatas \in [Addresses -> Users \cup {NoData}]
        /\ holder \in [Users -> Users \cup {NoData}] /\ refCount \in [Users -> Nat]
        /\ socket \in [Users -> {"none", "checking", "passed", "banned",
                                 "open", "closing", "closed", "refused"}]
    BY DEF Addresses, TypeOK, DataTypeOK
  <1>2. /\ ipDatas' = [ipDatas EXCEPT ![a] = o]
        /\ holder' = [holder EXCEPT ![u] = o]
        /\ refCount' = [refCount EXCEPT ![o] = IF known THEN refCount[o] + 1 ELSE 1]
    BY DEF Open, GetIPData
  <1>3. socket[u] = "passed" /\ socket' = [socket EXCEPT ![u] = "open"]
    BY DEF Open
  <1>4. u \notin Entered /\ ~Live(u) /\ Live(u)' /\ Entered' = Entered \cup {u}
    BY <1>1, <1>3 DEF Entered, Live
  <1>5. \A v \in Users : v # u => Live(v)' = Live(v)
    BY <1>1, <1>3 DEF Live
  <1>6. \A v \in Users : Live(v) => v \in Entered
    BY DEF Live, Entered
  <1>7. o \in Users /\ IPOf[o] = a /\ (known => o \in Entered)
    BY <1>1 DEF DataInv, ObjectsBelong, Entered
  <1>8. ObjectsBelong'
    <2>1. ASSUME NEW v \in Entered' PROVE holder'[v] \in Entered' /\ IPOf[holder'[v]] = IPOf[v]
      <3>1. CASE v = u
        BY <1>1, <1>2, <1>4, <1>7, <3>1
      <3>2. CASE v # u
        <4>1. v \in Entered /\ v \in Users
          BY <1>4, <2>1, <3>2 DEF Entered
        <4> QED BY <1>1, <1>2, <1>4, <3>2, <4>1 DEF DataInv, ObjectsBelong
      <3> QED BY <3>1, <3>2
    <2>2. ASSUME NEW b \in Addresses, ipDatas'[b] # NoData
          PROVE  ipDatas'[b] \in Entered' /\ IPOf[ipDatas'[b]] = b
      <3>1. CASE b = a
        BY <1>1, <1>2, <1>4, <1>7, <3>1
      <3>2. CASE b # a
        BY <1>1, <1>2, <1>4, <2>2, <3>2 DEF DataInv, ObjectsBelong
      <3> QED BY <3>1, <3>2
    <2> QED BY <2>1, <2>2 DEF ObjectsBelong
  <1>9. \A v \in Users : Live(v) => ipDatas[IPOf[v]] = holder[v] /\ holder[v] # NoData
    BY <1>6, UsersAssumption DEF DataInv, SharedData, ObjectsBelong, Entered
  <1>10. ASSUME NEW v \in Users, Live(v)'
         PROVE  ipDatas'[IPOf[v]] = holder'[v]
    <2>1. CASE v = u
      BY <1>1, <1>2, <2>1
    <2>2. CASE v # u
      <3>1. Live(v) /\ holder'[v] = holder[v] /\ IPOf[v] \in Addresses
        BY <1>1, <1>2, <1>5, <1>10, <2>2 DEF Addresses
      <3>2. CASE IPOf[v] = a
        BY <1>1, <1>2, <1>9, <3>1, <3>2
      <3>3. CASE IPOf[v] # a
        BY <1>1, <1>2, <1>9, <3>1, <3>3
      <3> QED BY <3>2, <3>3
    <2> QED BY <2>1, <2>2
  <1>11. Holders(o)' = Holders(o) \cup {u} /\ u \notin Holders(o)
    BY <1>1, <1>2, <1>4, <1>5 DEF Holders
  <1>12. ~known => Holders(o) = {}
    BY <1>4, <1>6 DEF Holders, DataInv, ObjectsBelong
  <1>13. ASSUME NEW p \in Users
         PROVE  refCount'[p] = Cardinality(Holders(p)')
    <2>1. CASE p = o
      <3>1. Cardinality(Holders(o)') = Cardinality(Holders(o)) + 1
        BY <1>11, HoldersFinite, FS_AddElement
      <3>2. CASE known
        BY <1>1, <1>2, <1>7, <2>1, <3>1, <3>2 DEF DataInv, SharedData
      <3>3. CASE ~known
        BY <1>1, <1>2, <1>7, <1>12, <2>1, <3>1, <3>3, FS_EmptySet
      <3> QED BY <3>2, <3>3
    <2>2. CASE p # o
      <3>1. Holders(p)' = Holders(p)
        BY <1>1, <1>2, <1>4, <1>5, <2>2 DEF Holders
      <3> QED BY <1>1, <1>2, <2>2, <3>1 DEF DataInv, SharedData
    <2> QED BY <2>1, <2>2
  <1> QED BY <1>8, <1>10, <1>13 DEF DataInv, SharedData

\* A connection that is gone is counted once less, and the others still share.
LEMMA DisconnectData ==
    ASSUME TypeOK, DataInv, NEW u \in Users, Disconnect(u)
    PROVE  DataInv'
  <1> DEFINE o == holder[u]
  <1>1. /\ refCount \in [Users -> Nat]
        /\ socket \in [Users -> {"none", "checking", "passed", "banned",
                                 "open", "closing", "closed", "refused"}]
    BY DEF TypeOK, DataTypeOK
  <1>2. /\ socket[u] = "closing" /\ socket' = [socket EXCEPT ![u] = "closed"]
        /\ refCount' = [refCount EXCEPT ![o] = IF refCount[o] - 1 < 0 THEN 0 ELSE refCount[o] - 1]
        /\ UNCHANGED <<ipDatas, holder>>
    BY DEF Disconnect, Unref
  <1>3. Live(u) /\ ~Live(u)' /\ u \in Entered /\ Entered' = Entered
    BY <1>1, <1>2 DEF Live, Entered
  <1>4. \A v \in Users : v # u => Live(v)' = Live(v)
    BY <1>1, <1>2 DEF Live
  <1>5. o \in Users
    BY <1>3 DEF DataInv, ObjectsBelong, Entered
  <1>6. ObjectsBelong'
    BY <1>2, <1>3 DEF DataInv, ObjectsBelong
  <1>7. \A v \in Users : Live(v)' => ipDatas'[IPOf[v]] = holder'[v]
    BY <1>2, <1>3, <1>4 DEF DataInv, SharedData
  <1>8. ASSUME NEW p \in Users
        PROVE  refCount'[p] = Cardinality(Holders(p)')
    <2>1. CASE p = o
      <3>1. Holders(o)' = Holders(o) \ {u} /\ u \in Holders(o)
        BY <1>2, <1>3, <1>4 DEF Holders
      <3>2. Cardinality(Holders(o)') = Cardinality(Holders(o)) - 1
        BY <3>1, HoldersFinite, FS_RemoveElement
      <3>3. Cardinality(Holders(o)) \in Nat /\ Cardinality(Holders(o)) # 0
        BY <3>1, HoldersFinite, FS_EmptySet
      <3>4. refCount[o] = Cardinality(Holders(o))
        BY <1>5 DEF DataInv, SharedData
      <3> QED BY <1>1, <1>2, <1>5, <2>1, <3>2, <3>3, <3>4
    <2>2. CASE p # o
      <3>1. Holders(p)' = Holders(p)
        BY <1>2, <1>3, <1>4, <2>2 DEF Holders
      <3> QED BY <1>1, <1>2, <2>2, <3>1 DEF DataInv, SharedData
    <2> QED BY <2>1, <2>2
  <1> QED BY <1>6, <1>7, <1>8 DEF DataInv, SharedData

\* The collection finds nothing that is in use: a count of zero means that no
\* connection holds the object.
LEMMA CollectData ==
    ASSUME TypeOK, DataInv, GarbageCollect
    PROVE  DataInv'
  <1>1. /\ ipDatas' = [a \in Addresses |->
                         IF ipDatas[a] # NoData /\ refCount[ipDatas[a]] = 0
                         THEN NoData ELSE ipDatas[a]]
        /\ UNCHANGED <<holder, refCount, socket>>
    BY DEF GarbageCollect, Collect, accessVars
  <1>2. /\ \A v \in Users : Live(v)' = Live(v)
        /\ Entered' = Entered /\ \A p : Holders(p)' = Holders(p)
    BY <1>1 DEF Live, Entered, Holders
  <1>3. ObjectsBelong'
    BY <1>1, <1>2 DEF DataInv, ObjectsBelong
  <1>4. ASSUME NEW v \in Users, Live(v)
        PROVE  ipDatas'[IPOf[v]] = holder[v]
    <2>1. ipDatas[IPOf[v]] = holder[v] /\ IPOf[v] \in Addresses
      BY <1>4 DEF DataInv, SharedData, Addresses
    <2>2. holder[v] \in Users /\ v \in Holders(holder[v])
      BY <1>4 DEF Holders, Live, Entered, DataInv, ObjectsBelong
    <2>3. refCount[holder[v]] # 0
      BY <2>2, HoldersFinite, FS_EmptySet DEF DataInv, SharedData
    <2> QED BY <1>1, <2>1, <2>3
  <1> QED BY <1>1, <1>2, <1>3, <1>4 DEF DataInv, SharedData

-----------------------------------------------------------------------------
(* Types.                                                                  *)

\* The objects of the users who have entered are users.
LEMMA HolderTyped ==
    ASSUME DataInv, NEW u \in Users, Live(u)
    PROVE  holder[u] \in Users
  BY DEF DataInv, ObjectsBelong, Entered, Live

LEMMA MuteTypes ==
    ASSUME TypeOK, DataInv, NEW u \in Users, Live(u), NEW b, Mute(u, b)
    PROVE  DataTypeOK'
  BY HolderTyped DEF Mute, TypeOK, DataTypeOK

LEMMA ClosedTypes ==
    ASSUME TypeOK, NEW u \in Users
    PROVE  Closed(u) \in [Users -> {"none", "checking", "passed", "banned",
                                    "open", "closing", "closed", "refused"}]
  BY DEF Closed, TypeOK

LEMMA SocketTypes ==
    ASSUME TypeOK, NEW u \in Users,
           Upgrade(u) \/ Query(u) \/ Forbid(u) \/ HangUp(u)
    PROVE  TypeOK'
  <1>1. /\ UNCHANGED <<up, failed, dataVars, bans, banVars, alive, asked, requests, window>>
        /\ \E s \in {"refused", "checking", "banned", "passed", "closing"} :
               socket' = [socket EXCEPT ![u] = s]
    BY DEF Upgrade, Query, Forbid, HangUp
  <1>2. PICK s \in {"refused", "checking", "banned", "passed", "closing"} :
               socket' = [socket EXCEPT ![u] = s]
    BY <1>1
  <1>3. socket' \in [Users -> {"none", "checking", "passed", "banned",
                               "open", "closing", "closed", "refused"}]
    BY <1>2 DEF TypeOK
  <1> QED BY <1>1, <1>3 DEF banVars, TypeOK, DataTypeOK, dataVars

LEMMA OpenTypes ==
    ASSUME TypeOK, NEW u \in Users, Open(u)
    PROVE  TypeOK'
  <1> DEFINE a == IPOf[u]
             o == IF ipDatas[a] # NoData THEN ipDatas[a] ELSE u
  <1>1. a \in Addresses /\ o \in Users
    BY DEF Addresses, TypeOK, DataTypeOK
  <1>2. /\ ipDatas' = [ipDatas EXCEPT ![a] = o]
        /\ holder' = [holder EXCEPT ![u] = o]
        /\ refCount' = [refCount EXCEPT ![o] = IF ipDatas[a] # NoData THEN refCount[o] + 1 ELSE 1]
        /\ UNCHANGED <<muted, timer>>
    BY DEF Open, GetIPData
  <1>3. DataTypeOK'
    BY <1>1, <1>2 DEF TypeOK, DataTypeOK
  <1>4. socket' = [socket EXCEPT ![u] = "open"]
        /\ UNCHANGED <<up, failed, bans, banVars, alive, asked, requests, window>>
    BY DEF Open
  <1> QED BY <1>3, <1>4 DEF banVars, TypeOK

LEMMA LeaveTypes ==
    ASSUME TypeOK, DataInv, NEW u \in Users, Kick(u) \/ Disconnect(u)
    PROVE  TypeOK'
  <1>1. CASE Kick(u)
    BY <1>1, ClosedTypes DEF banVars, Kick, TypeOK, DataTypeOK, dataVars
  <1>2. CASE Disconnect(u)
    <2>1. Live(u)
      BY <1>2 DEF Disconnect, Live
    <2>2. holder[u] \in Users
      BY <2>1, HolderTyped
    <2>3. DataTypeOK'
      BY <1>2, <2>2 DEF Disconnect, Unref, TypeOK, DataTypeOK
    <2> QED BY <1>2, <2>3 DEF banVars, Disconnect, TypeOK
  <1> QED BY <1>1, <1>2

LEMMA KeepAliveTypes ==
    ASSUME TypeOK, NEW u \in Users,
           FallsSilent(u) \/ OnNoMsg(u) \/ OnNop(u) \/ NopTimeout(u)
    PROVE  TypeOK'
  <1>1. /\ socket' = socket \/ socket' = Closed(u)
        /\ alive' \in SUBSET Users /\ asked' \in SUBSET Users
        /\ UNCHANGED <<up, failed, dataVars, bans, banVars, requests, window>>
    BY DEF FallsSilent, OnNoMsg, OnNop, NopTimeout, TypeOK
  <1> QED BY <1>1, ClosedTypes DEF banVars, TypeOK, DataTypeOK, dataVars

\* The count of a limiter stays below its limit.
LEMMA ChatTypes ==
    ASSUME TypeOK, DataInv, NEW u \in Users, OnChat(u) \/ WindowEnds(u)
    PROVE  TypeOK'
  <1>1. requests[u] \in 0 .. ChatLimit - 1 /\ ChatLimit \in Nat \ {0}
    BY ChatLimitAssumption DEF TypeOK
  <1>2. CASE WindowEnds(u)
    <2>1. requests' \in [Users -> 0 .. ChatLimit - 1] /\ window' \in SUBSET Users
      BY <1>1, <1>2 DEF WindowEnds, TypeOK
    <2> QED BY <1>2, <2>1 DEF banVars, WindowEnds, TypeOK, DataTypeOK, dataVars
  <1>3. CASE OnChat(u)
    <2>1. UNCHANGED <<up, failed, socket, bans, banVars, alive, asked>> /\ Live(u)
      BY <1>3 DEF OnChat, Live
    <2>2. CASE Trips(u)
      <3>1. /\ Mute(u, FALSE) /\ requests' = [requests EXCEPT ![u] = 0]
            /\ window' = window \ {u}
        BY <1>3, <2>2 DEF OnChat
      <3>2. DataTypeOK'
        BY <2>1, <3>1, MuteTypes
      <3>3. requests' \in [Users -> 0 .. ChatLimit - 1]
        BY <1>1, <3>1 DEF TypeOK
      <3> QED BY <2>1, <3>1, <3>2, <3>3 DEF banVars, TypeOK
    <2>3. CASE ~Trips(u)
      <3>1. /\ requests' = [requests EXCEPT ![u] = requests[u] + 1]
            /\ window' = window \cup {u} /\ UNCHANGED dataVars
        BY <1>3, <2>3 DEF OnChat
      <3>2. requests[u] + 1 \in 0 .. ChatLimit - 1
        BY <1>1, <2>3 DEF Trips
      <3>3. requests' \in [Users -> 0 .. ChatLimit - 1]
        BY <3>1, <3>2 DEF TypeOK
      <3> QED BY <2>1, <3>1, <3>3 DEF banVars, TypeOK, DataTypeOK, dataVars
    <2> QED BY <2>2, <2>3
  <1> QED BY <1>2, <1>3

LEMMA MuteStepTypes ==
    ASSUME TypeOK, DataInv, NEW u \in Users,
           (\E b \in BOOLEAN : OnAdminMuteUser(u, b)) \/ MuteExpires(u)
    PROVE  TypeOK'
  <1>1. UNCHANGED <<up, failed, accessVars>>
    BY DEF OnAdminMuteUser, MuteExpires
  <1>2. DataTypeOK'
    <2>1. CASE \E b \in BOOLEAN : OnAdminMuteUser(u, b)
      BY <2>1, MuteTypes DEF OnAdminMuteUser
    <2>2. CASE MuteExpires(u)
      BY <2>2 DEF MuteExpires, Unmute, TypeOK, DataTypeOK
    <2> QED BY <2>1, <2>2
  <1> QED BY <1>1, <1>2 DEF accessVars, banVars, TypeOK

LEMMA BanTypes ==
    ASSUME TypeOK, DataInv, NEW u \in Users,
           OnAdminBanUser(u) \/ BanIP(u) \/ BanDone(u)
    PROVE  TypeOK'
  <1>1. CASE OnAdminBanUser(u)
    <2>1. DataTypeOK'
      BY <1>1, MuteTypes DEF OnAdminBanUser
    <2> QED BY <1>1, <2>1 DEF OnAdminBanUser, TypeOK
  <1>2. CASE BanIP(u)
    <2>1. CASE FormatIP(IPOf[u]) \in bans
      <3>1. up' = FALSE /\ UNCHANGED <<failed, dataVars, socket, bans, banVars, alive, asked, requests, window>>
        BY <1>2, <2>1 DEF BanIP
      <3> QED BY <3>1 DEF TypeOK, DataTypeOK, dataVars, banVars
    <2>2. CASE FormatIP(IPOf[u]) \notin bans
      <3>1. /\ bans' = bans \cup {FormatIP(IPOf[u])}
            /\ inserting[u] > 0 /\ inserting' = [inserting EXCEPT ![u] = inserting[u] - 1]
            /\ banStage' = [banStage EXCEPT ![u] = "inserted"]
            /\ UNCHANGED <<up, failed, dataVars, socket, alive, asked, requests, window>>
        BY <1>2, <2>2 DEF BanIP
      <3>2. \A b \in bans' : b.family \in {4, 6}
        BY <3>1, KeyFamily DEF TypeOK
      <3>3. inserting' \in [Users -> Nat]
        BY <3>1 DEF TypeOK
      <3> QED BY <3>1, <3>2, <3>3 DEF TypeOK, DataTypeOK, dataVars
    <2> QED BY <2>1, <2>2
  <1>3. CASE BanDone(u)
    BY <1>3, ClosedTypes DEF BanDone, TypeOK, DataTypeOK, dataVars
  <1> QED BY <1>1, <1>2, <1>3

LEMMA OtherTypes ==
    ASSUME TypeOK, Fails \/ GarbageCollect \/ UNCHANGED vars
    PROVE  TypeOK'
  <1>1. CASE Fails
    BY <1>1 DEF Fails, DbFails, SocketReset, accessVars, banVars, dataVars, TypeOK, DataTypeOK
  <1>2. CASE GarbageCollect
    <2>1. DataTypeOK'
      BY <1>2 DEF GarbageCollect, Collect, TypeOK, DataTypeOK
    <2> QED BY <1>2, <2>1 DEF GarbageCollect, accessVars, banVars, TypeOK
  <1>3. CASE UNCHANGED vars
    BY <1>3 DEF vars, accessVars, banVars, dataVars, TypeOK, DataTypeOK
  <1> QED BY <1>1, <1>2, <1>3

LEMMA NextTypes == TypeOK /\ DataInv /\ [Next]_vars => TypeOK'
  <1> SUFFICES ASSUME TypeOK, DataInv, [Next]_vars PROVE TypeOK'
    OBVIOUS
  <1> QED BY SocketTypes, OpenTypes, LeaveTypes, KeepAliveTypes, ChatTypes,
             MuteStepTypes, BanTypes, OtherTypes DEF Next, Fails

-----------------------------------------------------------------------------
(* The inductive steps.                                                    *)

\* Only opening, disconnecting and the collection touch what is counted.
LEMMA NextData == TypeOK /\ DataInv /\ [Next]_vars => DataInv'
  <1> SUFFICES ASSUME TypeOK, DataInv, [Next]_vars PROVE DataInv'
    OBVIOUS
  <1>1. ASSUME NEW u \in Users, Upgrade(u) \/ Query(u) \/ Forbid(u) \/ HangUp(u)
        PROVE  DataInv'
    <2>1. UNCHANGED <<ipDatas, holder, refCount>>
      BY <1>1 DEF Upgrade, Query, Forbid, HangUp, dataVars
    <2>2. \E s : /\ socket' = [socket EXCEPT ![u] = s]
                 /\ s \in {"open", "closing"} <=> socket[u] \in {"open", "closing"}
                 /\ s = "closed" <=> socket[u] = "closed"
      BY <1>1 DEF Upgrade, Query, Forbid, HangUp
    <2> QED BY <2>1, <2>2, SocketStays
  <1>2. ASSUME NEW u \in Users, Kick(u) \/ NopTimeout(u) \/ BanDone(u)
        PROVE  DataInv'
    BY <1>2, ClosedStays DEF Kick, NopTimeout, BanDone, dataVars
  <1>3. ASSUME UNCHANGED <<ipDatas, holder, refCount, socket>>
        PROVE  DataInv'
    BY <1>3, DataStays DEF Live, Entered
  <1>4. ASSUME NEW u \in Users,
               \/ FallsSilent(u) \/ OnNoMsg(u) \/ OnNop(u) \/ WindowEnds(u)
               \/ BanIP(u) \/ MuteExpires(u)
        PROVE  DataInv'
    BY <1>3, <1>4 DEF FallsSilent, OnNoMsg, OnNop, WindowEnds, BanIP, MuteExpires,
                      Unmute, dataVars, accessVars
  <1>5. ASSUME NEW u \in Users, OnChat(u) \/ OnAdminBanUser(u)
                                \/ \E b \in BOOLEAN : OnAdminMuteUser(u, b)
        PROVE  DataInv'
    BY <1>3, <1>5 DEF OnChat, OnAdminBanUser, OnAdminMuteUser, Mute, dataVars, accessVars
  <1>6. CASE Fails \/ UNCHANGED vars
    BY <1>3, <1>6 DEF Fails, DbFails, SocketReset, vars, dataVars, accessVars
  <1> QED BY <1>1, <1>2, <1>4, <1>5, <1>6, OpenData, DisconnectData, CollectData DEF Next, Fails

\* The rows stay what the bans wrote, and there is a row for each that is done.
LEMMA NextBans ==
    TypeOK /\ BansWritten /\ [Next]_vars => BansWritten'
  <1> SUFFICES ASSUME TypeOK, BansWritten, [Next]_vars PROVE BansWritten'
    OBVIOUS
  <1>1. ASSUME UNCHANGED <<bans, banStage>> PROVE BansWritten'
    BY <1>1 DEF BansWritten
  <1>2. ASSUME NEW u \in Users, BanIP(u) PROVE BansWritten'
    <2>1. CASE FormatIP(IPOf[u]) \in bans
      BY <1>1, <1>2, <2>1 DEF banVars, BanIP
    <2>2. CASE FormatIP(IPOf[u]) \notin bans
      <3>1. /\ bans' = bans \cup {FormatIP(IPOf[u])}
            /\ banStage' = [banStage EXCEPT ![u] = "inserted"]
        BY <1>2, <2>2 DEF BanIP
      <3>2. /\ banStage'[u] = "inserted"
            /\ \A v \in Users : v # u => banStage'[v] = banStage[v]
        BY <3>1 DEF TypeOK
      <3>3. ASSUME NEW b \in bans'
            PROVE  \E v \in Users : /\ banStage'[v] \in {"inserted", "done"}
                                     /\ FormatIP(IPOf[v]) = b
        <4>1. CASE b = FormatIP(IPOf[u])
          BY <3>2, <4>1
        <4>2. CASE b \in bans
          BY <3>1, <3>2, <4>2 DEF BansWritten
        <4> QED BY <3>1, <4>1, <4>2
      <3> QED BY <3>1, <3>2, <3>3 DEF BansWritten
    <2> QED BY <2>1, <2>2
  <1>3. ASSUME NEW u \in Users, OnAdminBanUser(u) \/ BanDone(u) PROVE BansWritten'
    <2>1. /\ bans' = bans
          /\ \A v \in Users : banStage'[v] \in {"inserted", "done"}
                                 <=> banStage[v] \in {"inserted", "done"}
      BY <1>3 DEF OnAdminBanUser, BanDone, TypeOK
    <2> QED BY <2>1 DEF BansWritten
  <1>4. ASSUME NEW u \in Users,
               \/ Upgrade(u) \/ Query(u) \/ Forbid(u) \/ Open(u)
               \/ HangUp(u) \/ Kick(u) \/ Disconnect(u)
               \/ FallsSilent(u) \/ OnNoMsg(u) \/ OnNop(u) \/ NopTimeout(u)
               \/ OnChat(u) \/ WindowEnds(u) \/ MuteExpires(u)
               \/ OnAdminMuteUser(u, TRUE) \/ OnAdminMuteUser(u, FALSE)
        PROVE  BansWritten'
    BY <1>1, <1>4 DEF Upgrade, Query, Forbid, Open, HangUp, Kick, Disconnect, FallsSilent,
         OnNoMsg, OnNop, NopTimeout, OnChat, WindowEnds, MuteExpires, OnAdminMuteUser, accessVars, banVars
  <1>5. CASE Fails \/ GarbageCollect \/ UNCHANGED vars
    BY <1>1, <1>5 DEF Fails, DbFails, SocketReset, GarbageCollect, vars, accessVars, banVars
  <1> QED BY <1>2, <1>3, <1>4, <1>5 DEF Next, Fails

\* The process ends at a database or a socket that fails, or at a key that is there
\* already, and then a ban of the same scope wrote it.
LEMMA NextExit ==
    TypeOK /\ BansWritten /\ ExitExplained /\ [Next]_vars => ExitExplained'
  <1> SUFFICES ASSUME TypeOK, BansWritten, ExitExplained, [Next]_vars PROVE ExitExplained'
    OBVIOUS
  <1>1. ASSUME NEW u \in Users, BanIP(u) PROVE ExitExplained'
    <2>1. CASE FormatIP(IPOf[u]) \in bans
      <3>1. banStage' = banStage /\ inserting' = inserting /\ inserting[u] > 0
        BY <1>1, <2>1 DEF BanIP, banVars
      <3>2. PICK v \in Users : /\ banStage[v] \in {"inserted", "done"}
                               /\ FormatIP(IPOf[v]) = FormatIP(IPOf[u])
        BY <2>1 DEF BansWritten
      <3>3. SameScope(IPOf[u], IPOf[v])
        BY <3>2, KeyIsScope
      <3> QED BY <3>1, <3>2, <3>3 DEF ExitExplained
    <2>2. CASE FormatIP(IPOf[u]) \notin bans
      BY <1>1, <2>2 DEF BanIP, ExitExplained
    <2> QED BY <2>1, <2>2
  <1>2. CASE UNCHANGED vars
    BY <1>2 DEF vars, accessVars, banVars, ExitExplained
  <1>3. CASE Fails
    BY <1>3 DEF Fails, DbFails, SocketReset, ExitExplained
  <1>4. ASSUME up' PROVE ExitExplained'
    BY <1>4 DEF ExitExplained
  <1>5. ASSUME NEW u \in Users,
               \/ Upgrade(u) \/ Query(u) \/ Forbid(u) \/ Open(u)
               \/ HangUp(u) \/ Kick(u) \/ Disconnect(u)
               \/ FallsSilent(u) \/ OnNoMsg(u) \/ OnNop(u) \/ NopTimeout(u)
               \/ OnChat(u) \/ WindowEnds(u) \/ MuteExpires(u)
               \/ OnAdminMuteUser(u, TRUE) \/ OnAdminMuteUser(u, FALSE)
               \/ OnAdminBanUser(u) \/ BanDone(u)
        PROVE  ExitExplained'
    <2>1. up /\ up' = up
      BY <1>5 DEF Upgrade, Query, Forbid, Open, HangUp, Kick, Disconnect, FallsSilent,
           OnNoMsg, OnNop, NopTimeout, OnChat, WindowEnds, MuteExpires, OnAdminMuteUser,
           OnAdminBanUser, BanDone
    <2>2. up'
      BY <2>1, Zenon
    <2> QED BY <1>4, <2>2
  <1>6. CASE GarbageCollect
    BY <1>4, <1>6 DEF GarbageCollect
  <1> QED BY <1>1, <1>2, <1>3, <1>5, <1>6 DEF Next, Fails

LEMMA InitIInv == Init => IInv
  <1> SUFFICES ASSUME Init PROVE IInv
    OBVIOUS
  <1>1. TypeOK
    <2>1. requests \in [Users -> 0 .. ChatLimit - 1]
      BY ChatLimitAssumption DEF Init
    <2>2. DataTypeOK
      BY DEF Init, InitData, DataTypeOK
    <2> QED BY <2>1, <2>2 DEF Init, TypeOK
  <1>2. Entered = {} /\ \A u \in Users : ~Live(u)
    BY DEF Init, Entered, Live
  <1>3. \A o : Holders(o) = {}
    BY <1>2 DEF Holders
  <1>4. SharedData
    BY <1>2, <1>3, FS_EmptySet DEF SharedData, Init, InitData
  <1>5. ObjectsBelong
    BY <1>2 DEF ObjectsBelong, Init, InitData
  <1>6. BansWritten /\ ExitExplained
    BY DEF Init, BansWritten, ExitExplained
  <1> QED BY <1>1, <1>4, <1>5, <1>6 DEF IInv

LEMMA NextIInv == IInv /\ [Next]_vars => IInv'
  BY NextTypes, NextData, NextBans, NextExit DEF IInv, DataInv

\* Only the timeout of a temporary mute ends a mute, and users of one address
\* look at the same object.
LEMMA StepMuteBinds ==
    ASSUME IInv, IInv', [Next]_vars, NEW u \in Users, NEW v \in Users,
           Live(u), Live(u)', holder[u] \in muted, IPOf[v] = IPOf[u], Live(v)',
           ~(holder[u] \in timer /\ holder[u] \notin timer')
    PROVE  holder[v]' \in muted'
  <1>1. holder[v]' = holder[u]'
    BY DEF IInv, SharedData
  <1>2. muted \subseteq muted' \/ \E o \in Users : Unmute(o)
    BY DEF Next, vars, Upgrade, Query, Forbid, Open, HangUp, Kick, Disconnect, FallsSilent,
         OnNoMsg, OnNop, NopTimeout, OnChat, WindowEnds, MuteExpires, OnAdminMuteUser,
         OnAdminBanUser, BanIP, BanDone, DbFails, SocketReset, GarbageCollect, Collect, GetIPData, Unref,
         Mute, dataVars
  <1>3. holder[u]' = holder[u]
    <2>1. holder' = holder \/ \E w \in Users : Open(w)
      BY DEF Next, vars, Upgrade, Query, Forbid, HangUp, Kick, Disconnect, FallsSilent,
           OnNoMsg, OnNop, NopTimeout, OnChat, WindowEnds, MuteExpires, OnAdminMuteUser,
           OnAdminBanUser, BanIP, BanDone, DbFails, SocketReset, GarbageCollect, Collect, Unref,
           Mute, Unmute, dataVars
    <2>2. ASSUME NEW w \in Users, Open(w) PROVE holder[u]' = holder[u]
      <3>1. w # u
        BY <2>2 DEF Open, Live
      <3> QED BY <2>2, <3>1 DEF Open, GetIPData, IInv, TypeOK, DataTypeOK
    <2> QED BY <2>1, <2>2
  <1>4. holder[u] \in muted'
    BY <1>2 DEF Unmute
  <1> QED BY <1>1, <1>3, <1>4

\* The query finds the row that a ban of the same scope has written.
LEMMA StepBannedStayOut ==
    ASSUME IInv, [Next]_vars, NEW u \in Users, Banned(u),
           socket[u] \in {"none", "checking"}
    PROVE  socket'[u] \notin {"passed", "open"}
  <1>1. FormatIP(IPOf[u]) \in bans
    BY KeyIsScope DEF Banned, IInv, BansWritten
  <1>2. ASSUME NEW w \in Users, Query(w)
        PROVE  socket'[u] \notin {"passed", "open"}
    BY <1>1, <1>2 DEF Query, IInv, TypeOK
  <1>3. ASSUME NEW w \in Users, Upgrade(w) \/ Forbid(w) \/ HangUp(w) \/ Disconnect(w)
        PROVE  socket'[u] \notin {"passed", "open"}
    BY <1>3 DEF Upgrade, Forbid, HangUp, Disconnect, IInv, TypeOK
  <1>4. ASSUME NEW w \in Users, Open(w)
        PROVE  socket'[u] \notin {"passed", "open"}
    <2>1. w # u
      BY <1>4 DEF Open
    <2> QED BY <1>4, <2>1 DEF Open, IInv, TypeOK
  <1>5. ASSUME NEW w \in Users, Kick(w) \/ NopTimeout(w) \/ BanDone(w)
        PROVE  socket'[u] \notin {"passed", "open"}
    BY <1>5 DEF Kick, NopTimeout, BanDone, Closed, IInv, TypeOK
  <1>6. \/ socket' = socket
        \/ \E w \in Users : \/ Query(w) \/ Upgrade(w) \/ Forbid(w) \/ HangUp(w)
                             \/ Disconnect(w) \/ Open(w) \/ Kick(w)
                             \/ NopTimeout(w) \/ BanDone(w)
    BY DEF Next, vars, FallsSilent, OnNoMsg, OnNop, OnChat, WindowEnds, MuteExpires,
         OnAdminMuteUser, OnAdminBanUser, BanIP, DbFails, SocketReset, GarbageCollect, accessVars
  <1> QED BY <1>2, <1>3, <1>4, <1>5, <1>6

-----------------------------------------------------------------------------
\* The inductive invariant holds in every reachable state, for any number of
\* connections and addresses (WSServer.ts 80-203, User.ts 36-165, IPData.ts).
THEOREM Invariance == Spec => []IInv
  BY InitIInv, NextIInv, PTL DEF Spec

\* The variables keep their types; a chat limiter stays below its limit.
THEOREM TypeCorrect == Spec => []TypeOK
  <1>1. IInv => TypeOK
    BY DEF IInv
  <1> QED BY <1>1, Invariance, PTL

\* The connections of an address share one object, the one in the map, and its
\* count is their number (IPData.ts 16-41, 64-71).
THEOREM SharedDataHolds == Spec => []SharedData
  <1>1. IInv => SharedData
    BY DEF IInv
  <1> QED BY <1>1, Invariance, PTL

\* The process ends only when the database fails, when a socket is reset during the
\* check of the ban list or when an address or network is banned a second time
\* (WSServer.ts 161, BanManager.ts 39-44, Database.ts 34-45).
THEOREM ExitExplainedHolds == Spec => []ExitExplained
  <1>1. IInv => ExitExplained
    BY DEF IInv
  <1> QED BY <1>1, Invariance, PTL

\* A mute of an address binds every connection that comes to it, until the
\* timeout of a temporary mute fires (User.ts 136-151).
THEOREM MuteBindsHolds == Spec => MuteBinds
  <1> DEFINE A == \A u, v \in Users :
                    /\ Live(u) /\ Live(u)' /\ holder[u] \in muted
                    /\ IPOf[v] = IPOf[u] /\ Live(v)'
                    /\ ~(holder[u] \in timer /\ holder[u] \notin timer')
                    => holder[v]' \in muted'
  <1>1. IInv /\ IInv' /\ [Next]_vars => [A]_vars
    BY StepMuteBinds
  <1>2. Spec => [][A]_vars
    BY <1>1, Invariance, PTL DEF Spec
  <1> QED BY <1>2 DEF MuteBinds

\* Nobody passes the check of the ban list once a ban of his address or /64
\* network is written (BanManager.ts 21-37, WSServer.ts 157-167).
THEOREM BannedStayOutHolds == Spec => BannedStayOut
  <1> DEFINE A == \A u \in Users : Banned(u) /\ socket[u] \in {"none", "checking"}
                                      => socket'[u] \notin {"passed", "open"}
  <1>1. IInv /\ [Next]_vars => [A]_vars
    BY StepBannedStayOut
  <1>2. Spec => [][A]_vars
    BY <1>1, Invariance, PTL DEF Spec
  <1> QED BY <1>2 DEF BannedStayOut
=============================================================================
