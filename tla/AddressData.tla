---------------------------- MODULE AddressData ----------------------------
(***************************************************************************)
(* What the server remembers of an address while it has connections        *)
(* (IPData.ts), and the mutes kept there (User.ts).                        *)
(*                                                                         *)
(* An IPData object is named by the user whose connection created it: an   *)
(* object outlives its entry in the map as long as a user, or the timeout  *)
(* of a temporary mute, still refers to it.  The operators below are the   *)
(* methods; Access builds its actions from them.                           *)
(***************************************************************************)
EXTENDS Integers, FiniteSets

CONSTANTS
    Users,      \* connections, each opened at most once
    IPOf,       \* the address each one comes from
    NoData      \* no entry in IPDataManager.ipDatas

ASSUME UsersAssumption == IsFiniteSet(Users) /\ NoData \notin Users

VARIABLES
    ipDatas,    \* IPDataManager.ipDatas: the object of each address
    holder,     \* user.IP
    refCount,   \* of each object
    muted,      \* of each object
    timer       \* the objects whose tempMuteExpireTimeout runs

dataVars == <<ipDatas, holder, refCount, muted, timer>>

Addresses == {IPOf[u] : u \in Users}

DataTypeOK ==
    /\ ipDatas \in [Addresses -> Users \cup {NoData}]
    /\ holder \in [Users -> Users \cup {NoData}]
    /\ refCount \in [Users -> Nat]
    /\ muted \in SUBSET Users
    /\ timer \in SUBSET Users

InitData ==
    /\ ipDatas = [a \in Addresses |-> NoData]
    /\ holder = [u \in Users |-> NoData]
    /\ refCount = [u \in Users |-> 0]
    /\ muted = {}
    /\ timer = {}

\* IPDataManager.GetIPData for the connection of u.
GetIPData(u) ==
    LET a == IPOf[u]
        known == ipDatas[a] # NoData
        o == IF known THEN ipDatas[a] ELSE u
    IN  /\ ipDatas' = [ipDatas EXCEPT ![a] = o]
        /\ holder' = [holder EXCEPT ![u] = o]
        /\ refCount' = [refCount EXCEPT ![o] = IF known THEN @ + 1 ELSE 1]
        /\ UNCHANGED <<muted, timer>>

\* Fault: two listeners of the socket's disconnect event let go of the data.
UnrefTwice(u) ==
    /\ refCount' = [refCount EXCEPT ![holder[u]] = IF @ < 2 THEN 0 ELSE @ - 2]
    /\ UNCHANGED <<ipDatas, holder, muted, timer>>

\* IPData.Unref on the object of u.
Unref(u) ==
    /\ refCount' = [refCount EXCEPT ![holder[u]] = IF @ - 1 < 0 THEN 0 ELSE @ - 1]
    /\ UNCHANGED <<ipDatas, holder, muted, timer>>

\* User.mute: a temporary mute starts its timeout anew; a permanent one leaves
\* a timeout that runs as it is.
Mute(u, permanent) ==
    /\ muted' = muted \cup {holder[u]}
    /\ timer' = IF permanent THEN timer ELSE timer \cup {holder[u]}
    /\ UNCHANGED <<ipDatas, holder, refCount>>

\* User.unmute, called by the timeout only.
Unmute(o) ==
    /\ o \in timer
    /\ muted' = muted \ {o}
    /\ timer' = timer \ {o}
    /\ UNCHANGED <<ipDatas, holder, refCount>>

\* Fault: the collection also takes the data of an address with a single
\* connection, as if the map itself held a reference.
CollectAtOne ==
    /\ ipDatas' = [a \in Addresses |->
                     IF ipDatas[a] # NoData /\ refCount[ipDatas[a]] <= 1
                     THEN NoData ELSE ipDatas[a]]
    /\ UNCHANGED <<holder, refCount, muted, timer>>

\* The collection, every fifteen seconds.
Collect ==
    /\ ipDatas' = [a \in Addresses |->
                     IF ipDatas[a] # NoData /\ refCount[ipDatas[a]] = 0
                     THEN NoData ELSE ipDatas[a]]
    /\ UNCHANGED <<holder, refCount, muted, timer>>
=============================================================================
