------------------------------ MODULE Votes ------------------------------
(***************************************************************************)
(* Votes: cvmts/src/Vote.ts (Vote, VoteCooldownManager) and the handlers   *)
(* of CollabVMServer.ts that start, cast, force and finish votes.  A       *)
(* handler is one step up to its first await and one step per await after  *)
(* that, so whatever the other users, the intervals and staff do meanwhile *)
(* is between the steps.  The vote that a continuation resumes for and the *)
(* vote the server holds by then may be different ones, or none.           *)
(*                                                                         *)
(* Every user of this model is connected to the node (the handlers ignore  *)
(* the others) and may vote under the configured guest permissions.  Rate  *)
(* limits only drop requests, which a user may as well not have sent.      *)
(*                                                                         *)
(* That an address has voted is kept in the IPData its users share, which  *)
(* is collected when none of them is connected.  As in AddressData.tla an  *)
(* object is named by the user whose connection created it.                *)
(***************************************************************************)
EXTENDS Integers, FiniteSets

CONSTANTS
    Users,        \* User objects: one per connection, never reused
    Staff,        \* those with rank Admin or Moderator
    IPOf,         \* the address each user connects from
    EnabledVotes, \* the types whose config.vote entry is enabled
    MediaEnabled, \* config.iaos.enabled
    VoteTime,     \* config.vote.*.voteTime
    Cooldown,     \* config.vote.*.voteCooldown
    MaxVotes,     \* bound: votes that are ever started
    MaxEnds       \* bound: times staff and the interval end one vote

ASSUME UsersAssumption == Staff \subseteq Users /\ IsFiniteSet(Users)
ASSUME TypesAssumption == EnabledVotes \subseteq {"reset", "reboot", "insert", "eject"}
ASSUME MediaAssumption == MediaEnabled \in BOOLEAN
ASSUME TimesAssumption == VoteTime \in Nat \ {0} /\ Cooldown \in Nat
ASSUME BoundsAssumption == MaxVotes \in Nat \ {0} /\ MaxEnds \in Nat \ {0}

VARIABLES
    conn,         \* where the connection of each user is
    holder,       \* user.IP, the IPData object each user holds or held
    ipDatas,      \* the objects in IPDataManager.ipDatas
    votesAllowed, \* the flag staff toggle together with the turns
    current,      \* currentVote: the id of a vote, 0 for null
    started,      \* how many votes were started; their ids are 1 .. started
    vote,         \* the Vote objects
    hasVoted,     \* the IPData objects whose hasVoted is set
    cooldown,     \* the entries of the VoteCooldownManager
    asking,       \* users whose onIaosChangeMedia awaits the meta server
    pending,      \* continuations of onVoteEnd, by what they await and for which vote
    unawaited,    \* the VM was told something that no vote waits for
    up            \* the process runs: an unhandled rejection ends it

\* History, read by the properties only.
VARIABLES
    markedLate,   \* the marked objects whose mark was set after the vote had ended
    ends,         \* how often EndVote was called on each vote
    acts          \* how often the VM was told to do what each vote is about

connVars == <<conn, holder, ipDatas>>
markVars == <<hasVoted, markedLate>>
voteVars == <<connVars, votesAllowed, current, started, vote, markVars, cooldown,
              asking, pending, unawaited, up, ends, acts>>

VoteIds == 1 .. MaxVotes
VoteTypes == {"reset", "reboot", "insert", "eject"}
VmVotes == {"reset", "reboot"}
Awaits == {"lookup", "insert", "eject"}
NoEntry == -1

Clients == {u \in Users : conn[u] = "client"}
\* Displaced users are out of the clients array, their socket still delivers.
Talking == {u \in Users : conn[u] \in {"client", "displaced"}}

Voters(w) == vote[w].yes \cup vote[w].no
Held(S) == {holder[u] : u \in S}
MoreYes(w) == Cardinality(vote[w].yes) >= Cardinality(vote[w].no)

-----------------------------------------------------------------------------
(* class Vote.                                                             *)

\* new Vote: the starter votes yes; his IPData.hasVoted is left alone.  The field
\* late is history: who voted, or started the vote, when no longer a client.
NewVote(u, t) ==
    [type |-> t, left |-> VoteTime, running |-> TRUE, yes |-> {u}, no |-> {},
     late |-> {u} \ Clients]

\* An id without a vote.
NoVote == [type |-> "reset", left |-> 0, running |-> FALSE, yes |-> {}, no |-> {},
           late |-> {}]

\* Fault: only the yes votes are looked through.
UnvotedYes(v, u) == [v EXCEPT !.yes = @ \ {u}]

\* A Vote without the vote of u, as RemoveVote leaves it.
Unvoted(v, u) == [v EXCEPT !.yes = @ \ {u}, !.no = @ \ {u}]

Unmark(S) == hasVoted' = hasVoted \ S /\ markedLate' = markedLate \ S

\* RemoveVote on the current vote, if there is one (connectionClosed).
RemoveVote(u) ==
    IF current # 0 /\ u \in Voters(current)
    THEN /\ vote' = [vote EXCEPT ![current] = Unvoted(@, u)]
         /\ Unmark({holder[u]})
    ELSE UNCHANGED <<vote, markVars>>

\* A Vote with the vote of u.
Voted(v, u, yes) ==
    LET x == [Unvoted(v, u) EXCEPT !.late = @ \cup ({u} \ Clients)]
    IN  IF yes THEN [x EXCEPT !.yes = @ \cup {u}] ELSE [x EXCEPT !.no = @ \cup {u}]

\* Fault: casting a vote does not mark the address.
AddVoteUnmarked(u, yes) ==
    /\ vote' = [vote EXCEPT ![current] = Voted(@, u, yes)]
    /\ UNCHANGED markVars

\* The vote may have ended: until onVoteEnd clears currentVote, it takes votes.
AddVote(u, yes) ==
    /\ u \notin (IF yes THEN vote[current].yes ELSE vote[current].no)
    /\ vote' = [vote EXCEPT ![current] = Voted(@, u, yes)]
    /\ hasVoted' = hasVoted \cup {holder[u]}
    /\ markedLate' = IF vote[current].running THEN markedLate \ {holder[u]}
                     ELSE markedLate \cup {holder[u]}

-----------------------------------------------------------------------------
(* CollabVMServer.startVote and onVoteEnd.                                 *)

\* Fault: a vote may start while another is held.
CanStartAnyway(t) == t \in EnabledVotes /\ cooldown[t] = NoEntry

CanStart(t) == t \in EnabledVotes /\ current = 0 /\ cooldown[t] = NoEntry

StartVote(u, t) ==
    /\ CanStart(t)
    /\ started < MaxVotes
    /\ started' = started + 1
    /\ current' = started + 1
    /\ vote' = [vote EXCEPT ![started + 1] = NewVote(u, t)]
    /\ UNCHANGED <<connVars, votesAllowed, markVars, cooldown, pending, unawaited, up,
                   ends, acts>>

SetCooldown(t) == cooldown' = [cooldown EXCEPT ![t] = Cooldown]

\* Fault: a media vote that is voted down is left as the current vote.
OnVoteEndForgets(result) ==
    IF current = 0 THEN UNCHANGED <<current, cooldown, pending, unawaited, acts>>
    ELSE /\ IF vote[current].type \in {"insert", "eject"} /\ ~result
            THEN UNCHANGED current
            ELSE current' = 0
         /\ SetCooldown(vote[current].type)
         /\ UNCHANGED <<pending, unawaited, acts>>

\* onVoteEnd up to its first await.  It looks at currentVote, whichever vote
\* emitted the event.  VM.Reset and VM.Reboot are not awaited.
OnVoteEnd(result) ==
    \/ /\ current = 0
       /\ UNCHANGED <<current, cooldown, pending, unawaited, acts>>
    \/ /\ current # 0
       /\ vote[current].type \in VmVotes \/ ~result
       /\ acts' = [acts EXCEPT ![current] = IF result THEN @ + 1 ELSE @]
       /\ SetCooldown(vote[current].type)
       /\ current' = 0
       /\ unawaited' = (unawaited \/ result)
       /\ UNCHANGED pending
    \/ /\ current # 0 /\ vote[current].type = "insert" /\ result
       /\ pending' = [pending EXCEPT !["lookup"][current] = @ + 1]
       /\ UNCHANGED <<current, cooldown, unawaited, acts>>
    \/ /\ current # 0 /\ vote[current].type = "eject" /\ result
       /\ acts' = [acts EXCEPT ![current] = @ + 1]
       /\ pending' = [pending EXCEPT !["eject"][current] = @ + 1]
       /\ UNCHANGED <<current, cooldown, unawaited>>

\* Fault: the interval of the vote is not cleared.
EndVoteKeepsInterval(w, left, result) ==
    /\ vote' = [vote EXCEPT ![w].left = left]
    /\ Unmark(Held(Voters(w)))
    /\ ends' = [ends EXCEPT ![w] = @ + 1]
    /\ OnVoteEnd(result)
    /\ UNCHANGED <<connVars, votesAllowed, started, asking, up>>

\* Fault: the addresses of those who voted no stay marked.
EndVoteKeepsMarks(w, left, result) ==
    /\ vote' = [vote EXCEPT ![w].running = FALSE, ![w].left = left]
    /\ Unmark(Held(vote[w].yes))
    /\ ends' = [ends EXCEPT ![w] = @ + 1]
    /\ OnVoteEnd(result)
    /\ UNCHANGED <<connVars, votesAllowed, started, asking, up>>

\* Vote.EndVote on vote w, which emits voteEnd.
EndVote(w, left, result) ==
    /\ vote' = [vote EXCEPT ![w].running = FALSE, ![w].left = left]
    /\ Unmark(Held(Voters(w)))
    /\ ends' = [ends EXCEPT ![w] = @ + 1]
    /\ OnVoteEnd(result)
    /\ UNCHANGED <<connVars, votesAllowed, started, asking, up>>

\* An unhandled rejection ends the process, and everything it held is gone.
ProcessExits ==
    /\ up /\ up' = FALSE
    /\ conn' = [u \in Users |-> "gone"]
    /\ holder' = [u \in Users |-> u] /\ ipDatas' = {}
    /\ vote' = [w \in VoteIds |-> NoVote]
    /\ hasVoted' = {} /\ markedLate' = {}
    /\ current' = 0
    /\ cooldown' = [t \in VoteTypes |-> NoEntry]
    /\ asking' = {}
    /\ pending' = [a \in Awaits |-> [w \in VoteIds |-> 0]]
    /\ unawaited' = FALSE
    /\ UNCHANGED <<votesAllowed, started, ends, acts>>

-----------------------------------------------------------------------------
(* The handlers.                                                           *)

OnStartVote(u, t) ==
    /\ u \in Talking
    /\ votesAllowed \/ u \in Staff
    /\ t \in VmVotes
    /\ StartVote(u, t)
    /\ UNCHANGED asking

\* Without a vote, a client that does not speak votex starts a reset vote.
OnCastVote(u, yes) ==
    \/ OnStartVote(u, "reset")
    \/ /\ u \in Talking
       /\ current # 0
       /\ holder[u] \notin hasVoted \/ u \in Voters(current)
       /\ AddVote(u, yes)
       /\ UNCHANGED <<connVars, votesAllowed, current, started, cooldown, asking,
                      pending, unawaited, up, ends, acts>>

\* Ends the current vote, the one whose end is being awaited too.
OnAdminForceVote(u, result) ==
    /\ u \in Talking \cap Staff
    /\ current # 0
    /\ ends[current] < MaxEnds
    /\ EndVote(current, vote[current].left, result)

OnAdminToggleTurns(u) ==
    /\ u \in Talking \cap Staff
    /\ votesAllowed' = ~votesAllowed
    /\ UNCHANGED <<connVars, current, started, vote, markVars, cooldown, asking,
                   pending, unawaited, up, ends, acts>>

\* The VM is told something outside a vote.  To the votes that matters only as a
\* promise that nobody catches (UnawaitedRejected).
TellVm ==
    /\ unawaited' = TRUE
    /\ UNCHANGED <<connVars, votesAllowed, current, started, vote, markVars, cooldown,
                   asking, pending, up, ends, acts>>

\* Staff restore or reboot the VM, or speak to its monitor.
OnAdminRestore(u) == u \in Talking \cap Staff /\ TellVm

\* Media are changed by a vote, or at once by staff and where that vote is disabled.
ByVote(u, t) == t \in EnabledVotes /\ u \notin Staff

\* Without a vote the answer of the meta server and the insertion are awaited by
\* this handler, and the handler by nobody.
OnIaosChangeMedia(u) ==
    /\ MediaEnabled /\ u \in Talking
    /\ \/ /\ ByVote(u, "insert")
          /\ u \notin asking /\ asking' = asking \cup {u}
          /\ UNCHANGED <<connVars, votesAllowed, current, started, vote, markVars,
                         cooldown, pending, unawaited, up, ends, acts>>
       \/ ~ByVote(u, "insert") /\ TellVm

\* The meta server answers: the vote starts, whether or not the user who asked
\* is still connected, or is refused (no such media, another vote, cooldown).
ChangeMediaAnswered(u) ==
    /\ u \in asking
    /\ asking' = asking \ {u}
    /\ \/ StartVote(u, "insert")
       \/ UNCHANGED <<connVars, votesAllowed, current, started, vote, markVars,
                      cooldown, pending, unawaited, up, ends, acts>>

\* The meta server does not answer, and the handler is rejected.
ChangeMediaRejected(u) == u \in asking /\ ProcessExits

OnIaosEjectMedia(u) ==
    /\ MediaEnabled /\ u \in Talking
    /\ \/ ByVote(u, "eject") /\ StartVote(u, "eject") /\ UNCHANGED asking
       \/ ~ByVote(u, "eject") /\ TellVm

-----------------------------------------------------------------------------
(* Connections: connectionClosed, and the login of the same account        *)
(* elsewhere, which closes a session before its socket.                    *)

\* IPDataManager.GetIPData: the object of the address, or a new one.
Connect(u) ==
    /\ conn[u] = "none"
    /\ conn' = [conn EXCEPT ![u] = "client"]
    /\ \/ \E o \in ipDatas : /\ IPOf[o] = IPOf[u]
                             /\ holder' = [holder EXCEPT ![u] = o]
                             /\ UNCHANGED ipDatas
       \/ /\ \A o \in ipDatas : IPOf[o] # IPOf[u]
          /\ holder' = [holder EXCEPT ![u] = u]
          /\ ipDatas' = ipDatas \cup {u}
    /\ UNCHANGED <<votesAllowed, current, started, vote, markVars, cooldown, asking,
                   pending, unawaited, up, ends, acts>>

\* Every 15 seconds the objects that no connection refers to leave the map.  The
\* users who held one keep it, and with it the votes they may have left behind.
Collect ==
    /\ ipDatas' = ipDatas \cap Held(Talking)
    /\ UNCHANGED <<conn, holder, votesAllowed, current, started, vote, markVars,
                   cooldown, asking, pending, unawaited, up, ends, acts>>

Displaced(u) ==
    /\ conn[u] = "client"
    /\ conn' = [conn EXCEPT ![u] = "displaced"]
    /\ RemoveVote(u)
    /\ UNCHANGED <<holder, ipDatas, votesAllowed, current, started, cooldown, asking,
                   pending, unawaited, up, ends, acts>>

\* connectionClosed returns at once for a user who is not among the clients.
Disconnected(u) ==
    /\ u \in Talking
    /\ conn' = [conn EXCEPT ![u] = "gone"]
    /\ \/ conn[u] = "client" /\ RemoveVote(u)
       \/ conn[u] = "displaced" /\ UNCHANGED <<vote, markVars>>
    /\ UNCHANGED <<holder, ipDatas, votesAllowed, current, started, cooldown, asking,
                   pending, unawaited, up, ends, acts>>

-----------------------------------------------------------------------------
(* Intervals and continuations.                                            *)

\* Fault: a vote that would be lost gets more time.
VoteTickExtends(w) ==
    LET left == vote[w].left - 1
    IN  /\ vote[w].running
        /\ \/ /\ left < 1 /\ MoreYes(w)
              /\ EndVote(w, left, TRUE)
           \/ /\ left < 1 => ~MoreYes(w)
              /\ vote' = [vote EXCEPT ![w].left = IF left < 1 THEN VoteTime + 1 - @ ELSE left]
              /\ UNCHANGED <<connVars, votesAllowed, current, started, markVars,
                             cooldown, asking, pending, unawaited, up, ends, acts>>

VoteTick(w) ==
    LET left == vote[w].left - 1
    IN  /\ vote[w].running
        /\ \/ /\ left < 1
              /\ EndVote(w, left, MoreYes(w))
           \/ /\ left >= 1
              /\ vote' = [vote EXCEPT ![w].left = left]
              /\ UNCHANGED <<connVars, votesAllowed, current, started, markVars,
                             cooldown, asking, pending, unawaited, up, ends, acts>>

CooldownTick(t) ==
    /\ cooldown[t] # NoEntry
    /\ cooldown' = [cooldown EXCEPT ![t] = IF @ - 1 < 1 THEN NoEntry ELSE @ - 1]
    /\ UNCHANGED <<connVars, votesAllowed, current, started, vote, markVars, asking,
                   pending, unawaited, up, ends, acts>>

\* Fault: the lookup is not taken off the list of what is awaited.
LookupFoundAgain(w) ==
    /\ pending["lookup"][w] > 0 /\ acts[w] < 3
    /\ pending' = [pending EXCEPT !["insert"][w] = 1]
    /\ acts' = [acts EXCEPT ![w] = @ + 1]
    /\ UNCHANGED <<connVars, votesAllowed, current, started, vote, markVars, cooldown,
                   asking, unawaited, up, ends>>

\* The meta server knows the media: the VM is told to insert it.
LookupFound(w) ==
    /\ pending["lookup"][w] > 0
    /\ pending' = [pending EXCEPT !["lookup"][w] = @ - 1, !["insert"][w] = @ + 1]
    /\ acts' = [acts EXCEPT ![w] = @ + 1]
    /\ UNCHANGED <<connVars, votesAllowed, current, started, vote, markVars, cooldown,
                   asking, unawaited, up, ends>>

\* It does not, or answers with an error: onVoteEnd returns there and then.
LookupBadId(w) ==
    /\ pending["lookup"][w] > 0
    /\ pending' = [pending EXCEPT !["lookup"][w] = @ - 1]
    /\ UNCHANGED <<connVars, votesAllowed, current, started, vote, markVars, cooldown,
                   asking, unawaited, up, ends, acts>>

\* The VM has inserted or ejected the media, and onVoteEnd goes to its end.
\* currentVote! is dereferenced once per client: with clients and no vote left,
\* the handler of an event nobody awaits is rejected.
MediaDone(a, w) ==
    /\ a \in {"insert", "eject"}
    /\ pending[a][w] > 0
    /\ \/ /\ current = 0 /\ Clients # {}
          /\ ProcessExits
       \/ /\ current # 0 \/ Clients = {}
          /\ pending' = [pending EXCEPT ![a][w] = @ - 1]
          /\ SetCooldown(a)
          /\ current' = 0
          /\ UNCHANGED <<connVars, votesAllowed, started, vote, markVars, asking,
                         unawaited, up, ends, acts>>

\* The meta server or the VM fails: nothing catches the rejection.
Rejected(a, w) ==
    /\ pending[a][w] > 0
    /\ ProcessExits

\* So does what the VM was told outside the votes, however late.
UnawaitedRejected == unawaited /\ ProcessExits

-----------------------------------------------------------------------------
Init ==
    /\ conn = [u \in Users |-> "none"]
    /\ holder = [u \in Users |-> u]
    /\ ipDatas = {}
    /\ votesAllowed = TRUE
    /\ current = 0
    /\ started = 0
    /\ vote = [w \in VoteIds |-> NoVote]
    /\ hasVoted = {} /\ markedLate = {}
    /\ cooldown = [t \in VoteTypes |-> NoEntry]
    /\ asking = {}
    /\ pending = [a \in Awaits |-> [w \in VoteIds |-> 0]]
    /\ unawaited = FALSE
    /\ up = TRUE
    /\ ends = [w \in VoteIds |-> 0]
    /\ acts = [w \in VoteIds |-> 0]

Handler(u) ==
    \/ \E t \in VmVotes : OnStartVote(u, t)
    \/ \E yes \in BOOLEAN : OnCastVote(u, yes)
    \/ \E result \in BOOLEAN : OnAdminForceVote(u, result)
    \/ OnAdminToggleTurns(u) \/ OnAdminRestore(u)
    \/ OnIaosChangeMedia(u)
    \/ OnIaosEjectMedia(u)

Connection(u) == Connect(u) \/ Displaced(u) \/ Disconnected(u)

Continuation(w) ==
    \/ LookupFound(w)
    \/ LookupBadId(w)
    \/ \E a \in Awaits : MediaDone(a, w) \/ Rejected(a, w)

Next ==
    \/ \E u \in Users : \/ Handler(u) \/ Connection(u)
                       \/ ChangeMediaAnswered(u) \/ ChangeMediaRejected(u)
    \/ \E w \in VoteIds : VoteTick(w) \/ Continuation(w)
    \/ \E t \in VoteTypes : CooldownTick(t)
    \/ Collect \/ UnawaitedRejected

\* Intervals keep firing and every promise settles.
Fairness ==
    \A w \in VoteIds : WF_voteVars(VoteTick(w)) /\ WF_voteVars(Continuation(w))

Spec == Init /\ [][Next]_voteVars /\ Fairness

-----------------------------------------------------------------------------
(* Properties.                                                             *)

\* The types of the variables.
TypeOK ==
    /\ conn \in [Users -> {"none", "client", "displaced", "gone"}]
    /\ holder \in [Users -> Users]
    /\ ipDatas \subseteq Users
    /\ votesAllowed \in BOOLEAN
    /\ current \in 0 .. started
    /\ started \in 0 .. MaxVotes
    /\ vote \in [VoteIds -> [type : VoteTypes, left : 0 .. VoteTime,
                            running : BOOLEAN,
                            yes : SUBSET Users, no : SUBSET Users,
                            late : SUBSET Users]]
    /\ hasVoted \subseteq Users
    /\ markedLate \subseteq hasVoted
    /\ cooldown \in [VoteTypes -> NoEntry .. Cooldown]
    /\ asking \subseteq Users
    /\ pending \in [Awaits -> [VoteIds -> Nat]]
    /\ unawaited \in BOOLEAN
    /\ up \in BOOLEAN
    /\ ends \in [VoteIds -> 0 .. MaxEnds]
    /\ acts \in [VoteIds -> Nat]

\* No vote has been ended twice: staff did not force a vote whose passing was
\* still awaited.
EndedOnce == \A w \in VoteIds : ends[w] <= 1

\* As long as no vote is ended twice, the vote whose interval runs is the one
\* the server holds, and no continuation outlives the vote it was started for:
\* no vote is lost, and none ends in another's name (onVoteEnd 1086-1136 uses
\* currentVote after its awaits).
NoOrphanVote ==
    EndedOnce =>
        /\ \A w \in VoteIds : vote[w].running => current = w
        /\ \A a \in Awaits, w \in VoteIds : pending[a][w] > 0 => current = w

\* As long as no vote is ended twice, the VM is acted on at most once for a
\* vote and never before the vote has ended.
ActsOnceAfterEnd == EndedOnce => \A w \in VoteIds : acts[w] <= ends[w]

\* As long as no vote is ended twice, a running vote counts at most one vote per
\* IPData, and one more while its flag is set: the starter does not set it, and
\* whoever leaves clears it for all (Vote.ts 52-60, 112-124).  Users of an address
\* who are connected at the same time share the object.  More votes of an address
\* come from objects that were collected: a displaced user who votes on his closing
\* socket leaves the vote behind, and his mark where nobody will look for it.
AtMostTwoPerIP ==
    EndedOnce => \A w \in VoteIds, o \in Users :
        vote[w].running =>
            Cardinality({u \in Voters(w) : holder[u] = o})
                <= IF o \in hasVoted THEN 2 ELSE 1

\* As long as no vote is ended twice, votes are what Ballot describes: one after
\* another, each closed once, the VM told at most once and only by the vote that
\* closed last, whatever is cast, started, lost or answered between the awaits
\* (startVote 1057-1084, onVoteEnd 1086-1136).
Stage ==
    IF ~up THEN "down"
    ELSE IF current = 0 THEN "idle"
    ELSE IF vote[current].running THEN "open"
    ELSE "carrying"
Promise == INSTANCE Ballot WITH stage <- Stage, last <- started, deeds <- acts
ImplementsBallot ==
    /\ Promise!Init
    /\ [][EndedOnce' => [Promise!Next]_(Promise!vars)]_voteVars

\* Only a member of the staff ends a vote that has ended, and only the one the
\* server still holds, whose passing is awaited or stuck: no interval and no
\* continuation ends a vote again (onAdminForceVote, EndVote).
EndedAgain(w) == ends[w] >= 1 /\ ends'[w] > ends[w]
EndsAgainByForce ==
    [][\A w \in VoteIds : EndedAgain(w) =>
          /\ current = w /\ ~vote[w].running
          /\ \E u \in Staff, result \in BOOLEAN : OnAdminForceVote(u, result)]_voteVars

\* As long as no vote is ended twice, an IPData that is marked as having voted is
\* that of a voter of the running vote, or its last mark was set by a vote cast
\* while the passing of a media vote was awaited, after EndVote had cleared the
\* marks: then its users may not vote until a vote that one of them started ends
\* or is left (onCastVote 396-426, Vote.ts 97-124 and 136-150).
LateMarks ==
    EndedOnce => \A o \in hasVoted \ markedLate :
        /\ current # 0 /\ vote[current].running
        /\ o \in Held(Voters(current))

\* Without media votes nothing is awaited at the end of a vote, and then no
\* address is left marked as having voted when no vote is held: whoever marked
\* it was a voter at the end, or took the mark with him (Vote.ts 97-124, 144-146).
FlagsClearBetweenVotes == current = 0 => hasVoted = {}

\* Whoever the held vote counts is a client, or cast that vote when no longer
\* one, on a socket that was closing or by an answer that came too late: wherever
\* a disconnect or a login elsewhere comes between the other handlers, what was
\* cast before goes, whichever side it was on (CollabVMServer.ts 190-198).
LeaversDoNotCount ==
    current # 0 => Voters(current) \subseteq Clients \cup vote[current].late

\* The server holds a vote that has ended and that nothing will clear.
Stuck ==
    /\ current # 0 /\ ~vote[current].running
    /\ \A a \in Awaits : pending[a][current] = 0

\* A vote the server holds is over in the end, unless it is stuck or the
\* process went down.
VoteSettles == \A w \in VoteIds : current = w ~> (current # w \/ Stuck \/ ~up)

\* The one way to get stuck is that the meta server does not know the media of
\* a vote that passed (CollabVMServer.ts 1110-1113).
StuckOnlyByBadId == [][~Stuck /\ Stuck' => \E w \in VoteIds : LookupBadId(w)]_voteVars

\* onVoteEnd says this.currentVote! (CollabVMServer.ts:1134): when it gets
\* there, the vote it finishes is still held.
CurrentVoteNotNull ==
    \A a \in {"insert", "eject"}, w \in VoteIds : pending[a][w] > 0 => current # 0
==========================================================================
