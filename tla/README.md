# Verification of the CollabVM server (collabvm-1.2.ts)

CollabVM lets many people on the web share one virtual machine: they queue for
turns at its keyboard and mouse, vote to reset it or to change its disks, and
chat; staff moderate. This directory holds TLA+ models of the server's logic,
the TLC runs that check them, and proofs about the turn controller and
its handlers, votes, names and user lists, the life of the VM, the data and bans of
addresses, and the screens of the clients.

Paths below are relative to `src/cvmts/src/` unless they start with `src/`;
`Server` is `CollabVMServer.ts`.

## 1. Inventory

### 1.1 The parts

| Part | Code | State | Operations |
|---|---|---|---|
| Turn controller | `TurnController.ts`, `util/timer.ts` | queue, one of four states, a timer | add, remove, bypass, end, clear, pause, unpause, a second passes |
| Votes | `Vote.ts`, `Server` 360-423, 605-632, 762-828, 1057-1136 | the current vote, its interval and voters, cooldowns, `IPData.hasVoted` | start, cast, force, leave, a second passes, three awaits at the end of a media vote, commands to the VM that nobody awaits |
| Turn handlers | `Server` 323-358, 623-720 | `votesAllowed`, `IPData.muted` | request, forfeit, and every turn command of the staff |
| Connections | `Server` 143-205, 437-489, `User.ts` | the `clients` array, sockets, `connectedToNode` | open, join the node, close, disconnect, displaced by a login |
| Sessions | `Server` 225-281, 501-522, 668-676, 832-892 | user names, ranks, the user list *in each client* | guest names, login, rename by staff |
| Address data | `IPData.ts`, `User.ts` 136-159 | reference counts, `muted`, `hasVoted`, a mute timeout | ref, unref, collect, mute, unmute |
| Keep-alive, rate limits | `User.ts` 95-119, `RateLimiter.ts` | two intervals and a timeout per user; counters | nop, timeout, request |
| Bans, WebSocket front | `BanManager.ts`, `net/ws/*.ts`, `Database.ts` | the ban table, sockets being upgraded | upgrade, ban, unban |
| VM back ends | `vm/vnc/VNCVM.ts`, `vm/qemu.ts`, `display/vnc.ts`, `Server` 108-131 | the VM's state, its display, restart timers | start, stop, reset, display connects and drops |
| Display frames | `display/batch.ts`, `JPEGEncoder.ts`, `Server` 972-1055, `src/cvm-rs/src/jpeg*.rs` | rectangles of a frame, jobs of an encoder pool | batch, encode, send |
| Codec, protocols | `src/cvm-rs/src/guac*.rs`, `protocol/*.ts` | none | encode, decode, dispatch |
| Meta server | `src/meta-server/src/iaos/iaos.ts`, `meta/metaApi.ts` | a repository of media | load, look up |
| Start-up, configuration, logs, cgroups | `index.ts`, `IConfig.ts`, `AuditLog.ts`, `GeoIPDownloader.ts`, `util/cgroup.ts`, ... | none that outlives a call | |

### 1.2 How they interact

All of it but the encoder pool and the meta server is one Node process, so a
handler runs to its first `await` undisturbed; concurrency is what happens
*between* handlers, at awaits, and in timers.

* `CollabVMServer` calls the turn controller and the votes; both answer through
  a callback or an event, in the same call.
* The end of a media vote, a login, a ban and the request to change media await
  other processes. What they resume with may have changed meanwhile.
* `connectionClosed` is called by the `disconnect` event *and* by hand, when a
  login displaces an older session; a closing socket still delivers messages.
* `IPData` is shared by all connections of one address: marks that one user
  leaves on it (muted, has voted) govern the others.
* Clients are told of changes to the user list one message at a time; nothing
  ever sends them the whole list again.

### 1.3 What is hard, and what correct means

* Turn controller: one timer is armed, paused and unpaused from eight places,
  according to a four-state machine with a fall-through. Correct: the clock runs
  exactly while somebody waits; nobody is overtaken but by staff; the wait a user
  has been told is kept; everybody waiting is served.
* Votes: `currentVote` stays set while the end is awaited. Correct: a
  continuation finishes the vote it was started for, the VM is acted on once,
  marks on address data do not outlive the vote, a vote is over in the end.
* Turn handlers: disconnects, displacements, mutes and pauses meet the queue.
  Correct: no turn goes to somebody who is gone, except as explained; limits hold.
* Sessions: logins await. Correct: names are unique, the clients' lists are
  exact, an account whose name the server allows has one session.
* VM back ends: `Start`, `Stop` and `Reset` are asynchronous, nothing serialises
  them, and each stop schedules a start of its own. Correct: one display at a
  time, and no overlap leaves the VM down.
* Address data: objects outlive their entry in the map, timeouts outlive users.
  Correct: the connections of an address share one object with the right count,
  and a mute binds them all.
* Bans and sockets: the ban list is read and written across awaits, and a promise
  that is rejected ends the process. Correct: who is banned goes and does not come
  back, and the process ends only for a failing database, a second insert, or a
  socket that is reset while the ban list is asked.
* Frames: pictures are encoded by threads out of a live buffer and end in any
  order, while sizes change and staff hide the screen. Correct: at rest everybody
  who was sent a first picture sees the screen as it is, and nobody sees a hidden one
  but staff.

Every hazard is listed at its line in `PROJECT.json`, with the properties that
cover it or the reason why none does.

## 2. The plan

In this order, the most important behaviour first. Done:

1. `QueueOps`, `TurnController`: the queue, the state machine, the clock.
   `TurnLine` is the abstract specification: a line with no clock.
2. `Votes`: every await a step of its own.
3. `Connections`, and `TurnServer`, which composes `Connections` with
   `TurnController` by the handlers.
4. `Sessions`, which composes `Connections` with names, logins and lists.
5. `QueueOpsProofs`, `TurnControllerProofs`.
6. `VncVm`, the life of a VM behind shell commands with its display and the
   server's restart timer; `VncVmProofs`.
7. `AddressData`, and `Access` over it: upgrade, bans, kicks, keep-alive, mutes and
   the chat limiter; `AccessProofs`.
8. `Rects` and `Screen`: from the framebuffer to what each client sees;
   `ScreenProofs`.
9. `SessionsProofs`, `TurnServerProofs` over the proofs of the controller, and the
   order and the waits of the controller's queue.
10. `VotesProofs`.
11. The refinements, with their proofs: the handlers of turns, as a whole, implement
    `TurnLine` too, and the votes implement `Ballot`, one vote after another.

Next:

12. An abstract specification of the user list, which `Sessions` implements.
13. The composition of names and queue, for what `sendTurnUpdate` tells a client it
    finds by name.

## 3. The modules and the code

`PROJECT.json` "map" gives the lines of every definition. An operator marked
`Fault` is a plausible bug, used to test that a property can fail; no
specification contains it.

* **QueueOps** - sequences without repetitions: `InLine`, `Position`, `Without`
  (the filter of `bypassTurn` and `removeUser`, written so that it can be proved
  about; `MCTurnController` assumes, and TLC evaluates, that it equals the
  community modules' `Remove` on every queue of the run).
* **TurnController** - `queue`, `state`, `timer`. One action per public method and
  one for the timer's interval. Methods end in `UpdateStateMachine`, which picks
  the state (`StateFor`) and applies `OnTurnStateChange` to the timer, with the
  fall-through of the source. `TurnTime` is `config.collabvm.turnTime`.
* **TurnLine** - what callers rely on: `Join`, `Leave`, `Advance`, `Preempt`,
  `Seize` (the indefinite turn of staff, which puts one in front and freezes the line
  in one step), `Clear`, `Freeze`, `Thaw`; `Spec` makes an unfrozen, contested turn
  end. `TurnController` implements it with its fairness, `TurnServer` its safety: the
  line is the queue, and it is frozen while the controller is paused.
* **Connections** - `sock`, `clients`, `joined`. A socket that is closed becomes
  "closing" and reports its disconnect later; meanwhile its user is among
  `Talking`. `ConnectionOpened` kicks the oldest client of the address.
* **TurnServer** - the handlers, each one step, over an `INSTANCE` of
  `TurnController`. `muted` holds the addresses; a mute may end at any time, for
  the timeout of a temporary mute is not counted. `BanStarts` and `BanDone` are
  the two sides of the await in `User.ban`. `leftBehind` and `displaced` are
  history, for `GhostsExplained`.
* **Votes** - `vote` holds the `Vote` objects by number, since an old one may
  still have an interval or a continuation; `current` is `currentVote`. `pending`
  counts the continuations of `onVoteEnd` by what they await; they resume with
  whatever `current` is then. `hasVoted` is on `IPData` objects: users connect
  (`Connect`) and hold the object of their address (`holder`, which is `user.IP`), or a
  new one once `Collect` has taken the old one out of the map (`ipDatas`); as in
  `AddressData`, an object is named by the user whose connection made it. What the VM
  is told without anybody waiting for it is `unawaited`: votes that reset or reboot,
  media that staff change at once, or anybody where no vote guards them
  (`OnIaosChangeMedia`, `OnIaosEjectMedia`), and what staff restore or reboot. A
  rejection that nothing handles (`Rejected`, `ChangeMediaRejected`,
  `UnawaitedRejected`) ends the process (`ProcessExits`; Node's default), and with it
  everything the process held. History: `late`, in a vote, has who voted when he was no
  client any more, `markedLate` the objects whose mark was set after the end had
  cleared the marks. `MaxVotes` bounds the votes started, `MaxEnds` the times one vote
  is ended.
* **Ballot** - what votes promise, without users, clocks, types of votes or awaits:
  `Open`, `Close`, which may `Tell` the VM what was voted for at once, `Carry`, which
  tells it later, `Settle`, and `Crash`, which may come at any stage. In `Votes`,
  `Stage` is "open" while the interval of `currentVote` runs, "carrying" while a vote is
  held that has none, "idle" without a vote and "down" without a process; `last` is the
  number of votes started and `deeds` what the VM was told for each.
* **Sessions** - `name`, `account`, `awaiting` (logins at their await) and `view`,
  the list each client has built from `adduser`, `remuser` and `rename`; how a
  client reads these three is external. Authentication is on. `Refused` are the
  accounts whose names `renameUser` refuses for their length, their characters or the
  blacklist: a login to one of them gives a guest name. `MaxLogins` bounds
  the logins awaited at a time, and no user awaits two for one account. The login
  of a user who hides his flag sends a removal and an addition where the other
  path sends a renaming and an addition: with what the user is told about himself
  the lists come out the same, so one action stands for both.
* **VncVm** - `stage` says at which await each operation is: the boot, every reset,
  the restart that its stop schedules, the exit. A command is two steps, its effect
  on the machine (`CommandRuns`) and its report (`EndStart`, `EndStop`), so that
  others run between them; a command that fails ends the process. `keep` and
  `link` are `VncDisplay.vncShouldReconnect` and its connection, `heard` the
  displays the server has listeners on. The restart fires after the sleep of its
  reset is over: both are set in the same turn of the event loop, and five seconds
  are more than one. The VncClient (`LinkUp`, `LinkLost`) is external.
* **AddressData** - the methods of `IPDataManager`, `IPData` and the mutes of `User`
  as operators over `ipDatas`, `holder`, `refCount`, `muted` and `timer`. An object
  is named by the user whose connection made it.
* **Access** - the actions that use them. `socket` goes from the upgrade through the
  query of the ban list to the close event; a socket that is reset during that query
  has no listener for its error, which ends the process (`SocketReset`). `inserting`
  counts the bans of each user that await the database - nothing keeps staff from
  banning him again, and `MaxBans` bounds how many wait at a time - and `banStage` is
  how far the one that the database took has got. `failed` is history: what failed, a
  request to the database or a socket. An address is a record of family, network and
  host, so that `FormatIP` does what it does. `Kick` stands for every call of `kick`
  and `closeConnection` from elsewhere. A user connects once, since another connection
  is another `User`.
* **Rects** - `BatchRects` of `display/batch.ts`, by what it returns: the bounding box
  of the rectangles, with its two special cases.
* **Screen** - every drawing has a number; `fb` is the number that drew each pixel
  last, and a picture is what it shows of each. An encoding in `jobs` holds the
  pixels it may have read as bounds: what was there when it was asked for, and
  what is there when it ends (or what was, if the buffer was replaced by a change
  of size). `view` is what a client has on its screen, `Nothing` the image of the
  hidden screen. A client may connect more than once (`MaxConnects`), also with a view
  mode that is refused (`ConnectRefused`), which leaves it marked as connected without
  a full screen. `overtaken`, `leaked` and `blank` (the clients so refused that have had
  no full screen since) are history.

## 4. The runs

| Run | Instance | Distinct states | What it shows |
|---|---|---|---|
| TurnController | 4 users, turn of 3 s | 652 | the whole controller, with liveness and refinement |
| TurnControllerPaused | 3 users | stops early | *finding*: a paused queue's clock runs |
| VotesReset | 3 users, 2 addresses, 3 votes of 2 s | 516,810 | counting and marks of votes that act at once, over data that is collected |
| VotesMedia | 2 users, 2 votes of 1 s, each ended at most twice | 417,380 | awaits at the end of media votes, with liveness |
| VotesNull | as VotesMedia | stops early | *finding*: `currentVote!` is null |
| TurnServer | 2 users of one address, 1 of another and an administrator, one connection per address | 1,525,434 | all handlers over the controller |
| Sessions | 3 connections, 2 accounts, one of a refused name, 3 guest names | 1,071,166 | names, logins, lists |
| SessionsNames | as Sessions | stops early | *finding*: refused renames happen |
| VncVm | 3 resets, 2 display objects | 153,039 | any overlap of boot, resets, restarts and exit, with liveness |
| AccessSafety | 3 connections of one address, 2 bans waiting at a time | 2,532,944 | counts, mutes, the collection, bans, the exits |
| AccessLive | 2 connections of one /64, one of which may fall silent | 323,999 | bans and the keep-alive, with liveness |
| Screen | 2 pixels, 1 client that may become staff and connects twice, 2 drawings, 1 resize, 1 hiding and 1 showing | 2,299,107 | frames, full screens and hiding in any order |

### What is checked

*TurnController.* `ClockRunsWhileContested`: unless paused, the clock runs
exactly while somebody waits, with 1 to `TurnTime` seconds on it.
`PromisedWaitKept`: what `getTurnInfo` told a waiting user
never grows unless somebody is put ahead of him, and a second takes a second off
it. `WaiterServed`: a waiting user is served in the end if staff stop pausing and
bypassing. `ImplementsLine`: every behaviour is one of `TurnLine`, its fairness
included, so nobody is overtaken except by a bypass or an indefinite turn
(`NobodyOvertaken` says this of places in the queue, and is proved), and an empty
or paused queue has no clock that could end a turn (`NoStaleClock`, proved too).

*TurnServer.* `GhostsExplained`: users in the queue who are no clients got there
in exactly two ways - a paused queue did not let them go, or they asked after
being displaced. `TurnLimitPlusOne`, `MutedStayOut`, and `ControllerConsistent`:
the controller's own invariants through handlers that call it twice, and that turns
which staff have disabled are paused (`DisabledIsPaused`). `ImplementsLine`: every
handler, with all it calls, is one step of the line or none. `OnlyStaffOvertakes`:
who gets ahead of somebody who waits is put first by a member of the staff. In this
run two ordinary users of different addresses and the administrator may stand in the
queue together; how longer queues keep their order is what the run of the controller
shows, and the theorem says it of any length.

*Votes.* `NoOrphanVote`, `ImplementsBallot` and `LateMarks` hold as long as no vote
is ended twice, which is what `EndedOnce` says; without it they do not, and
`VotesNull` shows how that ends. `ImplementsBallot`: every step is a step of `Ballot`
or none, so the VM is told once at most, for the vote that is being carried out, and
the next vote waits for it. `LateMarks`: an `IPData` that is marked as having voted is
that of a voter of the running vote, or its last mark was set by a vote cast after the
end of a media vote had cleared the marks and before `currentVote` was: such a late
vote is the one way to be kept from the next vote. `VoteSettles` with
`StuckOnlyByBadId`: a vote is over in the end, and the one thing that leaves a dead
vote in place for ever (until staff force it) is media the meta server does not know.
`FlagsClearBetweenVotes`: without media votes no mark outlives a vote.
`AtMostTwoPerIP`: the users who share one `IPData` have two votes in a running vote at
most, and one if it bears no mark. It says this of objects, not of addresses: a
displaced user may vote on his closing socket and go, his vote stays, and when his
object is collected the next users of the address have a fresh one.
`LeaversDoNotCount`: in every state, whoever the held vote counts is a client, or
cast that vote when he was none any more; what he had cast as a client went when he
left, was kicked or displaced.

*Sessions.* `NamesUnique`, `OneSessionPerAccount`, and `ViewsExact`: the list of each
client is exact but for the names in `doubtful`. A name comes into doubt when a user is
announced or renamed who is no client any more: every list has him, and nothing
takes him off; and if somebody else has got the name he had, that one's entry is
renamed instead. Doubt passes on when a client whose name is in doubt is renamed,
since a list that lacks him ignores it. It ends when somebody whose own
name is not in doubt takes that name, when it is announced by the login of a client,
or when a client leaves with it: then all lists are right again.
`OneSessionPerAccount` is about the accounts whose name the server allows: the login
looks for the session to displace by that name, and two sessions of an account whose
name is refused both stay.

*VncVm.* `OneDisplay`: a display that keeps itself connected is the one the VM hands
out, and the server listens to it. `QuietMeansStarted`: when nothing is under way,
not even a restart, the machine runs, is known to run and has a display.
`VmServesAgain`: as long as the process lives, clients get a picture again and
again. The restart timer is what makes these hold: a reset whose start is undone
by the stop of a later one is made good by the restart of that one.

*Access.* `SharedData`: the connections of an address hold the object that is in the
map, and its count is their number, so the collection never takes data in use.
`MuteBinds`: a mute binds whoever is or comes to the address until the timeout of a
temporary mute fires - also one that was started before a permanent mute, which the
code leaves running. `BannedStayOut`: after the insert nobody of the address or /64
passes the check, whichever of the two awaits ends first. `ExitExplained`: the process
ends only for a failing database, for a second ban of one scope, by anyone and of
anyone, the same user included, whose insert violates the primary key, or for a raw
socket that is reset while the ban list is awaited. `BannedIsGone`, `SilentIsGone`:
who is banned, or stops answering, is closed in the end.

*Screen.* `ViewersCurrent`: at rest a client that may see the screen sees each pixel
as it is, unless something older was sent to it after something newer, which the
pool of encoders allows and nothing prevents (`overtaken`), or it was refused for its
view mode and is owed no full screen (`blank`): the property is about what has been
sent or is owed, not about these two. `HiddenUnlessInFlight`: nobody but
staff sees anything of a hidden screen, unless a full screen asked for before the
hiding was sent after it; after its await nobody looks at `screenHidden` again.

### The bounds, and why they are enough

* Three users are the fewest with a head, a waiter and one who comes between;
  the controller's run has four, so that a user can be removed from between two
  who wait. A turn of three seconds has a first, a middle and a last second.
* A turn limit of 0 in `TurnServer` puts the second user of an address at the
  limit, one connection per address makes the second connection kick the first,
  so that closing and displaced users meet the queue; a third user and an
  administrator behind another address let two ordinary users wait together and staff
  go ahead of either. A turn lasts 1 second there, the details of the clock having been
  checked already. No step is taken from a state in which all three ordinary users have
  connected or two bans are being written (`FewUsers`): the run has two users of one
  address, or of two, with the administrator.
* Two votes let a continuation of the first meet the second; two ends of one vote
  let two continuations of it meet. Three votes in `VotesReset` let marks pass
  from one to the next twice, and two users of an address let one connect after the
  object of the other was collected. A user connects once: whoever comes back is a
  user who has not connected yet.
* In `Sessions` a user can disconnect or be displaced during his login while a
  second login is awaited; three names let two guests be renamed. The name of the
  plain account is refused, that of the staff's is not.
  No step is taken from a state with more than two names in doubt (`MaxDoubts`): one
  login answered too late makes two, and any rule of `Doubt` meets them.
* Connections are used once: a reconnecting user is one of the users who have
  not connected yet, which is what a new `User` object is.
* Three resets let two of them overlap at every await while the restart of a third
  is pending; abandoned displays disconnect for good, so two objects are reused.
* In `AccessSafety` three connections let one come and one go while a third holds the
  object, and two of them, or one of them twice, be banned (`MaxBans = 2`, in both
  runs); `ChatLimit = 2` has one message below the limit. Two addresses of one network
  tell the key of the ban table from the address.
* Two pixels tell a batch from its rectangles and let a picture be old in one part
  and new in another; two drawings and one resize let one encoding be overtaken by
  another and by a change of buffer. Two connects let a full screen be asked for twice,
  and follow a refused view mode. No step is taken from a state in which more than three
  pictures are being encoded (`FewJobs`): three are a frame, a full screen and one that
  overtakes both. What a client is sent does not depend on the others, and the proofs
  are for any number of them, of drawings and of encodings.

Symmetry is used where users (or guest names) are interchangeable in the
constants and only safety is checked (the two users of one address, in
`MCTurnServer`). `MCVotes` has a view that forgets votes neither held nor running,
objects of the map that nobody is left to find, and `votesAllowed` where no vote is
enabled that it guards; `MCSessions` one that forgets the names of users who are gone;
no action lets them flow back into what is kept, and no property reads them there.

`CHECK_DEADLOCK FALSE`: in `Votes` the process may end and the votes run out; in
`TurnServer` and `Sessions` every connection may have been closed; in `VncVm` and
`Access` the process may end; in `Screen` drawings, connections and hidings run out.
The controller alone is checked for deadlock.

### Fairness

Node keeps firing an interval that is not cleared: weak fairness of
`OnSecondElapsed` and of `VoteTick`. Every promise settles, one way or the other:
weak fairness of a vote's continuations as a whole, so a lookup may be answered
either way for ever. No user, staff member or login is obliged to do anything.
In `VncVm` a command that was spawned ends, by success or failure; what follows an
await and the timers run; and a VNC server that runs answers at last (`LinkUp`),
however often the link is lost. In `Access` the timers fire, the database answers an
insert, and a socket that is being closed reports its close, since `ws` gives up on
a silent peer; upgrades, messages and staff are not fair.
`WaiterServed` assumes in its statement, not in the specification, that staff stop
pausing and bypassing.

## 5. What is proved

All proofs are for *every* value of the constants that the named assumptions of
the modules allow; TLC evaluates those assumptions on every run.

### The turn controller

`TurnControllerProofs`, with `QueueOpsProofs` beneath it, for every set of users
and every positive turn time (`TurnTimeAssumption`, the only assumption):

* `Invariance`: `IInv` holds in every reachable state. `IInv` is the conjunction
  of five invariants. None is inductive alone: that the clock runs
  while the queue is contested needs the state to match the queue, since the state
  before decides what a transition does to the timer, and that no running clock
  is empty, since an armed timer is told from a disarmed one by its seconds.
* `TypeCorrect`, `NoDuplicatesHolds`, `StateMatchesQueueHolds`, `ClockRunsHolds`,
  `NoStaleClockHolds`: its parts. The run checks all but the last.
* `NobodyOvertakenHolds`, `PromisedWaitKeptHolds`: action properties, from `IInv`
  before and after a step. `QueueSteps` and `ContestedSteps` reduce every method to
  six changes of the queue, and `AppendPosition`, `WithoutPosition`, `DequeuePosition`
  and `FrontPosition` say where everybody stands after each; `OrderKept` and
  `FrontOvertakes` say of two users which of these changes may swap them. A wait is
  the clock plus a turn for each place behind the next one (`WaitingTimes`).
* `ImplementsLineSafety`: initial states map to initial states, and each step is
  a step of `TurnLine` or a stutter.

The argument: all methods end in `UpdateStateMachine`. `Settling` says what each
has established of the queue, state and timer it hands over; `UpdateRestores`
shows once and for all that `UpdateStateMachine` turns that into `IInv'`, by
`TransitionTimer`, which goes through the transitions of the state machine. So
`NextIInv` has one step per method, which only has to show `Settling`.
`QueueOpsProofs` says what `Without`, `Append`, prepending and `Dequeue` do to
members and repetitions.

### The handlers of turns

`TurnServerProofs`, for all users, addresses, staff, turn times and limits
(`TurnServerAssumption`, `MaxConnectionsAssumption`). It takes the controller's
lemmas as they stand, from an instance `Control` of `TurnControllerProofs`;
`SameMethods` shows that `Control` and the controller the server uses have the same
methods. `IInv` adds to the controller's invariant and to the invariants of the run
that nobody is a client twice, and that whoever can still be heard is a client or
was displaced by a login (`ClientsInv`): without this a ghost might ask for a turn.
For each method one lemma (`AddFacts`, `RemoveFacts`, ...) says who is in the queue
afterwards and whether it is paused; `IndefiniteFacts` shows that the pause and the
bypass of an indefinite turn, which are one step, restore the controller's invariant
together. `TurnLimitPlusOne` counts: a request passes with at most the maximum of
places taken and adds one, all others who enter are staff. `MutedStayOut` is an
action property and follows from the same lemmas.

`MethodSteps` reduces every handler to one method of the controller, or none, or an
indefinite turn, which calls two and which only staff take. The rest goes by these.
`ImplementsLineHolds`: the instance of `TurnLine` in the server is the one in the
controller with the same queue and state (`SameLine`), so a handler inherits the
simulation of its method (`MethodSimulation`), and an indefinite turn is one `Seize`
(`IndefiniteSimulation`). `OnlyStaffOvertakesHolds`: of the changes of the queue only
prepending swaps anybody, and only the two steps of staff prepend (`QueueSteps`,
`StepOvertakes`). `HandlersKeepWaits`: what `PromisedWaitKept` says of the
controller's methods holds of all handlers. No run checks that: the
run of the controller does so for its methods.

### Votes

`VotesProofs`, for any finite set of users, any addresses, staff, enabled types of
votes, times and bounds (`UsersAssumption`, `TypesAssumption`, `TimesAssumption`,
`BoundsAssumption`). `NoOrphanVote` is not inductive: that a continuation finds its
vote still held needs that nothing else is awaited at that moment. So `IInv` keeps
accounts. As long as no vote is ended twice, the ends of each vote pay for what is
awaited at its end, and for what the VM was told or will be told (`EndsPay`); an
interval that runs is that of a vote with no end yet (`RunningNotEnded`); and who has
not connected has not voted and asks for nothing (`Arrived`). Hence at the
first end of a vote nothing is awaited (`FirstEnd`), while something is, it is one
thing, for the vote that is held (`OneAwaited`), and a new vote starts only when
there is nothing (`StartIInv`). `ActsOnceAfterEnd` is half of `EndsPay`.
`ActsOnceAfterEnd` is not checked by a run: `ImplementsBallot` says more.
`AtMostTwoPerIP` counts the voters of an `IPData` object before and after each of the
three steps that change them (`AtMostTwoCast`, `AtMostTwoLeft`); all others, connecting
and collecting among them, leave the object of every voter as it is (`SameHolders`,
`SameFrom`). `FlagsClearHolds` assumes that
no vote on media is enabled: then nothing is ever awaited, however often staff force
a vote, and every mark belongs to a voter of the vote that is held
(`MarksAreVoters`). With media votes it fails, because a vote may be cast between the
end of a vote and the end of its continuation. `StuckOnlyByBadId` is an action
property, one lemma per step.

The handlers are too many to go through for each property, so `Steps` sorts them into
classes (`Quiet`, `StartVote`, `Casting`, `Leaving`, `Ending`, `Ticking`,
`LookupFound`, `Dropping`, `ProcessExits`), each saying what such a step may change.
`LeaversDoNotCount` is an invariant that goes by two facts: whoever a step adds to the
voters is a client then or is in `late` (`StepVoters`), and whoever stops being a client
is no voter any more (`StepLeavers`). Over the same classes stands a second invariant,
`Aux`: a vote that is held is the last that was started (`HeldIsLast`), and `LateMarks`.
`LateMarksHolds` is its second part: an end clears the marks of the voters it finds,
which are all marks that were not set late (`EndingAux`), so that where no vote runs
every mark was set late (`NoRunNoMark`).
`EndsAgainByForceHolds`: every step but the force of staff ends a vote that has not
ended.

`ImplementsBallotHolds` maps every step: a start is `Open` (`StartOpens`), an end
`Close` (`EndCloses`), a continuation that tells the VM `Carry` (`FoundCarries`), one
that drops the vote `Settle` (`DropSettles`), an exit `Crash`, whatever the stage is
that it cuts off (`ExitCrashes`), and what voters do is no step (`VotersStutter`).
That nothing is told twice needs `EndsPay`, that a continuation is for the vote that
is held `OneAwaited`, and that a process that is down stays as it is `DownIsEmpty`. As
in the run, a step counts that leads to a state where no vote was ended twice.
`VmVotesImplementBallot` needs no such condition: if only votes on the VM are enabled,
nothing is awaited, so no vote is ended twice, even by staff
(`EndedOnceWithoutMedia`), and the votes implement `Ballot` in every behaviour.

### Names and sessions

`SessionsProofs`, for all users, accounts and guest names (`NamesAssumption`,
`MaxConnectionsAssumption`). `IInv` adds to `NamesUnique` and `ViewsExact` that who
has not connected is nobody, and that who is logged in to an account whose name is
allowed and was not renamed by staff bears that name (`BearsAccount`). The hard step
is the answer to a login: whoever bears the name of the account is displaced before it
is given away (`Displacing`), and he alone bore it, so names stay unique; where the
name is refused a guest name is given that nobody has; `OneSessionPerAccount` follows
from `NamesUnique` and `BearsAccount`. The lists are exact because each message makes
the new list of names from the old one: a client who leaves takes a name with him that
nobody else has (`ListWithout`), a rename changes one entry (`ListRenamed`), and
everybody who still hears the server is told (`Told`). What a rename or an
announcement does to a list that is not exact, one lemma says for each rule of
`Doubt`: `RightRenamed`, `RightAnnounced` and, for users who are gone, `RightStray`.

### The VM

`VncVmProofs`, for every finite set of resets and any two or more display objects.
`IInv` is `TypeOK`, `OneDisplay` and `OwedBySomebody`: while the machine is down, an
operation that will start it (or ends the process) is under way, and while it is not
known to run or has no display, some operation is.
`QuietMeansStarted` follows, and is not inductive alone: it says nothing while
something is under way. Each stop hands its debt to the restart it arms
(`EndStop`), each `Start` holds it until `EndStart` pays it, whoever disconnected the
display meanwhile.

### Addresses, mutes and bans

`AccessProofs`, for every finite set of connections, all addresses and every chat
limit. `IInv` adds to `SharedData` and `ExitExplained` that an object is named by a
user who has entered and belongs to his address (else a fresh connection might meet an
object with a count), and that the rows of the table are the keys of the bans that
have been written. `ExitExplained` follows since a ban is refused by the table only if
one of its key was written, and every other exit has set `failed`. `SharedData`
counts: the lemmas about `Holders` say what opening and closing do to the cardinality.
`MuteBinds` and `BannedStayOut` are action properties: each follows from `IInv` before
and after a step. `BannedStayOut` rests on `KeyIsScope`: two addresses have the same
key in the table exactly when a ban of one is meant for the other.

### Rectangles and screens

`ScreenProofs` begins with `BatchIsHull`: the batch of a frame lies within the screen,
contains all rectangles of the frame, and is the least rectangle that does. The rest
stands on it, for every size, every set of rectangles the VM may draw and any number
of clients. `IInv` says that jobs read nothing older than what was there when they
were asked for (`JobsOrdered`), that full screens are whole and announced with a size
the screen has or had, that full screens asked for while the screen is hidden go to
staff, and `OnItsWay`: what a client lacks is among the rectangles that come in, or a
job under way brings it, or the client is in `overtaken` or `blank`. The argument,
step by step: a drawing puts its pixels among the rectangles; the frame's batch covers
them (`BatchCovers`); a change of size puts the whole screen there; a job that ends
either delivers the present state of a pixel, or had not promised it, or overtakes;
connecting and showing add full screens. At rest nothing is on its way, hence nothing
is lacking: `ViewersCurrent`.

### Only model-checked

Liveness (`WaiterServed`, `VoteSettles`, `VmServesAgain`, `BannedIsGone`,
`SilentIsGone`, the fairness half of the controller's `ImplementsLine`), which is out
of the prover's reach. All other properties of passing runs are proved as well.

## 6. Findings

1. `TurnController.ts:154` - ending a turn arms the clock in any state; if the
   queue is paused, it runs and ends turns although `TurnController.ts:12` calls
   the state explicitly paused (`PausedClockStopped`).
2. `Server:1134` - forcing a media vote whose end is awaited lets two continuations
   run; the second dereferences a null `currentVote` and the process ends with an
   unhandled rejection (`CurrentVoteNotNull`).
3. `Server:670` - staff are told that users cannot be renamed on a server that uses
   authentication, and the user is renamed (`LoggedInKeepName`).

Also seen:

* the turn limit of an address lets in one more than the number configured
  (`Server:348`; `config.example.toml:131` calls it the limit of turns an IP may
  have): `TurnLimitPlusOne` states what the code does;
* the connection limit kicks a client who may be closing already, so that more
  connections than the limit (`config.example.toml:121`) stay for a while
  (`Server:148`), and another connection in that time kicks him again, so that both new
  ones stay (`Server:147`);
* the message that reaches the automute limit mutes, not the one after it
  (`RateLimiter.ts:20`; `config.example.toml:133` says "more than");
* the timeout of a temporary mute ends a permanent one (`User.ts:140`); a second ban
  of one address or /64, be it of the same user, ends the process (`Database.ts:36`),
  and so does a raw socket that is reset while the upgrade awaits the ban list, for
  nothing listens to its error (`WSServer.ts:161`); a full screen under way is sent
  over the image of the hidden screen (`Server:1029`); an older picture may be sent
  after a newer one and stay until something is drawn there (`Server:988`);
* the answer to a login whose user has left announces him, until somebody takes that
  name or leaves with it (`doubtful`, in `ViewsExact`); two sessions of an account whose
  name is refused both stay (`Server:860`);
* a vote cast while the end of a media vote is awaited leaves its mark on the `IPData`
  (the marks in `markedLate`, which `LateMarks` sets apart); a displaced user may vote
  again on his closing socket, which nothing takes back (`Server:192`), and with his
  collected `IPData` his mark is lost; so is a mute that outlives all connections of
  its address;
* look-ups and commands to the VM that nobody awaits end the process when they are
  rejected (`Server:606`, 613, 620, 774, 795, 824, 1092, 1099); unknown media leave a
  dead vote in place; a user who waits in a paused queue stays in it when he
  disconnects;
* a client whose view mode is invalid is told that connecting failed, is sent frames all
  the same, and never a full screen (`Server:446`).

## 7. Not modelled

* Chat, MOTD, screenshots, flags, capabilities, audio: messages that change no
  state another handler reads.
* Permissions beyond "staff or not", vote and turn whitelists and rate limits in
  `Votes` and `TurnServer`: they refuse requests, and a user may as well not
  have asked.
* A server without authentication in `Sessions`: there guests choose names and
  the rename of a muted user is refused.
* What `updateCb` sends (`sendTurnUpdate`): it looks users up by name; the
  composition of names and queue is planned.
* The Guacamole codec and the dispatch of messages to handlers: pure functions of
  text, behind what the models keep of a message. (The dispatch lets a ban command
  fall through to the end of a vote; `Votes` lets staff end a vote at any time.)
* The meta server: another process whose map a reload replaces in one step; `Votes`
  lets every look-up be answered either way.
* `vm/qemu.ts`: a shim over superqemu, which is not in the repository.
* In `VncVm`, a configured `restoreCmd`, and a SIGINT that comes while a start is
  awaited before any listener exists.
* In `Access`, forwarded addresses and origins (one nondeterministic refusal), the
  command of a ban and its failure (only logged), and IPv4 addresses written as
  IPv6 ones, whose /64 is that of all of them.
* In `Screen`, thumbnails, screenshots and binary encodings, a VM without display,
  and a login by account while the screen is hidden, which is sent no full screen.
* cgroups, GeoIP, configuration, logs: pure input and output.
