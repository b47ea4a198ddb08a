------------------------------- MODULE VncVm -------------------------------
(***************************************************************************)
(* The life of a VM that is reached over VNC and driven by shell commands  *)
(* (vm/vnc/VNCVM.ts), of its display (display/vnc.ts), and of the server's *)
(* reaction to the VM's state changes (CollabVMServer.ts), from the boot   *)
(* to the signal that ends the process (index.ts).                         *)
(*                                                                         *)
(* Start, Stop and Reset are asynchronous and nothing serialises them: the *)
(* boot, any number of resets (a vote, an administrator), the restart that *)
(* each stop schedules five seconds later, and the exit may overlap.  An   *)
(* operation is a pair <<kind, r>>; its stage says which await it is at.   *)
(* A command is in two steps, its effect on the machine and its report, as *)
(* others may run between them.  A command that fails rejects a promise    *)
(* nobody handles, which ends the process.                                 *)
(*                                                                         *)
(* Assumed: startCmd and stopCmd are configured and restoreCmd is not.     *)
(***************************************************************************)
EXTENDS Naturals, FiniteSets

CONSTANTS
    Resets,     \* the resets asked for while the process lives
    NoReset,    \* the second component of the boot and of the exit
    Displays,   \* identities of VncDisplay objects, reused when disconnected
    NoDisplay   \* VNCVM.vnc == null

ASSUME ConstantsAssumption ==
    /\ IsFiniteSet(Resets) /\ NoReset \notin Resets
    /\ IsFiniteSet(Displays) /\ Cardinality(Displays) >= 2
    /\ NoDisplay \notin Displays

Boot == <<"boot", NoReset>>
Exit == <<"exit", NoReset>>
Reset(r) == <<"reset", r>>
Restart(r) == <<"restart", r>>      \* the restart scheduled by the stop of r
Ops == {Boot, Exit} \cup {Reset(r) : r \in Resets} \cup {Restart(r) : r \in Resets}

VARIABLES
    up,         \* the process lives
    stage,      \* where each operation is
    running,    \* the machine behind the commands runs
    state,      \* VNCVM.state
    vnc,        \* VNCVM.vnc
    keep,       \* VncDisplay.vncShouldReconnect, of each display
    link,       \* the VNC connection of each display
    heard       \* the displays the server has added its listeners to

vars == <<up, stage, running, state, vnc, keep, link, heard>>
displayVars == <<vnc, keep, link, heard>>

Stages ==
    {"idle", "armed",           \* not asked for; its timer runs
     "stopping", "stopped",     \* stopCmd runs; it had its effect
     "sleeping",                \* Sleep(1000) in Reset
     "starting", "started",     \* startCmd runs; it had its effect
     "done"}

TypeOK ==
    /\ up \in BOOLEAN
    /\ stage \in [Ops -> Stages]
    /\ running \in BOOLEAN
    /\ state \in {"Started", "Stopped"}
    /\ vnc \in Displays \cup {NoDisplay}
    /\ keep \in [Displays -> BOOLEAN]
    /\ link \in [Displays -> {"down", "connecting", "up"}]
    /\ heard \in SUBSET Displays

Init ==
    /\ up = TRUE
    /\ stage = [o \in Ops |-> IF o = Boot THEN "starting" ELSE "idle"]
    /\ running = FALSE
    /\ state = "Stopped"
    /\ vnc = NoDisplay
    /\ keep = [d \in Displays |-> FALSE]
    /\ link = [d \in Displays |-> "down"]
    /\ heard = {}

-----------------------------------------------------------------------------
(***************************************************************************)
(* The display.                                                            *)
(***************************************************************************)

\* Fault: a lost link is not dialled again.
ReconnectedNever(d) == "down"

\* VncDisplay.Reconnect on a display that is not connected.
Reconnected(d) == IF keep[d] THEN "connecting" ELSE "down"

\* VNCVM.Disconnect: the display gives up its link and all listeners.
Disconnect ==
    /\ vnc' = NoDisplay
    /\ keep' = [d \in Displays |-> keep[d] /\ d # vnc]
    /\ link' = [d \in Displays |-> IF d = vnc THEN "down" ELSE link[d]]
    /\ heard' = heard \ {vnc}

\* VNCVM.StartDisplay on an object no one uses, and the server's listeners.
StartDisplay ==
    \E d \in {CHOOSE e \in Displays : ~keep[e]} :
        /\ vnc' = d
        /\ keep' = [keep EXCEPT ![d] = TRUE]
        /\ link' = [link EXCEPT ![d] = "connecting"]
        /\ heard' = heard \cup {d}

\* Fault: the server starts a display whenever the VM says it is started.
OnStartedAlways == StartDisplay

\* The statechange listener of the server: the display is started once.
OnStarted ==
    IF vnc = NoDisplay THEN StartDisplay ELSE UNCHANGED displayVars

\* VncClient, external: the first frame arrives; the display says 'connected'
\* and the VM becomes Started.  A display without listeners says it to nobody.
LinkUp(d) ==
    /\ up /\ running
    /\ keep[d] /\ link[d] = "connecting"
    /\ link' = [link EXCEPT ![d] = "up"]
    /\ state' = "Started"
    /\ UNCHANGED <<up, stage, running, vnc, keep, heard>>

\* VncClient, external: the connection is lost, refused or times out.
LinkLost(d) ==
    /\ up /\ link[d] # "down"
    /\ link' = [link EXCEPT ![d] = Reconnected(d)]
    /\ UNCHANGED <<up, stage, running, state, vnc, keep, heard>>

-----------------------------------------------------------------------------
(***************************************************************************)
(* The operations.                                                         *)
(***************************************************************************)

\* Fault: Start returns at once on a VM that is said to be started.
BeginStartIfStopped(o) ==
    /\ IF state = "Started"
       THEN stage' = [stage EXCEPT ![o] = "done"] /\ UNCHANGED displayVars
       ELSE stage' = [stage EXCEPT ![o] = "starting"] /\ Disconnect
    /\ UNCHANGED <<up, running, state>>

\* Fault: Start announces a state of its own, which no listener knows.
BeginStartAnnounced(o) ==
    /\ stage' = [stage EXCEPT ![o] = "starting"]
    /\ Disconnect
    /\ state' = "Starting"
    /\ UNCHANGED <<up, running>>

\* Start up to its await.
BeginStart(o) ==
    /\ stage' = [stage EXCEPT ![o] = "starting"]
    /\ Disconnect
    /\ UNCHANGED <<up, running, state>>

\* Stop up to its await.
BeginStop(o) ==
    /\ up /\ stage[o] = "idle"
    /\ stage' = [stage EXCEPT ![o] = "stopping"]
    /\ Disconnect
    /\ UNCHANGED <<up, running, state>>

\* A reset is asked for: by a client, and clients come when the VM has booted.
BeginReset(r) == stage[Boot] = "done" /\ BeginStop(Reset(r))

\* The first SIGINT or SIGTERM; later ones find `exiting` set.
BeginExit == BeginStop(Exit)

\* A shell command has its effect on the machine.
CommandRuns(o) ==
    /\ up
    /\ \/ /\ stage[o] = "starting"
          /\ stage' = [stage EXCEPT ![o] = "started"]
          /\ running' = TRUE
       \/ /\ stage[o] = "stopping"
          /\ stage' = [stage EXCEPT ![o] = "stopped"]
          /\ running' = FALSE
    /\ UNCHANGED <<up, state, displayVars>>

\* A shell command fails: an unhandled rejection ends the process.
CommandFails(o) ==
    /\ up /\ stage[o] \in {"starting", "stopping", "started", "stopped"}
    /\ up' = FALSE
    /\ UNCHANGED <<stage, running, state, displayVars>>

\* Start after its await.
EndStart(o) ==
    /\ up /\ stage[o] = "started"
    /\ stage' = [stage EXCEPT ![o] = "done"]
    /\ state' = "Started"
    /\ OnStarted
    /\ UNCHANGED <<up, running>>

\* Stop after its await, in a reset: the server arms the restart timer and
\* Reset goes to sleep.
EndStop(r) ==
    /\ up /\ stage[Reset(r)] = "stopped"
    /\ stage' = [stage EXCEPT ![Reset(r)] = "sleeping", ![Restart(r)] = "armed"]
    /\ state' = "Stopped"
    /\ UNCHANGED <<up, running, displayVars>>

\* Reset after its sleep.
Wake(r) ==
    /\ up /\ stage[Reset(r)] = "sleeping"
    /\ BeginStart(Reset(r))

\* The restart timer, kRestartTimeout after the stop: the sleep, which is
\* shorter and began in the same turn of the event loop, is over.
RestartFires(r) ==
    /\ up /\ stage[Restart(r)] = "armed"
    /\ stage[Reset(r)] # "sleeping"
    /\ BeginStart(Restart(r))

\* stop() after VM.Stop(): process.exit(0) before any timer can fire.
EndExit ==
    /\ up /\ stage[Exit] = "stopped"
    /\ up' = FALSE
    /\ stage' = [stage EXCEPT ![Exit] = "done"]
    /\ state' = "Stopped"
    /\ UNCHANGED <<running, displayVars>>

Next ==
    \/ \E r \in Resets : BeginReset(r) \/ EndStop(r) \/ Wake(r) \/ RestartFires(r)
    \/ BeginExit \/ EndExit
    \/ \E o \in Ops : CommandRuns(o) \/ CommandFails(o) \/ EndStart(o)
    \/ \E d \in Displays : LinkUp(d) \/ LinkLost(d)

\* A command ends, a timer fires, and a VNC server that runs answers at last:
\* a lost link is no excuse, as the display dials again each time.
Fairness ==
    /\ \A o \in Ops : WF_vars(CommandRuns(o) \/ CommandFails(o)) /\ WF_vars(EndStart(o))
    /\ \A r \in Resets : WF_vars(EndStop(r)) /\ WF_vars(Wake(r)) /\ WF_vars(RestartFires(r))
    /\ WF_vars(EndExit)
    /\ \A d \in Displays : WF_vars(LinkUp(d))

Spec == Init /\ [][Next]_vars /\ Fairness

-----------------------------------------------------------------------------
(***************************************************************************)
(* Properties.                                                             *)
(***************************************************************************)

\* However starts, stops and restarts overlap, a display that keeps itself
\* connected is the one the VM hands out, and the server listens to it: no
\* abandoned display goes on dialling the VNC server and feeding frames, and
\* none that is handed out is deaf or dead.
OneDisplay ==
    /\ \A d \in Displays : keep[d] => d = vnc
    /\ vnc # NoDisplay => keep[vnc] /\ vnc \in heard
    /\ heard \subseteq {vnc}

Busy(o) == stage[o] \notin {"idle", "done"}

\* When the process lives and nothing is under way, not even a restart, the
\* machine runs, is known to run and has a display: overlapping resets always
\* leave the VM started, since each stop is followed by a start of its own.
QuietMeansStarted ==
    up /\ (\A o \in Ops : ~Busy(o)) =>
        running /\ state = "Started" /\ vnc # NoDisplay

Serving == running /\ vnc # NoDisplay /\ link[vnc] = "up"

\* As long as the process lives, the clients get a picture again and again:
\* after any reset, any overlap of resets and any loss of the VNC link.
VmServesAgain == []<>(Serving \/ ~up)
=============================================================================
