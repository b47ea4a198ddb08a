---------------------------- MODULE VncVmProofs ----------------------------
(***************************************************************************)
(* What holds of a VM reached over VNC for any number of resets, however   *)
(* they overlap, and any number of display objects.                        *)
(***************************************************************************)
EXTENDS VncVm, FiniteSetTheorems, TLAPS

\* The operations that have yet to start the machine: the start of a reset
\* comes after its stop, so that a stop never is the last word.
Owing == {"stopped", "sleeping", "starting", "armed"}

\* While the process lives, what a stop has taken away is owed by somebody: the
\* machine by one who will run startCmd, the state and the display by one who
\* will come to the end of Start.
OwedBySomebody ==
    up => /\ ~running => \E o \in Ops : stage[o] \in Owing
          /\ state = "Stopped" \/ vnc = NoDisplay => \E o \in Ops : Busy(o)

\* The inductive invariant.
IInv == TypeOK /\ OneDisplay /\ OwedBySomebody

-----------------------------------------------------------------------------
LEMMA SomeDisplay == \E d \in Displays : TRUE
  BY ConstantsAssumption, FS_EmptySet

LEMMA OpsAre ==
    /\ Boot \in Ops /\ Exit \in Ops
    /\ \A r \in Resets : Reset(r) \in Ops /\ Restart(r) \in Ops
  BY DEF Ops

\* Giving up the display leaves none that keeps itself connected.
LEMMA DisconnectLeavesNone ==
    ASSUME TypeOK, OneDisplay, Disconnect
    PROVE  /\ vnc' = NoDisplay
           /\ keep' \in [Displays -> BOOLEAN]
           /\ link' \in [Displays -> {"down", "connecting", "up"}]
           /\ heard' \in SUBSET Displays
           /\ OneDisplay'
  <1>1. vnc' = NoDisplay /\ vnc' \notin Displays
    BY ConstantsAssumption DEF Disconnect
  <1>2. \A d \in Displays : ~keep'[d]
    BY DEF Disconnect, OneDisplay, TypeOK
  <1>3. heard' = {}
    BY DEF Disconnect, OneDisplay
  <1>4. OneDisplay'
    BY <1>1, <1>2, <1>3 DEF OneDisplay
  <1>5. /\ keep' \in [Displays -> BOOLEAN]
        /\ link' \in [Displays -> {"down", "connecting", "up"}]
    BY DEF Disconnect, TypeOK
  <1> QED BY <1>1, <1>3, <1>4, <1>5

\* The server's listener leaves exactly one display, whether or not there was
\* one: StartDisplay is called on none only, and then every object is free.
LEMMA OnStartedLeavesOne ==
    ASSUME TypeOK, OneDisplay, OnStarted
    PROVE  /\ vnc' \in Displays
           /\ keep' \in [Displays -> BOOLEAN]
           /\ link' \in [Displays -> {"down", "connecting", "up"}]
           /\ heard' \in SUBSET Displays
           /\ OneDisplay'
  <1>1. CASE vnc # NoDisplay
    BY <1>1 DEF OnStarted, displayVars, TypeOK, OneDisplay
  <1>2. CASE vnc = NoDisplay
    <2>1. \A d \in Displays : ~keep[d]
      BY <1>2, ConstantsAssumption DEF OneDisplay, TypeOK
    <2>2. heard = {}
      BY <1>2, ConstantsAssumption DEF OneDisplay, TypeOK
    <2> DEFINE d == CHOOSE e \in Displays : ~keep[e]
    <2>3. d \in Displays
      BY <2>1, SomeDisplay
    <2> HIDE DEF d
    <2>4. /\ vnc' = d
          /\ keep' = [keep EXCEPT ![d] = TRUE]
          /\ link' = [link EXCEPT ![d] = "connecting"]
          /\ heard' = heard \cup {d}
      BY <1>2 DEF OnStarted, StartDisplay, d
    <2>5. /\ keep' \in [Displays -> BOOLEAN]
          /\ link' \in [Displays -> {"down", "connecting", "up"}]
          /\ heard' \in SUBSET Displays
      BY <2>2, <2>3, <2>4 DEF TypeOK
    <2>6. OneDisplay'
      BY <2>1, <2>2, <2>3, <2>4 DEF OneDisplay, TypeOK
    <2> QED BY <2>3, <2>4, <2>5, <2>6
  <1> QED BY <1>1, <1>2

\* A step that takes an operation to a busy stage keeps somebody busy; it loses
\* no start of the machine if it takes it to one that owes, or from one that
\* does not.
LEMMA DebtStays ==
    ASSUME TypeOK, OwedBySomebody, up, NEW o \in Ops, NEW s \in Stages,
           stage' = [stage EXCEPT ![o] = s], s \notin {"idle", "done"}
    PROVE  /\ \E p \in Ops : Busy(p)'
           /\ \/ s \in Owing
              \/ stage[o] \notin Owing
              => (~running => \E p \in Ops : stage'[p] \in Owing)
  <1>1. stage'[o] = s /\ \A p \in Ops : p # o => stage'[p] = stage[p]
    BY DEF TypeOK
  <1>2. \E p \in Ops : Busy(p)'
    BY <1>1 DEF Busy
  <1>3. ASSUME s \in Owing \/ stage[o] \notin Owing, ~running
        PROVE  \E p \in Ops : stage'[p] \in Owing
    <2>1. PICK p \in Ops : stage[p] \in Owing
      BY <1>3 DEF OwedBySomebody
    <2>2. CASE p = o
      BY <1>1, <1>3, <2>1, <2>2
    <2>3. CASE p # o
      BY <1>1, <2>1, <2>3
    <2> QED BY <2>2, <2>3
  <1> QED BY <1>2, <1>3

-----------------------------------------------------------------------------
LEMMA InitIInv == Init => IInv
  <1> SUFFICES ASSUME Init PROVE IInv
    OBVIOUS
  <1>1. TypeOK
    BY DEF Init, TypeOK, Stages
  <1>2. OneDisplay
    BY DEF Init, OneDisplay
  <1>3. stage[Boot] = "starting"
    BY OpsAre DEF Init
  <1>4. OwedBySomebody
    BY <1>3, OpsAre DEF OwedBySomebody, Owing, Busy
  <1> QED BY <1>1, <1>2, <1>4 DEF IInv

\* An operation that begins to start or to stop gives up the display and is
\* busy; the machine runs on, or is owed by somebody else or by itself.
LEMMA BeginKeepsIInv ==
    ASSUME IInv, up, up' = up, running' = running, state' = state, Disconnect,
           NEW o \in Ops, NEW s \in {"starting", "stopping"},
           stage' = [stage EXCEPT ![o] = s],
           s = "stopping" => stage[o] \notin Owing
    PROVE  IInv'
  <1>1. OneDisplay' /\ TypeOK'
    BY DisconnectLeavesNone DEF IInv, TypeOK, Stages
  <1>2. s \in Stages /\ s \notin {"idle", "done"} /\ (s \in Owing \/ stage[o] \notin Owing)
    BY DEF Stages, Owing
  <1>3. OwedBySomebody'
    BY <1>2, DebtStays DEF IInv, OwedBySomebody
  <1> QED BY <1>1, <1>3 DEF IInv

LEMMA BeginStopIInv ==
    ASSUME IInv, NEW o \in Ops, BeginStop(o)
    PROVE  IInv'
  <1>1. up /\ stage[o] \notin Owing
    BY DEF BeginStop, Owing
  <1> QED BY <1>1, BeginKeepsIInv DEF BeginStop

LEMMA EndStartIInv ==
    ASSUME IInv, NEW o \in Ops, EndStart(o)
    PROVE  IInv'
  <1>1. TypeOK' /\ OneDisplay' /\ vnc' \in Displays
    BY OnStartedLeavesOne DEF IInv, EndStart, TypeOK, Stages
  <1>2. vnc' # NoDisplay /\ state' = "Started"
    BY <1>1, ConstantsAssumption DEF EndStart
  <1>3. ASSUME up, ~running
        PROVE  \E p \in Ops : stage'[p] \in Owing
    <2>1. PICK p \in Ops : stage[p] \in Owing
      BY <1>3 DEF IInv, OwedBySomebody
    <2>2. p # o
      BY <2>1 DEF EndStart, Owing
    <2> QED BY <2>1, <2>2 DEF EndStart, IInv, TypeOK
  <1>4. OwedBySomebody'
    BY <1>2, <1>3 DEF EndStart, OwedBySomebody
  <1> QED BY <1>1, <1>4 DEF IInv

LEMMA CommandRunsIInv ==
    ASSUME IInv, NEW o \in Ops, CommandRuns(o)
    PROVE  IInv'
  <1>1. TypeOK' /\ OneDisplay' /\ up
    BY DEF CommandRuns, displayVars, IInv, TypeOK, OneDisplay, Stages
  <1>2. CASE stage[o] = "starting"
    <2>1. stage' = [stage EXCEPT ![o] = "started"] /\ running'
      BY <1>2 DEF CommandRuns
    <2>2. \E p \in Ops : Busy(p)'
      BY <1>1, <2>1, DebtStays DEF IInv, Stages
    <2> QED BY <1>1, <2>1, <2>2 DEF IInv, OwedBySomebody
  <1>3. CASE stage[o] = "stopping"
    <2>1. stage' = [stage EXCEPT ![o] = "stopped"]
      BY <1>3 DEF CommandRuns
    <2>2. \E p \in Ops : Busy(p)'
      BY <1>1, <2>1, DebtStays DEF IInv, Stages
    <2>3. stage'[o] \in Owing
      BY <2>1 DEF IInv, TypeOK, Owing
    <2> QED BY <1>1, <2>2, <2>3 DEF IInv, OwedBySomebody
  <1> QED BY <1>2, <1>3 DEF CommandRuns

LEMMA EndStopIInv ==
    ASSUME IInv, NEW r \in Resets, EndStop(r)
    PROVE  IInv'
  <1>1. Reset(r) \in Ops /\ Restart(r) \in Ops /\ Reset(r) # Restart(r)
    BY OpsAre DEF Reset, Restart
  <1>2. stage' = [stage EXCEPT ![Reset(r)] = "sleeping", ![Restart(r)] = "armed"]
    BY DEF EndStop
  <1>3. TypeOK' /\ OneDisplay'
    BY <1>1, <1>2 DEF EndStop, displayVars, IInv, TypeOK, OneDisplay, Stages
  <1>4. stage'[Reset(r)] = "sleeping"
    BY <1>1, <1>2 DEF IInv, TypeOK
  <1>5. OwedBySomebody'
    BY <1>1, <1>4 DEF OwedBySomebody, Owing, Busy
  <1> QED BY <1>3, <1>5 DEF IInv

LEMMA LinkIInv ==
    ASSUME IInv, NEW d \in Displays, LinkUp(d) \/ LinkLost(d)
    PROVE  IInv'
  <1>1. /\ UNCHANGED <<up, stage, running, vnc, keep, heard>>
        /\ state' = state \/ state' = "Started"
        /\ \/ link' = [link EXCEPT ![d] = "up"]
           \/ link' = [link EXCEPT ![d] = "connecting"]
           \/ link' = [link EXCEPT ![d] = "down"]
    BY DEF LinkUp, LinkLost, Reconnected
  <1>2. TypeOK' /\ OneDisplay'
    BY <1>1 DEF IInv, TypeOK, OneDisplay
  <1>3. OwedBySomebody'
    BY <1>1 DEF IInv, OwedBySomebody, Busy
  <1> QED BY <1>2, <1>3 DEF IInv

\* The steps that end the process.
LEMMA ExitIInv ==
    ASSUME IInv, EndExit \/ \E o \in Ops : CommandFails(o)
    PROVE  IInv'
  <1>1. CASE EndExit
    BY <1>1, OpsAre DEF EndExit, displayVars, IInv, TypeOK, OneDisplay, OwedBySomebody, Stages
  <1>2. CASE \E o \in Ops : CommandFails(o)
    BY <1>2 DEF CommandFails, displayVars, IInv, TypeOK, OneDisplay, OwedBySomebody
  <1> QED BY <1>1, <1>2

LEMMA NextIInv == IInv /\ [Next]_vars => IInv'
  <1> SUFFICES ASSUME IInv, [Next]_vars PROVE IInv'
    OBVIOUS
  <1>1. ASSUME NEW r \in Resets, BeginReset(r) PROVE IInv'
    BY <1>1, OpsAre, BeginStopIInv DEF BeginReset
  <1>2. ASSUME NEW r \in Resets, EndStop(r) PROVE IInv'
    BY <1>2, EndStopIInv
  <1>3. ASSUME NEW r \in Resets, Wake(r) PROVE IInv'
    BY <1>3, OpsAre, BeginKeepsIInv DEF Wake, BeginStart
  <1>4. ASSUME NEW r \in Resets, RestartFires(r) PROVE IInv'
    BY <1>4, OpsAre, BeginKeepsIInv DEF RestartFires, BeginStart
  <1>5. CASE BeginExit
    BY <1>5, OpsAre, BeginStopIInv DEF BeginExit
  <1>6. CASE EndExit
    BY <1>6, ExitIInv
  <1>7. ASSUME NEW o \in Ops, CommandRuns(o) PROVE IInv'
    BY <1>7, CommandRunsIInv
  <1>8. ASSUME NEW o \in Ops, CommandFails(o) PROVE IInv'
    BY <1>8, ExitIInv
  <1>9. ASSUME NEW o \in Ops, EndStart(o) PROVE IInv'
    BY <1>9, EndStartIInv
  <1>10. ASSUME NEW d \in Displays, LinkUp(d) \/ LinkLost(d) PROVE IInv'
    BY <1>10, LinkIInv
  <1>11. CASE UNCHANGED vars
    BY <1>11 DEF vars, IInv, TypeOK, OneDisplay, OwedBySomebody, Busy
  <1> QED BY <1>1, <1>2, <1>3, <1>4, <1>5, <1>6, <1>7, <1>8, <1>9, <1>10, <1>11
          DEF Next

-----------------------------------------------------------------------------
\* The inductive invariant holds in every reachable state, for every number of
\* resets (VNCVM.ts 18-81, the statechange listener of CollabVMServer.ts).
THEOREM Invariance == Spec => []IInv
  BY InitIInv, NextIInv, PTL DEF Spec

\* The variables keep their types.
THEOREM TypeCorrect == Spec => []TypeOK
  <1>1. IInv => TypeOK
    BY DEF IInv
  <1> QED BY <1>1, Invariance, PTL

\* There is one display at most that keeps itself connected, it is the one the
\* VM hands out, and the server listens to it and to no other
\* (Disconnect and StartDisplay of VNCVM.ts 39-68).
THEOREM OneDisplayHolds == Spec => []OneDisplay
  <1>1. IInv => OneDisplay
    BY DEF IInv
  <1> QED BY <1>1, Invariance, PTL

\* When nothing is under way the machine runs, is known to run and has a
\* display: no overlap of any number of resets and restarts leaves it down
\* (Start, Stop and Reset of VNCVM.ts 31-81).
THEOREM QuietMeansStartedHolds == Spec => []QuietMeansStarted
  <1>1. IInv => QuietMeansStarted
    BY DEF IInv, TypeOK, OwedBySomebody, QuietMeansStarted, Busy, Owing
  <1> QED BY <1>1, Invariance, PTL
=============================================================================
