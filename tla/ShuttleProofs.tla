--------------------------- MODULE ShuttleProofs ---------------------------
(***************************************************************************)
(* The launch lock, the destination and the transit of a shuttle, for any  *)
(* number of landmarks, consoles and waiting callbacks, and both kinds of  *)
(* shuttle.  To those the docking programs do not matter: the shuttle only *)
(* reads whether its controller is docked, and any answer is covered.  At  *)
(* the end, with the programs: what becomes of a berth that is left.       *)
(***************************************************************************)
EXTENDS Shuttle, FiniteSetTheorems, TLAPS

\* At most one long jump waits, and none where jumps are short.
OneTransit ==
    /\ transits = {} \/ \E jump : transits = {jump}
    /\ ~LongJumps => transits = {}

TransitAt ==
    /\ transits # {} => current_location = Transition
    /\ moving_status = "intransit" => transits # {}

IInv ==
    /\ MovesOnlyInWaitArrive
    /\ LockFollowsLaunch
    /\ LaunchHasDestination
    /\ OneTransit
    /\ TransitAt

USE DEF MovesOnlyInWaitArrive, LockFollowsLaunch, LaunchHasDestination, Launching

LEMMA Initially == Init => IInv
BY DEF Init, IInv, OneTransit, TransitAt

\* Nothing that IInv speaks of changes.
LEMMA Stutters ==
    ASSUME IInv,
           UNCHANGED <<moving_status, process_state, in_use, placeVars, transits>>
    PROVE  IInv'
BY DEF IInv, OneTransit, TransitAt, placeVars

LEMMA CancelKeeps ==
    ASSUME IInv, CancelEffect, UNCHANGED <<current_location, next_location, transits>>
    PROVE  IInv'
BY DEF IInv, CancelEffect, OneTransit, TransitAt

LEMMA ConsoleKeeps ==
    ASSUME IInv,
           \/ \E l \in Landmarks : SetDestination(l)
           \/ \E user \in Users : launch(user) \/ force_launch(user)
    PROVE  IInv'
<1>1. ASSUME NEW l \in Landmarks, SetDestination(l) PROVE IInv'
  <2>1. l # NoLandmark BY LandmarkAssumption DEF Places
  <2>2. next_location' = l /\ UNCHANGED <<launchVars, current_location, transits>>
    BY <1>1 DEF SetDestination, callbackVars
  <2>3. QED BY <2>1, <2>2 DEF IInv, OneTransit, TransitAt, launchVars
<1>2. ASSUME NEW user \in Users, launch(user) \/ force_launch(user) PROVE IInv'
  <2>1. user # NoUser BY UserAssumption
  <2>2. /\ moving_status = "idle" /\ next_location # NoLandmark
        /\ process_state' \in {"WAIT_LAUNCH", "FORCE_LAUNCH"} /\ in_use' = user
        /\ UNCHANGED <<moving_status, current_location, next_location, transits>>
    BY <1>2 DEF launch, force_launch, can_launch, can_force, placeVars, callbackVars
  <2>3. QED BY <2>1, <2>2 DEF IInv, OneTransit, TransitAt
<1>3. QED BY <1>1, <1>2

\* Process(): the launch is refused or takes the shuttle to WAIT_ARRIVE, the
\* arrival and its end give the lock back.
LEMMA ProcessKeeps == ASSUME IInv, Process PROVE IInv'
<1>1. CASE ProcessLaunch
  <2>1. /\ process_state \in {"WAIT_LAUNCH", "FORCE_LAUNCH"} /\ process_launch
    BY <1>1 DEF ProcessLaunch
  <2>2. UNCHANGED <<current_location, next_location, transits>>
    BY <2>1 DEF process_launch, placeVars
  <2>3. moving_status = "idle" BY <2>1 DEF IInv
  <2>4. \/ process_state' = "IDLE_STATE" /\ in_use' = NoUser /\ moving_status' = moving_status
        \/ /\ process_state' = "WAIT_ARRIVE" /\ moving_status' = "warmup"
           /\ in_use' = in_use
    BY <2>1, <2>3 DEF process_launch
  <2>5. QED BY <2>1, <2>2, <2>3, <2>4 DEF IInv, OneTransit, TransitAt
<1>2. CASE ProcessArrive
  BY <1>2 DEF ProcessArrive, IInv, OneTransit, TransitAt, callbackVars
<1>3. CASE \E t \in BOOLEAN : ProcessFinish(t)
  BY <1>3 DEF ProcessFinish, IInv, OneTransit, TransitAt, placeVars, callbackVars
<1>4. QED BY <1>1, <1>2, <1>3 DEF Process

\* A jump that wakes up flies only while Process() waits for its arrival, and
\* goes into transit only from somewhere else than the transition area.
LEMMA TakeoffKeeps == ASSUME IInv, Takeoff PROVE IInv'
<1> DEFINE jump == Head(warmups)
<1>1. next_location' = next_location BY DEF Takeoff
<1>2. CASE UNCHANGED <<launchVars, current_location, transits>>
  BY <1>1, <1>2, Stutters DEF launchVars, placeVars
<1>3. CASE CancelEffect /\ UNCHANGED <<current_location, transits>>
  BY <1>1, <1>3, CancelKeeps
<1>4. CASE /\ moving_status # "idle"
           /\ \E moved \in BOOLEAN :
                 /\ attempt_move(IF LongJumps THEN Transition ELSE jump.destination, moved)
                 /\ moving_status' = IF moved /\ LongJumps THEN "intransit" ELSE "idle"
                 /\ transits' = IF moved /\ LongJumps THEN transits \cup {jump}
                               ELSE transits
           /\ UNCHANGED <<process_state, in_use>>
  <2>1. PICK moved \in BOOLEAN :
          /\ attempt_move(IF LongJumps THEN Transition ELSE jump.destination, moved)
          /\ moving_status' = IF moved /\ LongJumps THEN "intransit" ELSE "idle"
          /\ transits' = IF moved /\ LongJumps THEN transits \cup {jump} ELSE transits
    BY <1>4
  <2>2. CASE moved /\ LongJumps
    <3>1. current_location # Transition /\ current_location' = Transition
      BY <2>1, <2>2 DEF attempt_move, is_valid
    <3>2. transits' = {jump} BY <2>1, <2>2, <3>1 DEF IInv, TransitAt
    <3>3. moving_status' = "intransit" BY <2>1, <2>2
    <3>4. OneTransit' /\ TransitAt' BY <2>2, <3>1, <3>2 DEF OneTransit, TransitAt
    <3>5. QED BY <1>1, <1>4, <3>3, <3>4 DEF IInv
  <2>3. CASE ~LongJumps
    <3>1. transits = {} /\ transits' = {} /\ moving_status' = "idle"
      BY <2>1, <2>3 DEF IInv, OneTransit
    <3>2. QED BY <1>1, <1>4, <3>1 DEF IInv, OneTransit, TransitAt
  <2>4. CASE ~moved
    <3>1. UNCHANGED <<current_location, transits>> /\ moving_status' = "idle"
      BY <2>1, <2>4 DEF attempt_move
    <3>2. QED BY <1>1, <1>4, <3>1 DEF IInv, OneTransit, TransitAt
  <2>5. QED BY <2>2, <2>3, <2>4
<1>5. QED BY <1>2, <1>3, <1>4 DEF Takeoff, launchVars

\* The only long jump ends.
LEMMA LandingKeeps ==
    ASSUME IInv, \E jump \in transits : Landing(jump) PROVE IInv'
<1>1. PICK jump \in transits : Landing(jump) OBVIOUS
<1>2. transits = {jump} BY <1>1 DEF IInv, OneTransit
<1>3. /\ transits' = {} /\ moving_status' = "idle"
      /\ UNCHANGED <<process_state, in_use, next_location>>
  BY <1>1, <1>2 DEF Landing
<1>4. QED BY <1>3 DEF IInv, OneTransit, TransitAt

LEMMA StepKeeps == ASSUME IInv, [Next]_vars PROVE IInv'
<1>1. CASE (\E l \in Landmarks : SetDestination(l))
           \/ \E user \in Users : launch(user) \/ force_launch(user)
  BY <1>1, ConsoleKeeps
<1>2. CASE cancel_launch
  BY <1>2, CancelKeeps DEF cancel_launch, placeVars
<1>3. CASE Redock
  BY <1>3, Stutters DEF Redock, launchVars
<1>4. CASE Process BY <1>4, ProcessKeeps
<1>5. CASE Takeoff BY <1>5, TakeoffKeeps
<1>6. CASE \E jump \in transits : Landing(jump) BY <1>6, LandingKeeps
<1>7. CASE (\E p \in Programs : ControllerStep(p)) \/ UNCHANGED vars
  BY <1>7, Stutters DEF ControllerStep, vars, launchVars, callbackVars
<1>8. QED BY <1>1, <1>2, <1>3, <1>4, <1>5, <1>6, <1>7 DEF Next

LEMMA Invariant == Spec => []IInv
<1>1. IInv /\ [Next]_vars => IInv' BY StepKeeps
<1>2. QED BY Initially, <1>1, PTL DEF Spec
----------------------------------------------------------------------------
\* The shuttle moves only while Process() waits for its arrival; a launch that is
\* waited for finds it standing (process_launch, process_arrived).
THEOREM MovesOnlyInWaitArriveHolds == Spec => []MovesOnlyInWaitArrive
<1>1. IInv => MovesOnlyInWaitArrive BY DEF IInv
<1>2. QED BY Invariant, <1>1, PTL

\* The launch lock in_use neither leaks nor gets lost, whatever ends a launch.
THEOREM LockFollowsLaunchHolds == Spec => []LockFollowsLaunch
<1>1. IInv => LockFollowsLaunch BY DEF IInv
<1>2. QED BY Invariant, <1>1, PTL

\* Process() never dereferences a null next_location.
THEOREM LaunchHasDestinationHolds == Spec => []LaunchHasDestination
<1>1. IInv => LaunchHasDestination BY DEF IInv
<1>2. QED BY Invariant, <1>1, PTL

\* Console, Process() and callbacks do not lose each other: the three above at once.
THEOREM LaunchProtocolHolds == Spec => []LaunchProtocol
<1>1. IInv => LaunchProtocol BY DEF IInv, LaunchProtocol
<1>2. QED BY Invariant, <1>1, PTL

\* A long jump that waits is the only one and its shuttle is in the transition
\* area, whatever was cancelled and launched again (long_jump).
THEOREM TransitIsRealHolds == Spec => []TransitIsReal
<1>1. IInv => TransitIsReal
  <2>1. ASSUME IInv, transits # {} PROVE Cardinality(transits) = 1
    <3>1. PICK jump : transits = {jump} BY <2>1 DEF IInv, OneTransit
    <3>2. QED BY <3>1, FS_Singleton
  <2>2. QED BY <2>1 DEF IInv, TransitAt, TransitIsReal
<1>2. QED BY Invariant, <1>1, PTL
----------------------------------------------------------------------------
(* A multi shuttle without a warmup *)

Prompt == Warmup = FALSE /\ Overmap = FALSE

\* The jump that is queued is the one the console asked for, and nobody gets a turn before
\* it wakes up; in transit it still is.
OneLaunch ==
    /\ warmups = <<>> \/ \E jump : jump.destination = next_location /\ warmups = <<jump>>
    /\ warmups # <<>> => moving_status = "warmup" /\ transits = {}
    /\ TransitIsTheLaunch

LaunchInv == IInv /\ OneLaunch

LEMMA LaunchStart == Init => LaunchInv
BY Initially DEF Init, LaunchInv, OneLaunch, TransitIsTheLaunch

\* Steps that leave the jumps and the shuttle where they are.
LEMMA LaunchStutters ==
    ASSUME LaunchInv, UNCHANGED <<next_location, warmups, transits>>,
           moving_status' = moving_status \/ (warmups = <<>> /\ transits = {})
    PROVE  OneLaunch'
BY DEF LaunchInv, OneLaunch, TransitIsTheLaunch

\* Nothing is in transit while the shuttle stands or a launch waits to begin.
LEMMA StandsStill ==
    ASSUME LaunchInv, moving_status = "idle" \/ process_state # "WAIT_ARRIVE"
    PROVE  transits = {} /\ warmups = <<>> /\ moving_status = "idle"
BY DEF LaunchInv, OneLaunch, TransitIsTheLaunch, IInv

LEMMA LaunchStep == ASSUME Prompt, LaunchInv, [Next]_vars PROVE LaunchInv'
<1>0. IInv' BY StepKeeps DEF LaunchInv
<1>1. ASSUME NEW l \in Landmarks, SetDestination(l), Turn PROVE OneLaunch'
  <2>1. moving_status = "idle" /\ next_location' = l /\ UNCHANGED <<moving_status, warmups, transits>>
    BY <1>1 DEF Prompt, SetDestination, launchVars, callbackVars
  <2>2. transits = {} /\ warmups = <<>> BY <2>1, StandsStill
  <2> QED BY <2>1, <2>2 DEF OneLaunch, TransitIsTheLaunch
<1>2. ASSUME NEW user \in Users, launch(user) \/ force_launch(user) PROVE OneLaunch'
  BY <1>2, LaunchStutters DEF launch, force_launch, placeVars, callbackVars
<1>3. ASSUME cancel_launch, Turn PROVE OneLaunch'
  <2>1. warmups = <<>> /\ UNCHANGED <<next_location, warmups, transits>>
    BY <1>3 DEF Turn, Prompt, cancel_launch, placeVars
  <2>2. transits = {}
    <3>1. CASE moving_status = "warmup" BY <3>1 DEF LaunchInv, OneLaunch, TransitIsTheLaunch
    <3>2. CASE process_state \in {"WAIT_LAUNCH", "FORCE_LAUNCH"} BY <3>2, StandsStill
    <3> QED BY <1>3, <3>1, <3>2 DEF cancel_launch, can_cancel
  <2> QED BY <2>1, <2>2, LaunchStutters
<1>4. ASSUME Redock PROVE OneLaunch'
  BY <1>4, LaunchStutters DEF Redock, launchVars, placeVars
<1>5. ASSUME Process, Turn PROVE OneLaunch'
  <2>1. CASE ProcessLaunch
    <3>1. transits = {} /\ warmups = <<>> /\ moving_status = "idle"
      BY <2>1, StandsStill DEF ProcessLaunch
    <3>2. UNCHANGED <<next_location, transits>> BY <2>1 DEF ProcessLaunch, process_launch, placeVars
    <3>3. CASE UNCHANGED <<moving_status, warmups>> BY <3>2, <3>3, LaunchStutters
    <3>4. CASE /\ moving_status' = "warmup"
               /\ warmups' = Append(warmups, [destination |-> next_location, start |-> current_location])
      <4>1. warmups' = <<[destination |-> next_location, start |-> current_location]>> BY <3>1, <3>4
      <4>2. \E jump : jump.destination = next_location' /\ warmups' = <<jump>> BY <3>2, <4>1
      <4> QED BY <3>1, <3>2, <3>4, <4>2 DEF OneLaunch, TransitIsTheLaunch
    <3> QED BY <2>1, <3>1, <3>3, <3>4 DEF ProcessLaunch, process_launch
  <2>2. CASE ProcessArrive
    <3>1. transits = {} /\ warmups = <<>> BY <2>2, StandsStill DEF ProcessArrive
    <3>2. UNCHANGED <<moving_status, warmups, transits>> BY <2>2 DEF ProcessArrive, callbackVars
    <3> QED BY <3>1, <3>2 DEF OneLaunch, TransitIsTheLaunch
  <2>3. CASE \E t \in BOOLEAN : ProcessFinish(t)
    BY <2>3, LaunchStutters DEF ProcessFinish, placeVars, callbackVars
  <2> QED BY <1>5, <2>1, <2>2, <2>3 DEF Process
<1>6. ASSUME Takeoff PROVE OneLaunch'
  <2>1. PICK jump : jump.destination = next_location /\ warmups = <<jump>>
    BY <1>6 DEF Takeoff, LaunchInv, OneLaunch
  <2>2. moving_status = "warmup" /\ transits = {} /\ warmups # <<>>
    BY <1>6 DEF Takeoff, LaunchInv, OneLaunch
  <2>3. warmups' = <<>> /\ Head(warmups) = jump BY <1>6, <2>1 DEF Takeoff
  <2>4. next_location' = next_location BY <1>6 DEF Takeoff
  <2>5. PICK moved \in BOOLEAN :
          /\ moving_status' = IF moved /\ LongJumps THEN "intransit" ELSE "idle"
          /\ transits' = IF moved /\ LongJumps THEN transits \cup {jump} ELSE transits
    BY <1>6, <2>2, <2>3 DEF Takeoff, Prompt
  <2>6. TransitIsTheLaunch' BY <2>1, <2>2, <2>4, <2>5 DEF TransitIsTheLaunch
  <2> QED BY <2>3, <2>6 DEF OneLaunch
<1>7. ASSUME NEW jump \in transits, Landing(jump), Turn PROVE OneLaunch'
  <2>1. transits = {jump} BY DEF LaunchInv, IInv, OneTransit
  <2>2. transits' = {} /\ warmups' = warmups BY <1>7, <2>1 DEF Landing
  <2>3. warmups = <<>> BY <1>7 DEF Turn, Prompt
  <2> QED BY <2>2, <2>3 DEF OneLaunch, TransitIsTheLaunch
<1>8. ASSUME (\E p \in Programs : ControllerStep(p)) \/ UNCHANGED vars PROVE OneLaunch'
  BY <1>8, LaunchStutters DEF ControllerStep, vars, launchVars, placeVars, callbackVars
<1>9. OneLaunch' BY <1>1, <1>2, <1>3, <1>4, <1>5, <1>6, <1>7, <1>8 DEF Next
<1> QED BY <1>0, <1>9 DEF LaunchInv

\* A multi shuttle whose jumps start at once goes where its console says, and while its jump
\* waits in the transition area it is in transit (launch(), process_launch(), long_jump()).
THEOREM TransitIsTheLaunchHolds == Prompt => (Spec => []TransitIsTheLaunch)
<1> SUFFICES ASSUME Prompt PROVE Spec => []TransitIsTheLaunch
  OBVIOUS
<1>1. LaunchInv /\ [Next]_vars => LaunchInv' BY LaunchStep
<1>2. LaunchInv => TransitIsTheLaunch BY DEF LaunchInv, OneLaunch
<1> QED BY <1>1, <1>2, LaunchStart, PTL DEF Spec
----------------------------------------------------------------------------
(* The berths.  Here the docking programs do matter: what their handshake    *)
(* keeps (module DockingProofs) they keep when a shuttle makes the calls.    *)

DP == INSTANCE DockingProofs

\* The shuttle docks with a controller of its own, never at it.
Docks ==
    /\ active_docking_controller \in Controllers \cap Programs
    /\ \E l \in Places : current_dock_target = dock_target[l]

BerthInv == IInv /\ TypeOK /\ DP!IInv /\ Docks

LEMMA SameSignals ==
    \A ps, p, t, c : D!send_docking_command(ps, p, t, c) = DP!send_docking_command(ps, p, t, c)
  BY DEF D!send_docking_command, DP!send_docking_command, D!receive_signal,
     DP!receive_signal, D!Hears, DP!Hears, D!OnConfirmDock, DP!OnConfirmDock,
     D!OnRequestDock, DP!OnRequestDock, D!OnConfirmUndock, DP!OnConfirmUndock,
     D!OnRequestUndock, DP!OnRequestUndock, D!OnDockError, DP!OnDockError, D!reset,
     DP!reset, D!Idle, DP!Idle

\* The calls a shuttle makes are those of the handshake.
LEMMA SameCalls ==
    /\ \A ps, p, t : D!initiate_docking(ps, p, t) = DP!initiate_docking(ps, p, t)
    /\ \A ps, p : D!initiate_undocking(ps, p) = DP!initiate_undocking(ps, p)
    /\ \A ps, p : D!force_undock(ps, p) = DP!force_undock(ps, p)
<1>2. \A ps, p, t : D!request_dock(ps, p, t) = DP!request_dock(ps, p, t)
  BY SameSignals DEF D!request_dock, DP!request_dock, D!Hears, DP!Hears, D!Idle, DP!Idle
<1>3. \A p : D!reset(p) = DP!reset(p)
  BY DEF D!reset, DP!reset
<1> QED
  BY SameSignals, <1>2, <1>3
  DEF D!initiate_docking, DP!initiate_docking, D!initiate_undocking, DP!initiate_undocking,
      D!force_undock, DP!force_undock

LEMMA SameProcess == \A p \in Programs : D!Process(p) => DP!Process(p)
<1>2. \A r : D!Resend(r) = DP!Resend(r) /\ D!reset(r) = DP!reset(r)
  BY DEF D!Resend, DP!Resend, D!reset, DP!reset
<1>3. \A p : D!Handshake(p) = DP!Handshake(p)
  BY SameSignals, <1>2 DEF D!Handshake, DP!Handshake
<1>4. \A ps, p : D!Repair(ps, p) = DP!Repair(ps, p)
  BY SameSignals, <1>2 DEF D!Repair, DP!Repair
<1>5. \A p, ready : D!ProcessReady(p, ready) => DP!ProcessReady(p, ready)
  BY <1>2, <1>3, <1>4 DEF D!ProcessReady, DP!ProcessReady
<1> QED
  BY <1>5 DEF D!Process, DP!Process

LEMMA ControllersKnown ==
    /\ Controllers \cap Programs # {} /\ StartController \in Controllers \cap Programs
    /\ \A l \in Landmarks :
          docking_controller[l] # NoTag => docking_controller[l] \in Controllers \cap Programs
    /\ \A l \in Places, p \in Controllers \cap Programs : dock_target[l] \in DP!Targets(p)
    /\ Start \in Landmarks
  BY DockingAssumption, ControllerAssumption, LandmarkAssumption
  DEF Controllers, StartController, DP!Targets, Places

\* Whatever the shuttle calls, and whatever the programs do, is a step of the handshake.
LEMMA HandshakeKeeps ==
    ASSUME BerthInv,
           \/ UNCHANGED <<prog, master>>
           \/ prog' = undock(prog) /\ master' = master
           \/ prog' = force_undock(prog) /\ master' = master
           \/ /\ master' = master
              /\ \E p \in Controllers \cap Programs, l \in Places :
                    prog' = dock(prog, p, dock_target[l])
           \/ \E p \in Programs : D!Process(p) \/ D!Destroy(p) \/ D!HardDelete(p)
    PROVE  DP!IInv'
<1>0. DP!IInv /\ active_docking_controller \in Programs
  BY DEF BerthInv, Docks
<1>1. CASE UNCHANGED <<prog, master>>
  <2>1. [DP!Next]_(DP!vars)
    BY <1>1 DEF DP!vars
  <2> QED
    BY <1>0, <2>1, DP!NextKeepsIInv, DockingAssumption
<1>2. ASSUME NEW p \in Programs,
             DP!InitiateUndocking(p) \/ DP!ForceUndock(p) \/ DP!Process(p)
             \/ DP!Destroy(p) \/ DP!HardDelete(p)
             \/ \E t \in DP!Targets(p) : DP!InitiateDocking(p, t)
      PROVE  DP!IInv'
  <2>1. DP!Next
    BY <1>2 DEF DP!Next
  <2> QED
    BY <1>0, <2>1, DP!NextKeepsIInv, DockingAssumption
<1>3. CASE prog' = undock(prog) /\ master' = master
  <2>1. DP!InitiateUndocking(active_docking_controller)
    BY <1>3, SameCalls DEF undock, DP!InitiateUndocking
  <2> QED
    BY <1>0, <1>2, <2>1
<1>4. CASE prog' = force_undock(prog) /\ master' = master
  <2>1. DP!ForceUndock(active_docking_controller)
    BY <1>4, SameCalls DEF force_undock, DP!ForceUndock
  <2> QED
    BY <1>0, <1>2, <2>1
<1>5. ASSUME NEW p \in Controllers \cap Programs, NEW l \in Places, master' = master,
             prog' = dock(prog, p, dock_target[l])
      PROVE  DP!IInv'
  <2>1. DP!InitiateDocking(p, dock_target[l])
    BY <1>5, SameCalls DEF dock, DP!InitiateDocking
  <2>2. dock_target[l] \in DP!Targets(p)
    BY ControllersKnown
  <2> QED
    BY <1>2, <2>1, <2>2
<1>6. ASSUME NEW p \in Programs, D!Process(p) \/ D!Destroy(p) \/ D!HardDelete(p)
      PROVE  DP!IInv'
  <2>1. D!Destroy(p) => DP!Destroy(p)
    BY DEF D!Destroy, DP!Destroy
  <2>2. D!HardDelete(p) => DP!HardDelete(p)
    BY DEF D!HardDelete, DP!HardDelete
  <2>3. D!Process(p) => DP!Process(p)
    BY SameProcess
  <2> QED
    BY <1>2, <1>6, <2>1, <2>2, <2>3
<1> QED
  BY <1>1, <1>3, <1>4, <1>5, <1>6

LEMMA BerthsAtStart == Init => BerthInv
<1> SUFFICES ASSUME Init PROVE BerthInv
  OBVIOUS
<1> DEFINE p == StartController
           t == dock_target[Start]
           new == [q \in Programs |-> DP!NewProgram]
           asking == [new EXCEPT ![p].tag_target = t, ![p].control_mode = "client"]
<1>1. /\ p \in Controllers \cap Programs /\ t \in (Programs \ {p}) \cup {NoTag}
      /\ t # p /\ Start \in Landmarks /\ Start \in Places
  BY ControllersKnown, DockingAssumption DEF DP!Targets, Places
<1>2. DP!NewProgram \in DP!Program /\ D!NewProgram = DP!NewProgram
  BY DockingAssumption
  DEF D!NewProgram, DP!NewProgram, DP!Program, DP!DockStates, DP!Modes
<1>3. /\ prog = DP!request_dock(asking, p, t)
      /\ master = [q \in Programs |-> "running"]
  <2>1. prog = DP!initiate_docking(new, p, t)
    BY <1>2, SameCalls DEF Init, dock
  <2>2. new[p] = DP!NewProgram
    BY <1>1
  <2> QED
    BY <2>1, <2>2 DEF DP!initiate_docking, DP!NewProgram, Init
<1> DEFINE asked == [DP!NewProgram EXCEPT !.tag_target = t, !.control_mode = "client"]
           server == [DP!NewProgram EXCEPT !.control_mode = "server",
                        !.dock_state = "docking", !.tag_target = p]
           client == [asked EXCEPT !.dock_state = "docking"]
<1>4. asking = [new EXCEPT ![p] = asked]
  BY <1>1
<1>5. /\ prog \in [Programs -> DP!Program]
      /\ \A q \in Programs \ {p, t} : prog[q] = DP!NewProgram
      /\ t = NoTag => prog[p] = asked
      /\ t # NoTag => prog[p] = client /\ prog[t] = server
  <2>1. CASE t = NoTag
    <3>1. ~DP!Hears(t, p)
      BY <2>1, DockingAssumption DEF DP!Hears
    <3>2. prog = asking
      BY <1>3, <3>1 DEF DP!request_dock, DP!send_docking_command
    <3>3. asked \in DP!Program
      BY <1>1, <1>2 DEF DP!Program, DP!Modes
    <3> QED
      BY <1>1, <1>2, <1>4, <2>1, <3>2, <3>3
  <2>2. CASE t # NoTag
    <3>1. t \in Programs /\ p \in Programs /\ t # p
      BY <1>1, <2>2
    <3>2. DP!Hears(t, p) /\ DP!Hears(p, t)
      BY <1>3, <3>1 DEF DP!Hears
    <3>3. asking[t] = DP!NewProgram /\ DP!Idle(asking[t])
      BY <1>4, <3>1 DEF DP!Idle, DP!NewProgram
    <3>4. DP!send_docking_command(asking, p, t, "request_dock") = [asking EXCEPT ![t] = server]
      BY <3>2, <3>3 DEF DP!send_docking_command, DP!receive_signal, DP!OnRequestDock
    <3>5. asked.tag_target = t /\ asked.control_mode = "client" /\ asked.dock_state = "undocked"
      BY DEF DP!NewProgram
    <3>6. DP!receive_signal(asked, t, "confirm_dock") = client
      BY <3>5 DEF DP!receive_signal, DP!OnConfirmDock
    <3> DEFINE both == [asking EXCEPT ![t] = server]
    <3>7. both[p] = asked /\ both \in [Programs -> {both[q] : q \in Programs}]
      BY <1>4, <3>1
    <3>8. prog = [both EXCEPT ![p] = client]
      BY <1>3, <3>2, <3>3, <3>4, <3>6, <3>7 DEF DP!request_dock, DP!send_docking_command
    <3>9. server \in DP!Program /\ client \in DP!Program
      BY <1>2, <3>1 DEF DP!Program, DP!Modes, DP!DockStates
    <3> QED
      BY <1>1, <1>2, <1>4, <2>2, <3>1, <3>8, <3>9
  <2> QED
    BY <2>1, <2>2
<1>6. DP!IInv
  <2>1. DP!TypeOK
    BY <1>3, <1>5 DEF DP!TypeOK, DP!MachineStates
  <2>2. \A q \in Programs :
          \/ prog[q] = DP!NewProgram
          \/ q = p /\ t = NoTag /\ prog[q] = asked
          \/ q = p /\ t # NoTag /\ prog[q] = client
          \/ q = t /\ t # NoTag /\ prog[q] = server
    BY <1>1, <1>5, DockingAssumption
  <2>3. /\ asked.control_mode = "client" /\ asked.dock_state = "undocked"
        /\ client.control_mode = "client" /\ client.dock_state = "docking"
        /\ server.control_mode = "server" /\ server.dock_state = "docking"
        /\ client.tag_target = t /\ server.tag_target = p
        /\ ~asked.received_confirm /\ ~client.received_confirm /\ ~server.received_confirm
        /\ DP!NewProgram.control_mode = "none" /\ DP!NewProgram.dock_state = "undocked"
        /\ DP!NewProgram.tag_target = NoTag /\ ~DP!NewProgram.received_confirm
    BY DEF DP!NewProgram
  <2> HIDE DEF p, t, asked, client, server
  <2>4. DP!StateTable /\ DP!HasPartner /\ DP!ConfirmIsFresh
    BY <1>1, <2>2, <2>3 DEF DP!StateTable, DP!HasPartner, DP!ConfirmIsFresh
  <2>5. DP!Agreement
    BY <1>1, <1>5, <2>2, <2>3, DockingAssumption
    DEF DP!Agreement, DP!Running, DP!IsClientOf, DP!Serves
  <2> QED
    BY <2>1, <2>4, <2>5 DEF DP!IInv
<1>7. D!TypeOK
  BY <1>6 DEF DP!IInv, DP!TypeOK, D!TypeOK, DP!Program, D!Program, DP!DockStates,
     D!DockStates, DP!Modes, D!Modes, DP!MachineStates, D!MachineStates
<1>8. TypeOK
  BY <1>1, <1>7, ControllerAssumption DEF TypeOK, Init, ProcessStates, Places
<1>9. Docks
  BY <1>1 DEF Docks, Init
<1> QED
  BY <1>6, <1>8, <1>9, Initially DEF BerthInv

LEMMA TypesFollow == (DP!IInv => D!TypeOK) /\ (DP!IInv' => D!TypeOK')
  BY DEF DP!IInv, DP!TypeOK, D!TypeOK, DP!Program, D!Program, DP!DockStates,
     D!DockStates, DP!Modes, D!Modes, DP!MachineStates, D!MachineStates

\* The variables of the shuttle itself.
ShuttleTypeOK ==
    /\ moving_status \in {"idle", "warmup", "intransit"}
    /\ process_state \in ProcessStates
    /\ in_use \in Users \cup {NoUser}
    /\ current_location \in Places
    /\ next_location \in Landmarks \cup {NoLandmark}
    /\ warmups \in Seq(Jump)
    /\ transits \subseteq Jump
    /\ redocks \in Nat

\* What a step does to the programs and to the two variables that name them.
Handles ==
    \/ UNCHANGED <<prog, master>> /\ UNCHANGED dockVars
    \/ prog' = undock(prog) /\ master' = master /\ UNCHANGED dockVars
    \/ prog' = force_undock(prog) /\ master' = master /\ UNCHANGED dockVars
    \/ /\ master' = master /\ Docks'
       /\ \E p \in Controllers \cap Programs, l \in Places :
             prog' = dock(prog, p, dock_target[l])
    \/ /\ \E p \in Programs : D!Process(p) \/ D!Destroy(p) \/ D!HardDelete(p)
       /\ UNCHANGED dockVars

LEMMA ConsoleHandles ==
    ASSUME BerthInv,
           \/ \E l \in Landmarks : SetDestination(l)
           \/ \E user \in Users : launch(user) \/ force_launch(user)
           \/ cancel_launch
           \/ Redock
    PROVE  Handles /\ ShuttleTypeOK'
<1>1. ShuttleTypeOK /\ Docks
  BY DEF BerthInv, TypeOK, ShuttleTypeOK
<1>2. ASSUME NEW l \in Landmarks, SetDestination(l) PROVE Handles /\ ShuttleTypeOK'
  BY <1>1, <1>2 DEF SetDestination, Handles, ShuttleTypeOK, launchVars, callbackVars
<1>3. ASSUME NEW user \in Users, launch(user) PROVE Handles /\ ShuttleTypeOK'
  BY <1>1, <1>3 DEF launch, Handles, ShuttleTypeOK, ProcessStates, placeVars, callbackVars
<1>4. ASSUME NEW user \in Users, force_launch(user) PROVE Handles /\ ShuttleTypeOK'
  BY <1>1, <1>4
  DEF force_launch, Handles, ShuttleTypeOK, ProcessStates, placeVars, callbackVars
<1>5. CASE cancel_launch
  BY <1>1, <1>5
  DEF cancel_launch, CancelEffect, Handles, ShuttleTypeOK, ProcessStates, placeVars
<1>6. CASE Redock
  <2>1. Docks' /\ master' = master
    BY <1>1, <1>6 DEF Redock, Docks, dockVars
  <2>2. PICK l \in Places : current_dock_target = dock_target[l]
    BY <1>1 DEF Docks
  <2>3. prog' = dock(prog, active_docking_controller, dock_target[l])
    BY <1>6, <2>2 DEF Redock
  <2>4. ShuttleTypeOK'
    BY <1>1, <1>6 DEF Redock, ShuttleTypeOK, launchVars, placeVars
  <2> QED
    BY <1>1, <2>1, <2>3, <2>4 DEF Handles, Docks
<1> QED
  BY <1>2, <1>3, <1>4, <1>5, <1>6

LEMMA ProcessHandles ==
    ASSUME BerthInv, Process
    PROVE  Handles /\ ShuttleTypeOK'
<1>1. ShuttleTypeOK /\ Docks
  BY DEF BerthInv, TypeOK, ShuttleTypeOK
<1>2. process_state # "IDLE_STATE" /\ process_state # "WAIT_FINISH" =>
         next_location \in Landmarks
  BY <1>1 DEF BerthInv, IInv, ShuttleTypeOK, ProcessStates
<1>3. CASE ProcessLaunch
  <2>1. next_location \in Landmarks
    BY <1>2, <1>3 DEF ProcessLaunch
  <2>2. [destination |-> next_location, start |-> current_location] \in Jump
    BY <1>1, <2>1 DEF Jump, ShuttleTypeOK
  <2>3. warmups' \in Seq(Jump)
    <3>1. warmups \in Seq(Jump)
      BY <1>1 DEF ShuttleTypeOK
    <3>2. Append(warmups, [destination |-> next_location, start |-> current_location])
             \in Seq(Jump)
      BY <2>2, <3>1
    <3> QED
      BY <1>3, <3>1, <3>2 DEF ProcessLaunch, process_launch
  <2> QED
    BY <1>1, <1>3, <2>3
    DEF ProcessLaunch, process_launch, Handles, ShuttleTypeOK, ProcessStates, placeVars
<1>4. CASE ProcessArrive
  <2>1. next_location \in Landmarks /\ next_location \in Places
    BY <1>2, <1>4 DEF ProcessArrive, Places
  <2>2. active_docking_controller' \in Controllers \cap Programs
    BY <1>1, <1>4, <2>1, ControllersKnown DEF ProcessArrive, Docks
  <2>3. current_dock_target' = dock_target[next_location]
    BY <1>4 DEF ProcessArrive
  <2>4. prog' = dock(prog, active_docking_controller', dock_target[next_location])
    BY <1>4, <2>3 DEF ProcessArrive
  <2>5. ShuttleTypeOK'
    BY <1>1, <1>4 DEF ProcessArrive, ShuttleTypeOK, ProcessStates, callbackVars
  <2> QED
    BY <1>4, <2>1, <2>2, <2>3, <2>4, <2>5 DEF Handles, Docks, ProcessArrive
<1>5. ASSUME NEW t \in BOOLEAN, ProcessFinish(t) PROVE Handles /\ ShuttleTypeOK'
  BY <1>1, <1>5
  DEF ProcessFinish, Handles, ShuttleTypeOK, ProcessStates, placeVars, callbackVars
<1> QED
  BY <1>3, <1>4, <1>5 DEF Process

LEMMA JumpHandles ==
    ASSUME BerthInv, Takeoff \/ \E jump \in transits : Landing(jump)
    PROVE  Handles /\ ShuttleTypeOK'
<1>1. ShuttleTypeOK
  BY DEF BerthInv, TypeOK, ShuttleTypeOK
<1>2. CASE Takeoff
  <2> DEFINE jump == Head(warmups)
             goal == IF LongJumps THEN Transition ELSE jump.destination
  <2>1. /\ warmups' \in Seq(Jump) /\ jump \in Jump /\ goal \in Places
        /\ next_location' = next_location /\ UNCHANGED dockVars /\ master' = master
    <3>1. warmups \in Seq(Jump) /\ warmups # <<>>
      BY <1>1, <1>2 DEF ShuttleTypeOK, Takeoff
    <3>2. warmups' = Tail(warmups)
      BY <1>2 DEF Takeoff
    <3>3. Tail(warmups) \in Seq(Jump) /\ jump \in Jump
      BY <3>1
    <3>4. jump.destination \in Landmarks
      BY <3>3 DEF Jump
    <3> QED
      BY <1>2, <3>2, <3>3, <3>4 DEF Takeoff, Places
  <2> HIDE DEF jump, goal
  <2>2. CASE UNCHANGED <<prog, launchVars, current_location, transits, redocks>>
    BY <1>1, <2>1, <2>2 DEF Handles, ShuttleTypeOK, launchVars
  <2>3. CASE CancelEffect /\ UNCHANGED <<current_location, transits>>
    BY <1>1, <2>1, <2>3 DEF CancelEffect, Handles, ShuttleTypeOK, ProcessStates
  <2>4. ASSUME NEW moved \in BOOLEAN, attempt_move(goal, moved),
               moving_status' = IF moved /\ LongJumps THEN "intransit" ELSE "idle",
               transits' = IF moved /\ LongJumps THEN transits \cup {jump} ELSE transits,
               UNCHANGED <<process_state, in_use, redocks>>
        PROVE  Handles /\ ShuttleTypeOK'
    BY <1>1, <2>1, <2>4 DEF attempt_move, Handles, ShuttleTypeOK
  <2> QED
    BY <1>2, <2>2, <2>3, <2>4 DEF Takeoff, launchVars, jump, goal
<1>3. ASSUME NEW jump \in transits, Landing(jump) PROVE Handles /\ ShuttleTypeOK'
  <2>1. jump.destination \in Places /\ jump.start \in Places
    BY <1>1 DEF ShuttleTypeOK, Jump, Places
  <2> QED
    BY <1>1, <1>3, <2>1 DEF Landing, attempt_move, Handles, ShuttleTypeOK
<1> QED
  BY <1>2, <1>3

LEMMA BerthStep == ASSUME BerthInv, [Next]_vars PROVE BerthInv'
<1>1. Handles /\ ShuttleTypeOK'
  <2>1. ShuttleTypeOK
    BY DEF BerthInv, TypeOK, ShuttleTypeOK
  <2>2. ASSUME NEW p \in Programs, ControllerStep(p) PROVE Handles /\ ShuttleTypeOK'
    BY <2>1, <2>2
    DEF ControllerStep, Handles, ShuttleTypeOK, launchVars, placeVars, callbackVars
  <2>3. CASE UNCHANGED vars
    BY <2>1, <2>3 DEF vars, Handles, ShuttleTypeOK, launchVars, placeVars, callbackVars
  <2> QED
    BY <2>2, <2>3, ConsoleHandles, ProcessHandles, JumpHandles DEF Next
<1>2. DP!IInv'
  BY <1>1, HandshakeKeeps DEF Handles
<1>3. Docks'
  BY <1>1 DEF Handles, BerthInv, Docks, dockVars
<1>4. D!TypeOK'
  BY <1>2, TypesFollow
<1>5. current_dock_target' \in Programs \cup {NoTag}
  BY <1>3, ControllerAssumption DEF Docks
<1>6. TypeOK'
  BY <1>1, <1>3, <1>4, <1>5 DEF TypeOK, ShuttleTypeOK, Docks
<1> QED
  BY <1>2, <1>3, <1>6, StepKeeps DEF BerthInv

\* The shuttle that moves has reset its controller and, with it, the berth that served it.
LEMMA MoveReleases ==
    ASSUME BerthInv, [Next]_vars, current_location' # current_location,
           master[active_docking_controller] = "running",
           NEW b \in D!Running
    PROVE  ~D!Serves(b, active_docking_controller)'
<1> DEFINE p == active_docking_controller
           t == prog[p].tag_target
<1>1. /\ prog' = force_undock(prog) /\ master' = master
      /\ active_docking_controller' = active_docking_controller
  <2>1. Takeoff \/ \E jump \in transits : Landing(jump)
    BY DEF Next, vars, SetDestination, launch, force_launch, cancel_launch, Redock, Process,
       ProcessLaunch, process_launch, ProcessArrive, ProcessFinish, ControllerStep, placeVars
  <2>2. \E l, moved : attempt_move(l, moved) /\ moved
    BY <2>1 DEF Takeoff, Landing, attempt_move, is_valid
  <2> QED
    BY <2>1, <2>2 DEF attempt_move, Takeoff, Landing, dockVars
<1>2. p \in Programs /\ DP!IInv /\ b \in Programs /\ master[b] = "running"
  BY DEF BerthInv, Docks, D!Running
<1>3. DP!ForceUndock(p)
  BY <1>1, SameCalls DEF force_undock, DP!ForceUndock
<1>4. DP!Resets(p, t)
  BY <1>2, <1>3, DP!ForceUndockDoes, DockingAssumption
<1>5. \A q \in Programs : DP!reset(prog[q]).control_mode = "none"
  BY <1>2, DP!ResetType, DockingAssumption DEF DP!IInv, DP!TypeOK
<1>6. CASE b = p
  BY <1>1, <1>2, <1>4, <1>5, <1>6 DEF DP!Resets, D!Serves
<1>7. CASE b # p /\ ~DP!Serves(b, p)
  <2>1. prog'[b] = prog[b] \/ prog'[b].control_mode = "none"
    BY <1>2, <1>4, <1>5, <1>7 DEF DP!Resets
  <2> QED
    BY <1>1, <1>7, <2>1 DEF D!Serves, DP!Serves
<1>8. CASE b # p /\ DP!Serves(b, p)
  <2>1. b \in DP!Running /\ p \in DP!Running
    BY <1>1, <1>2 DEF DP!Running
  <2>2. b = t
    BY <1>2, <1>8, <2>1 DEF DP!IInv, DP!Agreement, DP!IsClientOf
  <2>3. DP!Hears(t, p) /\ prog[t].tag_target = p
    BY <1>1, <1>2, <1>8, <2>2 DEF DP!Hears, DP!Serves
  <2>4. prog'[b].control_mode = "none"
    BY <1>2, <1>4, <1>5, <1>8, <2>2, <2>3 DEF DP!Resets
  <2> QED
    BY <2>4 DEF D!Serves
<1> QED
  BY <1>6, <1>7, <1>8

\* Once a shuttle has moved, by whichever callback and after whatever was cancelled, no
\* berth that can still be told so believes it is docked to it (attempt_move,
\* shuttle_moved, force_undock); and every variable keeps its type.
THEOREM BerthsKeptHolds == Spec => BerthsKept
<1>1. BerthInv /\ [Next]_vars => BerthInv'
  BY BerthStep
<1>2. BerthInv => TypeOK
  BY DEF BerthInv
<1>3. BerthInv /\ [Next]_vars =>
        [current_location' # current_location /\ master[active_docking_controller] = "running" =>
           \A b \in D!Running : ~D!Serves(b, active_docking_controller)']_vars
  BY MoveReleases
<1> QED
  BY <1>1, <1>2, <1>3, BerthsAtStart, PTL DEF Spec, BerthsKept, BerthsReleased
============================================================================
