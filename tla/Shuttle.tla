------------------------------ MODULE Shuttle ------------------------------
(***************************************************************************)
(* One autodock shuttle (code/modules/shuttles/shuttle.dm,                 *)
(* shuttle_autodock.dm), its console, the delayed callbacks it starts and  *)
(* the docking programs it talks to (module Docking).                      *)
(*                                                                         *)
(* Game code is cooperative: a proc runs until it sleeps, and spawn(n)     *)
(* queues a callback for later.  So a console button, one Process() of the *)
(* shuttle subsystem and one wake-up of a callback are one step each, and  *)
(* everything may come between two of them.  Callbacks with the same delay *)
(* run in the order they were queued.                                      *)
(*                                                                         *)
(* Two kinds of shuttle: a multi shuttle takes a new destination only      *)
(* while idle, an overmap shuttle takes one at any time and needs fuel.    *)
(***************************************************************************)
EXTENDS Naturals, Sequences, FiniteSets

CONSTANTS
    Programs, NoTag, MESSAGE_RESEND_TIME, Destructible,  \* see Docking
    Landmarks,            \* where the shuttle can be sent
    Transition,           \* landmark_transition, where it waits on a long jump
    NoLandmark,           \* next_location = null
    Start,                \* the landmark it starts at
    DefaultController,    \* default_docking_controller
    docking_controller,   \* the controller a landmark prescribes, or NoTag
    dock_target,          \* the berth of a landmark, or NoTag
    Users,                \* the consoles that launch the shuttle
    NoUser,               \* in_use = null
    Overmap,              \* TRUE: an overmap shuttle; FALSE: a multi shuttle
    LongJumps,            \* move_time && landmark_transition
    Warmup,               \* FALSE: warmup_time = 0, spawn(0) runs in the same tick
    MaxCallbacks          \* bound on the callbacks of one kind that wait

Places == Landmarks \cup {Transition}
Controllers == {DefaultController} \cup {docking_controller[l] : l \in Landmarks}

ASSUME DockingAssumption ==      \* of module Docking
    /\ NoTag \notin Programs
    /\ MESSAGE_RESEND_TIME \in Nat \ {0}
    /\ Destructible \subseteq Programs
ASSUME LandmarkAssumption ==
    /\ Transition \notin Landmarks
    /\ NoLandmark \notin Places
    /\ Start \in Landmarks
ASSUME ControllerAssumption ==
    /\ DefaultController \in Programs
    /\ docking_controller \in [Landmarks -> Programs \cup {NoTag}]
    /\ dock_target \in [Places -> Programs \cup {NoTag}]
    /\ \A l \in Places : dock_target[l] \notin Controllers \ {NoTag}
ASSUME UserAssumption == NoUser \notin Users
ASSUME KindAssumption ==
    /\ Overmap \in BOOLEAN /\ LongJumps \in BOOLEAN /\ Warmup \in BOOLEAN
    /\ MaxCallbacks \in Nat \ {0}

VARIABLES
    prog, master,               \* the docking programs and their machines
    moving_status,              \* idle, warmup or intransit
    process_state,              \* what Process() waits for
    in_use,                     \* the console that holds the launch lock
    current_location,
    next_location,
    active_docking_controller,
    current_dock_target,
    warmups,                    \* jumps asleep in spawn(warmup_time*10)
    transits,                   \* long jumps asleep in the transition area
    redocks                     \* dock() calls waiting in cancel_launch's spawn

D == INSTANCE Docking

launchVars == <<moving_status, process_state, in_use>>
placeVars == <<current_location, next_location>>
dockVars == <<active_docking_controller, current_dock_target>>
callbackVars == <<warmups, transits, redocks>>
vars == <<prog, master, launchVars, placeVars, dockVars, callbackVars>>

Jump == [destination : Landmarks, start : Places]

\* "Launching" states hold the lock until the launch ends.
ProcessStates == {"IDLE_STATE", "WAIT_LAUNCH", "FORCE_LAUNCH", "WAIT_ARRIVE",
                  "WAIT_FINISH"}

TypeOK ==
    /\ D!TypeOK
    /\ moving_status \in {"idle", "warmup", "intransit"}
    /\ process_state \in ProcessStates
    /\ in_use \in Users \cup {NoUser}
    /\ current_location \in Places
    /\ next_location \in Landmarks \cup {NoLandmark}
    /\ active_docking_controller \in Programs
    /\ current_dock_target \in Programs \cup {NoTag}
    /\ warmups \in Seq(Jump)
    /\ transits \subseteq Jump
    /\ redocks \in Nat
----------------------------------------------------------------------------
(* The docking calls of the shuttle, on the programs ps *)

dock(ps, controller, target) == D!initiate_docking(ps, controller, target)
undock(ps) == D!initiate_undocking(ps, active_docking_controller)
force_undock(ps) == D!force_undock(ps, active_docking_controller)

check_docked == prog[active_docking_controller].dock_state = "docked"
check_undocked == prog[active_docking_controller].dock_state = "undocked"

StartController ==
    IF docking_controller[Start] # NoTag THEN docking_controller[Start]
    ELSE DefaultController

\* New(): the shuttle docks where it starts.
Init ==
    /\ master = [p \in Programs |-> "running"]
    /\ prog = dock([p \in Programs |-> D!NewProgram], StartController, dock_target[Start])
    /\ moving_status = "idle"
    /\ process_state = "IDLE_STATE"
    /\ in_use = NoUser
    /\ current_location = Start
    /\ next_location = NoLandmark
    /\ active_docking_controller = StartController
    /\ current_dock_target = dock_target[Start]
    /\ warmups = <<>>
    /\ transits = {}
    /\ redocks = 0
----------------------------------------------------------------------------
(* Guards *)

\* A landmark can be landed on: another place than this one, with nothing in
\* the way.  What is in the way changes from call to call.
is_valid(l) == {FALSE} \cup (IF current_location # l THEN {TRUE} ELSE {})

can_launch == next_location # NoLandmark /\ moving_status = "idle" /\ in_use = NoUser

\* An overmap shuttle also wants the destination in range; a destination out
\* of range only means that nobody can launch.
can_go == \/ ~Overmap
          \/ next_location # NoLandmark /\ moving_status # "intransit"

can_force ==
    next_location # NoLandmark /\ moving_status = "idle" /\ process_state = "WAIT_LAUNCH"

can_cancel ==
    moving_status = "warmup" \/ process_state \in {"WAIT_LAUNCH", "FORCE_LAUNCH"}
----------------------------------------------------------------------------
(* The console *)

\* Mutant: a multi shuttle takes a new destination at any time.
SetDestination_anytime(l) ==
    /\ next_location' = l
    /\ UNCHANGED <<prog, master, launchVars, current_location, dockVars, callbackVars>>

SetDestination(l) ==
    /\ IF Overmap THEN l # current_location ELSE moving_status = "idle"
    /\ next_location' = l
    /\ UNCHANGED <<prog, master, launchVars, current_location, dockVars, callbackVars>>

launch(user) ==
    /\ can_launch /\ can_go
    /\ TRUE \in is_valid(next_location)   \* the console looks first
    /\ in_use' = user
    /\ process_state' = "WAIT_LAUNCH"
    /\ prog' = undock(prog)
    /\ UNCHANGED <<master, moving_status, placeVars, dockVars, callbackVars>>

force_launch(user) ==
    /\ can_force /\ can_go
    /\ in_use' = user
    /\ process_state' = "FORCE_LAUNCH"
    /\ UNCHANGED <<prog, master, moving_status, placeVars, dockVars, callbackVars>>

CancelEffect ==
    /\ redocks < MaxCallbacks
    /\ moving_status' = "idle"
    /\ process_state' = "WAIT_FINISH"
    /\ in_use' = NoUser
    /\ prog' = force_undock(prog)
    /\ redocks' = redocks + 1

cancel_launch ==
    /\ can_cancel
    /\ CancelEffect
    /\ UNCHANGED <<master, placeVars, dockVars, warmups, transits>>

\* spawn(1 SECONDS) dock()
Redock ==
    /\ redocks > 0
    /\ redocks' = redocks - 1
    /\ prog' = dock(prog, active_docking_controller, current_dock_target)
    /\ UNCHANGED <<master, launchVars, placeVars, dockVars, warmups, transits>>
----------------------------------------------------------------------------
(* Process() of the shuttle subsystem *)

\* Mutant: an invalid destination leaves the lock with the console.
process_launch_keeps_lock ==
    /\ Len(warmups) < MaxCallbacks
    /\ \/ /\ FALSE \in is_valid(next_location)
          /\ process_state' = "IDLE_STATE"
          /\ UNCHANGED <<moving_status, warmups, in_use>>
       \/ /\ TRUE \in is_valid(next_location)
          /\ process_state' = "WAIT_ARRIVE"
          /\ moving_status' = "warmup"
          /\ warmups' = Append(warmups, [destination |-> next_location,
                                         start |-> current_location])
          /\ UNCHANGED in_use
    /\ UNCHANGED <<prog, master, placeVars, dockVars, transits, redocks>>

\* process_launch: short_jump and long_jump do nothing unless the shuttle is
\* idle; process_launch does not look whether they did.
process_launch ==
    /\ Len(warmups) < MaxCallbacks
    /\ \/ /\ FALSE \in is_valid(next_location)
          /\ process_state' = "IDLE_STATE"
          /\ in_use' = NoUser
          /\ UNCHANGED <<moving_status, warmups>>
       \/ /\ TRUE \in is_valid(next_location)
          /\ process_state' = "WAIT_ARRIVE"
          /\ IF moving_status = "idle"
             THEN /\ moving_status' = "warmup"
                  /\ warmups' = Append(warmups, [destination |-> next_location,
                                                 start |-> current_location])
             ELSE UNCHANGED <<moving_status, warmups>>
          /\ UNCHANGED in_use
    /\ UNCHANGED <<prog, master, placeVars, dockVars, transits, redocks>>

ProcessLaunch ==
    /\ \/ process_state = "WAIT_LAUNCH" /\ check_undocked
       \/ process_state = "FORCE_LAUNCH"
    /\ process_launch

ProcessArrive ==
    /\ process_state = "WAIT_ARRIVE"
    /\ moving_status = "idle"
    /\ active_docking_controller' =
          IF docking_controller[next_location] # NoTag
          THEN docking_controller[next_location] ELSE active_docking_controller
    /\ current_dock_target' = dock_target[next_location]
    /\ prog' = dock(prog, active_docking_controller', current_dock_target')
    /\ next_location' = NoLandmark
    /\ in_use' = NoUser
    /\ process_state' = "WAIT_FINISH"
    /\ UNCHANGED <<master, moving_status, current_location, callbackVars>>

\* Mutant: no timeout.
ProcessFinish_untimed(timedOut) ==
    /\ process_state = "WAIT_FINISH"
    /\ check_docked
    /\ process_state' = "IDLE_STATE"
    /\ UNCHANGED <<prog, master, moving_status, in_use, placeVars, dockVars, callbackVars>>

\* DOCK_ATTEMPT_TIMEOUT may have elapsed or not.
ProcessFinish(timedOut) ==
    /\ process_state = "WAIT_FINISH"
    /\ timedOut \/ check_docked
    /\ process_state' = "IDLE_STATE"
    /\ UNCHANGED <<prog, master, moving_status, in_use, placeVars, dockVars, callbackVars>>

Process == ProcessLaunch \/ ProcessArrive \/ \E t \in BOOLEAN : ProcessFinish(t)
----------------------------------------------------------------------------
(* The jump coroutines *)

\* Mutant: the shuttle leaves without telling its berth.
attempt_move_docked(destination, moved) ==
    /\ moved \in is_valid(destination)
    /\ current_location' = IF moved THEN destination ELSE current_location
    /\ UNCHANGED prog

\* attempt_move: `moved' tells whether the shuttle went; shuttle_moved undocks.
attempt_move(destination, moved) ==
    /\ moved \in is_valid(destination)
    /\ IF moved
       THEN current_location' = destination /\ prog' = force_undock(prog)
       ELSE UNCHANGED <<current_location, prog>>

\* A jump wakes from its warmup: a long one goes to the transition area, a short
\* one to its destination.
Takeoff ==
    /\ warmups # <<>>
    /\ warmups' = Tail(warmups)
    /\ LET jump == Head(warmups) IN
       \/ /\ moving_status = "idle"     \* someone cancelled the launch
          /\ UNCHANGED <<prog, launchVars, current_location, transits, redocks>>
       \/ /\ moving_status # "idle"     \* out of fuel
          /\ Overmap
          /\ IF can_cancel THEN CancelEffect
             ELSE UNCHANGED <<launchVars, prog, redocks>>
          /\ UNCHANGED <<current_location, transits>>
       \/ /\ moving_status # "idle"
          /\ \E moved \in BOOLEAN :
                /\ attempt_move(IF LongJumps THEN Transition ELSE jump.destination, moved)
                /\ moving_status' = IF moved /\ LongJumps THEN "intransit" ELSE "idle"
                /\ transits' = IF moved /\ LongJumps THEN transits \cup {jump} ELSE transits
          /\ UNCHANGED <<process_state, in_use, redocks>>
    /\ UNCHANGED <<master, next_location, dockVars>>

\* Mutant: the landing does not end the transit.
Landing_in_transit(jump) ==
    /\ jump \in transits
    /\ transits' = transits \ {jump}
    /\ \/ \E l \in {jump.destination, jump.start} : attempt_move(l, TRUE)
       \/ UNCHANGED <<current_location, prog>>
    /\ UNCHANGED <<master, moving_status, process_state, in_use, next_location, dockVars,
                   warmups, redocks>>

\* A long jump has waited long enough: move to the destination, or back.
Landing(jump) ==
    /\ jump \in transits
    /\ transits' = transits \ {jump}
    /\ \/ \E l \in {jump.destination, jump.start} : attempt_move(l, TRUE)
       \/ UNCHANGED <<current_location, prog>>
    /\ moving_status' = "idle"
    /\ UNCHANGED <<master, process_state, in_use, next_location, dockVars, warmups, redocks>>
----------------------------------------------------------------------------
(* The docking programs run beside the shuttle *)

ControllerStep(p) ==
    /\ D!Process(p) \/ D!Destroy(p) \/ D!HardDelete(p)
    /\ UNCHANGED <<launchVars, placeVars, dockVars, callbackVars>>

\* With no warmup the jump follows before anybody else gets a turn.
Turn == Warmup \/ warmups = <<>>

Next ==
    \/ Turn /\ \E l \in Landmarks : SetDestination(l)
    \/ Turn /\ \E user \in Users : launch(user) \/ force_launch(user)
    \/ Turn /\ cancel_launch
    \/ Turn /\ Redock
    \/ Turn /\ Process
    \/ Takeoff
    \/ Turn /\ \E jump \in transits : Landing(jump)
    \/ Turn /\ \E p \in Programs : ControllerStep(p)

Spec == Init /\ [][Next]_vars

\* Queued callbacks wake up, the shuttle subsystem calls Process() again and
\* again, 200 ticks pass, and the machinery subsystem runs the controllers,
\* whose ports get ready.
FairSpec ==
    /\ Spec
    /\ WF_vars(Takeoff)
    /\ WF_vars(Turn /\ Redock)
    /\ WF_vars(Turn /\ \E jump \in transits : Landing(jump))
    /\ WF_vars(Turn /\ ProcessLaunch)
    /\ WF_vars(Turn /\ ProcessArrive)
    /\ WF_vars(Turn /\ ProcessFinish(TRUE))
    /\ \A p \in Programs :
          WF_vars(Turn /\ D!ProcessReady(p, TRUE)
                  /\ UNCHANGED <<launchVars, placeVars, dockVars, callbackVars>>)
----------------------------------------------------------------------------
(* Safety *)

Launching == process_state \in {"WAIT_LAUNCH", "FORCE_LAUNCH", "WAIT_ARRIVE"}

\* A shuttle that waits to be launched does not move, so the jump of
\* process_launch is never refused (process_launch would wait for its arrival
\* all the same); and it only moves while Process() waits for the arrival.
MovesOnlyInWaitArrive == moving_status # "idle" => process_state = "WAIT_ARRIVE"

\* The lock is held exactly while a launch is under way, whatever is cancelled,
\* fails for fuel or has no valid destination: it neither leaks nor gets lost.
LockFollowsLaunch == (in_use # NoUser) <=> Launching

\* Process() never dereferences a null next_location.
LaunchHasDestination == Launching => next_location # NoLandmark

\* The console, Process() and the callbacks never lose each other: movement, lock and
\* destination fit the state of the launch, whichever of them came last.
LaunchProtocol == MovesOnlyInWaitArrive /\ LockFollowsLaunch /\ LaunchHasDestination

\* A long jump that waits in the transition area really is there, alone; and a
\* shuttle in transit has such a jump to bring it back.
TransitIsReal ==
    /\ transits # {} => current_location = Transition /\ Cardinality(transits) = 1
    /\ moving_status = "intransit" => transits # {}

\* Once the shuttle has moved, no berth that can still be told so believes it
\* is docked to the shuttle.
BerthsReleased ==
    [][current_location' # current_location /\ master[active_docking_controller] = "running" =>
          \A b \in D!Running : ~D!Serves(b, active_docking_controller)']_vars

\* The same, with the types of the variables.
BerthsKept == []TypeOK /\ BerthsReleased

\* Without a warmup: the shuttle is in transit exactly while its long jump
\* waits, and it goes where its console says.
TransitIsTheLaunch ==
    transits # {} =>
        /\ moving_status = "intransit"
        /\ \A jump \in transits : jump.destination = next_location

(* Liveness *)

\* Every launch that took off arrives (somewhere) and gives the lock back.
JumpEnds == process_state = "WAIT_ARRIVE" ~> in_use = NoUser
\* A shuttle that docks after arriving is ready for use again, even when the
\* controller on the other side is gone.
DockingIsGivenUp == process_state = "WAIT_FINISH" ~> process_state # "WAIT_FINISH"

\* A launch that took off comes to an end: the jump, and the docking after it.
LaunchEnds == JumpEnds /\ DockingIsGivenUp

(* What the comments and messages say and the code does not do *)

\* "Doing so will ensure that multiple jumps cannot be initiated in parallel"
NoParallelJumps ==
    moving_status # "idle" => Len(warmups) + Cardinality(transits) <= 1
============================================================================
