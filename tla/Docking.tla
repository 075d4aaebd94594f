------------------------------ MODULE Docking ------------------------------
(***************************************************************************)
(* The docking handshake of the embedded docking programs                  *)
(* (code/game/machinery/embedded_controller/docking_program.dm).           *)
(*                                                                         *)
(* A docking program runs on a radio controller machine.  Whoever is asked *)
(* to dock first is the client, the other one the server.  A radio signal  *)
(* is delivered inside the sender's call: post_signal calls receive_signal *)
(* of every other device on the frequency before it returns, so a request  *)
(* and the acknowledgement it triggers belong to the step of the requester.*)
(* A signal is lost only because one of the two machines is gone.          *)
(*                                                                         *)
(* Left out: what the port behind the program does (doors, airlocks, child *)
(* controllers).  It answers ready_for_docking / ready_for_undocking any   *)
(* way it likes.  override_enabled only mutes calls to the port, so it     *)
(* does not appear here; broadcasts of dock_status carry no command and no *)
(* docking program reacts to them.                                         *)
(***************************************************************************)
EXTENDS Naturals

CONSTANTS
    Programs,             \* docking programs, named by the id_tag of their controller
    NoTag,                \* tag_target = null
    MESSAGE_RESEND_TIME,  \* Process() calls before a confirmation is sent again
    Destructible          \* programs whose controller machine may be destroyed

ASSUME NoTagAssumption == NoTag \notin Programs
ASSUME ResendAssumption == MESSAGE_RESEND_TIME \in Nat \ {0}
ASSUME DestructibleAssumption == Destructible \subseteq Programs

VARIABLES
    prog,    \* the variables of each docking program
    master   \* the controller machine a program runs on

vars == <<prog, master>>

DockStates == {"undocked", "docking", "undocking", "docked"}
Modes == {"none", "server", "client"}
Commands == {"request_dock", "confirm_dock", "request_undock", "confirm_undock",
             "dock_error"}

\* "destroyed": qdel'd, so off the radio and off the machine list, but still
\* referenced by its program and able to send; "deleted": the reference is null.
MachineStates == {"running", "destroyed", "deleted"}

Program ==
    [ tag_target       : Programs \cup {NoTag},
      dock_state       : DockStates,
      control_mode     : Modes,
      response_sent    : BOOLEAN,
      resend_counter   : 0 .. (MESSAGE_RESEND_TIME - 1),
      received_confirm : BOOLEAN ]

TypeOK ==
    /\ prog \in [Programs -> Program]
    /\ master \in [Programs -> MachineStates]

NewProgram ==
    [ tag_target       |-> NoTag,
      dock_state       |-> "undocked",
      control_mode     |-> "none",
      response_sent    |-> FALSE,
      resend_counter   |-> 0,
      received_confirm |-> FALSE ]

Init ==
    /\ prog = [p \in Programs |-> NewProgram]
    /\ master = [p \in Programs |-> "running"]

----------------------------------------------------------------------------
(* One program's variables, before and after a call *)

reset(r) ==
    [r EXCEPT !.dock_state = "undocked", !.control_mode = "none",
              !.tag_target = NoTag, !.response_sent = FALSE,
              !.received_confirm = FALSE]

\* Mutant: a server that serves one client accepts another.
Idle_unless_client(r) == r.control_mode # "client"

Idle(r) == r.control_mode = "none" /\ r.dock_state = "undocked"

\* The reaction of a program r to each command, sent by the program `from'.
OnConfirmDock(r, from) ==
    IF r.tag_target # from THEN r
    ELSE IF r.control_mode = "client" /\ r.dock_state = "undocked"
    THEN [r EXCEPT !.dock_state = "docking"]
    ELSE IF r.control_mode = "client" /\ r.dock_state = "docking"
    THEN [r EXCEPT !.dock_state = "docked", !.response_sent = FALSE]
    ELSE IF r.control_mode = "server" /\ r.dock_state = "docking"
    THEN [r EXCEPT !.received_confirm = TRUE]
    ELSE r

\* The acknowledgement of the request is in `request_dock' below.
OnRequestDock(r, from) ==
    IF Idle(r)
    THEN [r EXCEPT !.control_mode = "server", !.dock_state = "docking",
                   !.tag_target = from]
    ELSE r

OnConfirmUndock(r, from) ==
    IF r.tag_target # from \/ r.dock_state # "undocking" THEN r
    ELSE IF r.control_mode = "client" THEN reset(r)
    ELSE IF r.control_mode = "server" THEN [r EXCEPT !.received_confirm = TRUE]
    ELSE r

\* Mutant: whoever asks for it undocks a server.
OnRequestUndock_of_anyone(r, from) ==
    IF r.control_mode = "server" /\ r.dock_state = "docked"
    THEN [r EXCEPT !.dock_state = "undocking"]
    ELSE r

OnRequestUndock(r, from) ==
    IF /\ r.control_mode = "server" /\ r.dock_state = "docked"
       /\ r.tag_target = from
    THEN [r EXCEPT !.dock_state = "undocking"]
    ELSE r

\* Mutant: the sender of the error is not compared with the partner.
OnDockError_of_anyone(r, from) == reset(r)

OnDockError(r, from) == IF r.tag_target = from THEN reset(r) ELSE r

receive_signal(r, from, command) ==
    IF command = "confirm_dock" THEN OnConfirmDock(r, from)
    ELSE IF command = "request_dock" THEN OnRequestDock(r, from)
    ELSE IF command = "confirm_undock" THEN OnConfirmUndock(r, from)
    ELSE IF command = "request_undock" THEN OnRequestUndock(r, from)
    ELSE OnDockError(r, from)

\* A signal from one program reaches another: the sender's machine still has a
\* radio connection and the receiver's is on the frequency.
Hears(to, from) ==
    /\ to \in Programs \ {from}
    /\ master[from] # "deleted"
    /\ master[to] = "running"

\* The programs ps after `from' sent the command to the tag `to'.
send_docking_command(ps, from, to, command) ==
    IF Hears(to, from)
    THEN [ps EXCEPT ![to] = receive_signal(ps[to], from, command)]
    ELSE ps

\* request_dock is acknowledged with confirm_dock from inside receive_signal.
request_dock(ps, from, to) ==
    LET asked == send_docking_command(ps, from, to, "request_dock")
    IN  IF Hears(to, from) /\ Idle(ps[to])
        THEN send_docking_command(asked, to, from, "confirm_dock")
        ELSE asked
----------------------------------------------------------------------------
(* Calls from outside: a shuttle that wants to dock, undock or has left *)

\* target is null for a landmark without a docking port; nobody hears it then.
initiate_docking(ps, p, target) ==
    IF ps[p].dock_state # "undocked" \/ ps[p].control_mode = "server"
    THEN ps
    ELSE request_dock([ps EXCEPT ![p].tag_target = target, ![p].control_mode = "client"],
                      p, target)

initiate_undocking(ps, p) ==
    IF ps[p].dock_state # "docked" \/ ps[p].control_mode # "client"
    THEN ps
    ELSE send_docking_command([ps EXCEPT ![p].dock_state = "undocking"],
                              p, ps[p].tag_target, "request_undock")

force_undock(ps, p) ==
    [send_docking_command(ps, p, ps[p].tag_target, "dock_error")
       EXCEPT ![p] = reset(ps[p])]

Targets(p) == (Programs \ {p}) \cup {NoTag}

InitiateDocking(p, target) ==
    prog' = initiate_docking(prog, p, target) /\ UNCHANGED master
InitiateUndocking(p) == prog' = initiate_undocking(prog, p) /\ UNCHANGED master
ForceUndock(p) == prog' = force_undock(prog, p) /\ UNCHANGED master
----------------------------------------------------------------------------
(* Process(): called by the machinery subsystem on every running controller *)

\* Mutant: the server forgets to clear received_confirm when it has docked.
Handshake_stale_confirm(p) ==
    LET r == prog[p]
        mine == r.control_mode = "client" /\ ~r.response_sent
        both == r.control_mode = "server" /\ r.received_confirm
        confirm(command) == send_docking_command(prog, p, r.tag_target, command)
    IN  IF r.dock_state = "docking" /\ mine
        THEN [confirm("confirm_dock") EXCEPT ![p].response_sent = TRUE]
        ELSE IF r.dock_state = "docking" /\ both
        THEN [confirm("confirm_dock") EXCEPT ![p].dock_state = "docked"]
        ELSE IF r.dock_state = "undocking" /\ mine
        THEN [confirm("confirm_undock") EXCEPT ![p].response_sent = TRUE]
        ELSE IF r.dock_state = "undocking" /\ both
        THEN [confirm("confirm_undock") EXCEPT ![p] = reset(r)]
        ELSE prog

\* Mutant: a client waits for its server without confirming first.
Handshake_silent_client(p) ==
    LET r == prog[p]
        both == r.control_mode = "server" /\ r.received_confirm
        confirm(command) == send_docking_command(prog, p, r.tag_target, command)
    IN  IF r.dock_state = "docking" /\ both
        THEN [confirm("confirm_dock") EXCEPT ![p].dock_state = "docked"]
        ELSE IF r.dock_state = "undocking" /\ both
        THEN [confirm("confirm_undock") EXCEPT ![p] = reset(r)]
        ELSE prog

\* The switch on dock_state, when the port has answered that it is ready.
Handshake(p) ==
    LET r == prog[p]
        mine == r.control_mode = "client" /\ ~r.response_sent
        both == r.control_mode = "server" /\ r.received_confirm
        confirm(command) == send_docking_command(prog, p, r.tag_target, command)
    IN  IF r.dock_state = "docking" /\ mine
        THEN [confirm("confirm_dock") EXCEPT ![p].response_sent = TRUE]
        ELSE IF r.dock_state = "docking" /\ both
        THEN [confirm("confirm_dock") EXCEPT
                ![p] = [r EXCEPT !.dock_state = "docked", !.response_sent = FALSE,
                                 !.received_confirm = FALSE]]
        ELSE IF r.dock_state = "undocking" /\ mine
        THEN [confirm("confirm_undock") EXCEPT ![p].response_sent = TRUE]
        ELSE IF r.dock_state = "undocking" /\ both
        THEN [confirm("confirm_undock") EXCEPT ![p] = reset(r)]
        ELSE prog

\* Counting towards the next resend.
Resend(r) ==
    LET counter == IF r.response_sent \/ r.resend_counter > 0
                   THEN r.resend_counter + 1
                   ELSE r.resend_counter
    IN  IF \/ counter >= MESSAGE_RESEND_TIME
           \/ r.dock_state \notin {"docking", "undocking"}
        THEN [r EXCEPT !.response_sent = FALSE, !.resend_counter = 0]
        ELSE [r EXCEPT !.resend_counter = counter]

\* "handle invalid states"
Repair(ps, p) ==
    IF ps[p].control_mode = "none" /\ ps[p].dock_state # "undocked"
    THEN [send_docking_command(ps, p, ps[p].tag_target, "dock_error")
            EXCEPT ![p] = reset(ps[p])]
    ELSE IF ps[p].control_mode = "server" /\ ps[p].dock_state = "undocked"
    THEN [ps EXCEPT ![p].control_mode = "none"]
    ELSE ps

ProcessReady(p, ready) ==
    /\ master[p] = "running"
    /\ LET shaken == IF ready THEN Handshake(p) ELSE prog
       IN  prog' = Repair([shaken EXCEPT ![p] = Resend(shaken[p])], p)
    /\ UNCHANGED master

Process(p) == \E ready \in BOOLEAN : ProcessReady(p, ready)
----------------------------------------------------------------------------
(* The machine is destroyed: radio/Destroy removes it from the frequency.   *)
(* The program keeps its reference until the garbage collector deletes it.  *)

Destroy(p) ==
    /\ p \in Destructible
    /\ master[p] = "running"
    /\ master' = [master EXCEPT ![p] = "destroyed"]
    /\ UNCHANGED prog

HardDelete(p) ==
    /\ master[p] = "destroyed"
    /\ master' = [master EXCEPT ![p] = "deleted"]
    /\ UNCHANGED prog
----------------------------------------------------------------------------
Next ==
    \E p \in Programs :
        \/ \E target \in Targets(p) : InitiateDocking(p, target)
        \/ InitiateUndocking(p)
        \/ ForceUndock(p)
        \/ Process(p)
        \/ Destroy(p)
        \/ HardDelete(p)

Spec == Init /\ [][Next]_vars

\* SSmachines calls Process() on every running controller again and again, and
\* a port that was told to get ready is ready eventually.
FairSpec == Spec /\ \A p \in Programs : WF_vars(ProcessReady(p, TRUE))
----------------------------------------------------------------------------
(* Safety *)

Running == {p \in Programs : master[p] = "running"}

Serves(s, c) == prog[s].control_mode = "server" /\ prog[s].tag_target = c
IsClientOf(c, s) ==
    /\ prog[c].control_mode = "client"
    /\ prog[c].dock_state # "undocked"
    /\ prog[c].tag_target = s

\* The two rows of the state table that "should never happen": a server is
\* never undocked, and without a mode a program is undocked and has no partner.
StateTable ==
    \A p \in Programs :
        /\ prog[p].control_mode = "server" => prog[p].dock_state # "undocked"
        /\ prog[p].control_mode = "none" =>
              prog[p].dock_state = "undocked" /\ prog[p].tag_target = NoTag

\* A client that got past its request and the server it targets agree: the
\* server serves exactly this client and both are in the same dock_state, and
\* the other way round.  No third program can come between the two, whatever
\* it requests and whenever one side resets, as long as both machines run.
Agreement ==
    \A c, s \in Running :
        (IsClientOf(c, s) \/ Serves(s, c)) =>
            /\ IsClientOf(c, s) /\ Serves(s, c)
            /\ prog[c].dock_state = prog[s].dock_state

\* What holds of the handshake at any moment: every pair of programs agrees, and no
\* program is in a row of the state table that should never happen.
PortsAgree == TypeOK /\ StateTable /\ Agreement

\* A received confirmation is kept only while the server waits for its own
\* port, so the confirmation of a docking never finishes a later undocking.
ConfirmIsFresh ==
    \A p \in Programs :
        prog[p].received_confirm =>
            /\ prog[p].control_mode = "server"
            /\ prog[p].dock_state \in {"docking", "undocking"}

\* A server leaves "docked" only when its client asked for it or was reset:
\* a request of a third program or a late signal never undocks a port.
ServerStaysDocked ==
    [][\A c, s \in Running :
          Serves(s, c) /\ prog[s].dock_state = "docked" /\ master' = master =>
              \/ prog'[s] = prog[s]
              \/ prog'[c].dock_state = "undocking"
              \/ prog'[c] = reset(prog[c])]_vars

\* Between two running machines a docking or an undocking under way ends,
\* provided both ports get ready: nobody waits for a confirmation for ever.
HandshakeEnds ==
    \A c, s \in Programs :
        (IsClientOf(c, s) /\ prog[c].dock_state \in {"docking", "undocking"}
            /\ {c, s} \subseteq Running)
        ~> (prog[c].dock_state \in {"docked", "undocked"}
            \/ ~({c, s} \subseteq Running))
----------------------------------------------------------------------------
(* What the handshake is for: see DockingLink *)

Link(c) == [client |-> c, server |-> prog[c].tag_target, phase |-> prog[c].dock_state]

Links == {Link(c) : c \in {x \in Running : \E s \in Running : IsClientOf(x, s)}}

Abstract == INSTANCE DockingLink WITH Ports <- Programs, links <- Links

\* The two programs of a handshake, as far as both run, behave like one link
\* between two ports that were free: the link is docking, docked, undocking
\* and then gone, and both ends see every step at once.
RefinesDockingLink == Abstract!Spec

\* The links are kept as the abstract ones are, and by the server to the end.
LinksKept == RefinesDockingLink /\ ServerStaysDocked
============================================================================
