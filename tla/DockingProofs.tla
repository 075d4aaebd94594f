--------------------------- MODULE DockingProofs ---------------------------
(***************************************************************************)
(* Theorems about the docking handshake, for any set of programs, any      *)
(* resend time and any set of machines that may be destroyed.              *)
(***************************************************************************)
EXTENDS Docking, TLAPS

\* A program that serves or is past its request has a partner: not itself, and
\* not null, although a client may have asked a null target.
HasPartner ==
    \A p \in Programs :
        prog[p].control_mode = "server" \/ prog[p].dock_state # "undocked" =>
            prog[p].tag_target \in Programs \ {p}

\* The inductive invariant.
IInv == TypeOK /\ StateTable /\ HasPartner /\ Agreement /\ ConfirmIsFresh
----------------------------------------------------------------------------
(* What the operators of the handshake return *)

LEMMA ResetType ==
    ASSUME NEW r \in Program
    PROVE  /\ reset(r) \in Program
           /\ reset(r).dock_state = "undocked"
           /\ reset(r).control_mode = "none"
           /\ reset(r).tag_target = NoTag
           /\ reset(r).received_confirm = FALSE
  BY DEF reset, Program, DockStates, Modes

LEMMA ReceiveType ==
    ASSUME NEW r \in Program, NEW from \in Programs, NEW command \in Commands
    PROVE  receive_signal(r, from, command) \in Program
  BY ResetType DEF receive_signal, OnConfirmDock, OnRequestDock, OnConfirmUndock,
               OnRequestUndock, OnDockError, Idle, Program, DockStates, Modes, Commands

LEMMA SendType ==
    ASSUME NEW ps \in [Programs -> Program], NEW from \in Programs,
           NEW to \in Programs \cup {NoTag}, NEW command \in Commands
    PROVE  /\ send_docking_command(ps, from, to, command) \in [Programs -> Program]
           /\ send_docking_command(ps, from, to, command)[from] = ps[from]
           /\ \A q \in Programs \ {to} :
                 send_docking_command(ps, from, to, command)[q] = ps[q]
           /\ ~Hears(to, from) => send_docking_command(ps, from, to, command) = ps
           /\ Hears(to, from) =>
                 send_docking_command(ps, from, to, command)[to]
                    = receive_signal(ps[to], from, command)
  BY ReceiveType DEF send_docking_command, Hears

LEMMA ResendType ==
    ASSUME NEW r \in Program
    PROVE  /\ Resend(r) \in Program
           /\ Resend(r).tag_target = r.tag_target
           /\ Resend(r).dock_state = r.dock_state
           /\ Resend(r).control_mode = r.control_mode
           /\ Resend(r).received_confirm = r.received_confirm
<1> DEFINE counter == IF r.response_sent \/ r.resend_counter > 0
                      THEN r.resend_counter + 1 ELSE r.resend_counter
<1>1. r.resend_counter \in 0 .. (MESSAGE_RESEND_TIME - 1) /\ MESSAGE_RESEND_TIME \in Nat
  BY ResendAssumption DEF Program
<1>2. counter \in Nat
  BY <1>1
<1>3. CASE counter >= MESSAGE_RESEND_TIME \/ r.dock_state \notin {"docking", "undocking"}
  <2>1. Resend(r) = [r EXCEPT !.response_sent = FALSE, !.resend_counter = 0]
    BY <1>3 DEF Resend
  <2>2. 0 \in 0 .. (MESSAGE_RESEND_TIME - 1)
    BY ResendAssumption
  <2> QED
    BY <2>1, <2>2 DEF Program
<1>4. CASE ~(counter >= MESSAGE_RESEND_TIME \/ r.dock_state \notin {"docking", "undocking"})
  <2>1. Resend(r) = [r EXCEPT !.resend_counter = counter]
    BY <1>4 DEF Resend
  <2>2. counter \in 0 .. (MESSAGE_RESEND_TIME - 1)
    BY <1>1, <1>2, <1>4
  <2> HIDE DEF counter
  <2> QED
    BY <2>1, <2>2 DEF Program
<1> QED
  BY <1>3, <1>4
----------------------------------------------------------------------------
(* Each call preserves the invariant *)

LEMMA InitIInv == Init => IInv
  BY ResendAssumption
  DEF Init, NewProgram, IInv, TypeOK, StateTable, HasPartner, Agreement, ConfirmIsFresh, Running,
      IsClientOf, Serves, Program, DockStates, Modes, MachineStates

\* A shuttle's program p has asked and nobody answers, or the program t was free and is
\* the server of p from now on.
Asked(p) ==
    /\ prog'[p].control_mode = "client" /\ prog'[p].dock_state = "undocked"
    /\ prog'[p].received_confirm = prog[p].received_confirm
    /\ \A q \in Programs \ {p} : prog'[q] = prog[q]

Connected(p, t) ==
    /\ Hears(t, p) /\ Idle(prog[t])
    /\ prog'[t].control_mode = "server" /\ prog'[t].dock_state = "docking"
    /\ prog'[t].tag_target = p
    /\ prog'[t].received_confirm = prog[t].received_confirm
    /\ prog'[p].control_mode = "client" /\ prog'[p].tag_target = t
    /\ prog'[p].dock_state = IF Hears(p, t) THEN "docking" ELSE "undocked"
    /\ prog'[p].received_confirm = prog[p].received_confirm
    /\ \A q \in Programs \ {p, t} : prog'[q] = prog[q]

LEMMA InitiateDockingDoes ==
    ASSUME IInv, NEW p \in Programs, NEW target \in Targets(p),
           InitiateDocking(p, target),
           prog[p].dock_state = "undocked", prog[p].control_mode # "server"
    PROVE  /\ TypeOK' /\ master' = master
           /\ Asked(p) \/ (target \in Programs \ {p} /\ Connected(p, target))
<1> DEFINE asking == [prog EXCEPT ![p].tag_target = target, ![p].control_mode = "client"]
           asked == send_docking_command(asking, p, target, "request_dock")
<1>0. /\ prog \in [Programs -> Program] /\ master \in [Programs -> MachineStates]
      /\ master' = master
      /\ target \in Programs \cup {NoTag} /\ target # p
  BY NoTagAssumption DEF IInv, TypeOK, InitiateDocking, Targets
<1>1. /\ asking \in [Programs -> Program]
      /\ asking[p] = [prog[p] EXCEPT !.tag_target = target, !.control_mode = "client"]
      /\ \A q \in Programs \ {p} : asking[q] = prog[q]
  <2>1. [prog[p] EXCEPT !.tag_target = target, !.control_mode = "client"] \in Program
    BY <1>0 DEF Program, Modes
  <2> QED
    BY <1>0, <2>1
<1>2. /\ asking[p].dock_state = "undocked"
      /\ asking[p].tag_target = target
      /\ asking[p].control_mode = "client"
      /\ asking[p].received_confirm = prog[p].received_confirm
  BY <1>0, <1>1 DEF Program
<1>3. prog' = request_dock(asking, p, target)
  BY DEF InitiateDocking, initiate_docking
<1> HIDE DEF asking
<1>4. target # NoTag => asking[target] = prog[target]
  BY <1>0, <1>1
<1>5. CASE Hears(target, p) /\ Idle(prog[target])
  <2>0. target \in Programs \ {p} /\ asking[target] = prog[target]
    BY <1>4, <1>5, NoTagAssumption DEF Hears
  <2>1. prog' = send_docking_command(asked, target, p, "confirm_dock")
    BY <1>3, <2>0, <1>5 DEF request_dock
  <2>2. /\ asked \in [Programs -> Program]
        /\ \A q \in Programs \ {target} : asked[q] = asking[q]
        /\ asked[target] = receive_signal(prog[target], p, "request_dock")
    <3>1. "request_dock" \in Commands BY DEF Commands
    <3>2. QED BY <1>1, <2>0, <1>5, <3>1, SendType
  <2>3. asked[target] = [prog[target] EXCEPT !.control_mode = "server",
                            !.dock_state = "docking", !.tag_target = p]
    BY <2>2, <1>5 DEF receive_signal, OnRequestDock
  <2> HIDE DEF asked
  <2>4. /\ prog' \in [Programs -> Program]
        /\ \A q \in Programs \ {p} : prog'[q] = asked[q]
        /\ ~Hears(p, target) => prog'[p] = asking[p]
        /\ Hears(p, target) => prog'[p] = receive_signal(asking[p], target, "confirm_dock")
    <3>1. "confirm_dock" \in Commands BY DEF Commands
    <3>2. QED BY <2>0, <2>1, <2>2, <3>1, SendType
  <2>5. Hears(p, target) => prog'[p] = [asking[p] EXCEPT !.dock_state = "docking"]
    BY <2>4, <1>2 DEF receive_signal, OnConfirmDock
  <2>6. /\ prog'[target].control_mode = "server"
        /\ prog'[target].dock_state = "docking"
        /\ prog'[target].tag_target = p
        /\ prog'[target].received_confirm = prog[target].received_confirm
    <3>1. prog'[target] = asked[target] /\ prog[target] \in Program
      BY <1>0, <2>0, <2>4
    <3> QED
      BY <2>3, <3>1 DEF Program
  <2>7. /\ prog'[p].control_mode = "client"
        /\ prog'[p].tag_target = target
        /\ prog'[p].dock_state = IF Hears(p, target) THEN "docking" ELSE "undocked"
        /\ prog'[p].received_confirm = prog[p].received_confirm
    BY <1>1, <1>2, <2>4, <2>5 DEF Program, DockStates, Modes
  <2>8. \A q \in Programs \ {p, target} : prog'[q] = prog[q]
    BY <2>0, <1>1, <2>2, <2>4
  <2>9. TypeOK'
    BY <1>0, <2>4 DEF TypeOK
  <2> QED
    BY <1>0, <1>5, <2>0, <2>6, <2>7, <2>8, <2>9 DEF Connected
<1>6. CASE ~(Hears(target, p) /\ Idle(prog[target]))
  <2>1. prog' = asking
    <3>1. CASE ~Hears(target, p)
      BY <1>0, <1>1, <1>3, <3>1, SendType DEF request_dock, Commands
    <3>2. CASE Hears(target, p) /\ ~Idle(prog[target])
      <4>1. receive_signal(asking[target], p, "request_dock") = asking[target]
        BY <1>4, <3>2, NoTagAssumption DEF Hears, receive_signal, OnRequestDock
      <4>2. asked = asking
        BY <1>1, <4>1 DEF send_docking_command
      <4> QED
        BY <1>3, <1>4, <3>2, <4>2, NoTagAssumption DEF request_dock, Hears
    <3> QED
      BY <1>6, <3>1, <3>2
  <2>2. /\ prog'[p].control_mode = "client"
        /\ prog'[p].dock_state = "undocked"
        /\ prog'[p].tag_target = target
        /\ prog'[p].received_confirm = prog[p].received_confirm
        /\ \A q \in Programs \ {p} : prog'[q] = prog[q]
    BY <1>1, <1>2, <2>1
  <2>3. TypeOK'
    BY <1>0, <1>1, <2>1 DEF TypeOK
  <2> QED
    BY <1>0, <2>2, <2>3 DEF Asked
<1> QED
  BY <1>5, <1>6

LEMMA InitiateDockingKeepsIInv ==
    ASSUME IInv, NEW p \in Programs, NEW target \in Targets(p),
           InitiateDocking(p, target),
           prog[p].dock_state = "undocked", prog[p].control_mode # "server"
    PROVE  IInv'
<1>0. TypeOK' /\ master' = master
  BY InitiateDockingDoes
<1>1. CASE target \in Programs \ {p} /\ Connected(p, target)
  <2>0. master \in [Programs -> MachineStates]
    BY DEF IInv, TypeOK
  <2>1. Hears(p, target) <=> {p, target} \subseteq Running
    BY <1>1, <2>0 DEF Connected, Hears, Running
  <2>2. StateTable'
    BY <1>1 DEF IInv, StateTable, Connected
  <2>3. HasPartner'
    BY <1>1 DEF IInv, HasPartner, Connected
  <2>4. ConfirmIsFresh'
    BY <1>1 DEF IInv, ConfirmIsFresh, Connected, Idle
  <2>5. Agreement'
    BY <1>0, <1>1, <2>1
    DEF IInv, Agreement, HasPartner, Running, Serves, IsClientOf, Idle, Connected
  <2> QED
    BY <1>0, <2>2, <2>3, <2>4, <2>5 DEF IInv
<1>2. CASE Asked(p)
  <2>1. StateTable' /\ HasPartner'
    BY <1>2 DEF IInv, StateTable, HasPartner, Asked
  <2>2. ConfirmIsFresh'
    BY <1>2 DEF IInv, ConfirmIsFresh, Asked
  <2>3. Agreement'
    BY <1>0, <1>2 DEF IInv, Agreement, Running, Serves, IsClientOf, Asked
  <2> QED
    BY <1>0, <2>1, <2>2, <2>3 DEF IInv
<1> QED
  BY <1>1, <1>2, InitiateDockingDoes

\* The client p leaves, and its server t with it if it heard.
Leaves(p, t) ==
    /\ prog'[p].control_mode = "client" /\ prog'[p].dock_state = "undocking"
    /\ prog'[p].tag_target = t /\ ~prog'[p].received_confirm
    /\ \A q \in Programs \ {p, t} : prog'[q] = prog[q]
    /\ IF Hears(t, p) /\ Serves(t, p) /\ prog[t].dock_state = "docked"
       THEN /\ prog'[t].control_mode = "server" /\ prog'[t].dock_state = "undocking"
            /\ prog'[t].tag_target = p
            /\ prog'[t].received_confirm = prog[t].received_confirm
       ELSE prog'[t] = prog[t]

LEMMA InitiateUndockingDoes ==
    ASSUME IInv, NEW p \in Programs, InitiateUndocking(p),
           prog[p].dock_state = "docked", prog[p].control_mode = "client"
    PROVE  /\ TypeOK' /\ master' = master
           /\ prog[p].tag_target \in Programs \ {p} /\ Leaves(p, prog[p].tag_target)
<1> DEFINE t == prog[p].tag_target
           leaving == [prog EXCEPT ![p].dock_state = "undocking"]
<1>0. /\ prog \in [Programs -> Program] /\ master \in [Programs -> MachineStates]
      /\ master' = master
      /\ t \in Programs \ {p}
      /\ ~prog[p].received_confirm
  BY DEF IInv, TypeOK, HasPartner, ConfirmIsFresh, InitiateUndocking
<1>1. /\ leaving \in [Programs -> Program]
      /\ leaving[p] = [prog[p] EXCEPT !.dock_state = "undocking"]
      /\ \A q \in Programs \ {p} : leaving[q] = prog[q]
  <2>1. [prog[p] EXCEPT !.dock_state = "undocking"] \in Program
    BY <1>0 DEF Program, DockStates
  <2> QED
    BY <1>0, <2>1
<1>2. prog' = send_docking_command(leaving, p, t, "request_undock")
  BY DEF InitiateUndocking, initiate_undocking
<1> HIDE DEF leaving, t
<1>3. /\ prog' \in [Programs -> Program]
      /\ \A q \in Programs \ {p, t} : prog'[q] = prog[q]
      /\ prog'[p] = leaving[p]
      /\ Hears(t, p) => prog'[t] = receive_signal(prog[t], p, "request_undock")
      /\ ~Hears(t, p) => prog'[t] = prog[t]
  <2> "request_undock" \in Commands /\ t \in Programs \cup {NoTag}
    BY <1>0 DEF Commands
  <2>1. leaving[t] = prog[t]
    BY <1>0, <1>1
  <2>2. /\ prog' \in [Programs -> Program]
        /\ \A q \in Programs \ {t} : prog'[q] = leaving[q]
        /\ ~Hears(t, p) => prog' = leaving
        /\ Hears(t, p) => prog'[t] = receive_signal(leaving[t], p, "request_undock")
    <3>1. /\ p \in Programs /\ t \in Programs \cup {NoTag}
          /\ "request_undock" \in Commands
          /\ leaving \in [Programs -> Program]
      BY <1>0, <1>1 DEF Commands
    <3> QED
      BY <3>1, <1>2, SendType
  <2> QED
    BY <1>0, <1>1, <2>1, <2>2
<1>4. /\ prog'[p].control_mode = "client"
      /\ prog'[p].dock_state = "undocking"
      /\ prog'[p].tag_target = t
      /\ ~prog'[p].received_confirm
  BY <1>0, <1>1, <1>3 DEF Program, t
<1>5. TypeOK'
  BY <1>0, <1>3 DEF TypeOK
<1>6. CASE Hears(t, p) /\ Serves(t, p) /\ prog[t].dock_state = "docked"
  <2>1. prog'[t] = [prog[t] EXCEPT !.dock_state = "undocking"]
    BY <1>3, <1>6 DEF receive_signal, OnRequestUndock, Serves
  <2>2. /\ prog'[t].control_mode = "server"
        /\ prog'[t].dock_state = "undocking"
        /\ prog'[t].tag_target = p
        /\ prog'[t].received_confirm = prog[t].received_confirm
    BY <1>0, <1>6, <2>1 DEF Program, Serves
  <2> QED
    BY <1>0, <1>3, <1>4, <1>5, <1>6, <2>2 DEF Leaves, t
<1>7. CASE ~(Hears(t, p) /\ Serves(t, p) /\ prog[t].dock_state = "docked")
  <2>1. prog'[t] = prog[t]
    BY <1>3, <1>7 DEF receive_signal, OnRequestUndock, Serves
  <2> QED
    BY <1>0, <1>3, <1>4, <1>5, <1>7, <2>1 DEF Leaves, t
<1> QED
  BY <1>6, <1>7

LEMMA InitiateUndockingKeepsIInv ==
    ASSUME IInv, NEW p \in Programs, InitiateUndocking(p),
           prog[p].dock_state = "docked", prog[p].control_mode = "client"
    PROVE  IInv'
<1> DEFINE t == prog[p].tag_target
<1>0. /\ TypeOK' /\ master' = master
      /\ t \in Programs \ {p} /\ Leaves(p, t)
      /\ prog \in [Programs -> Program] /\ master \in [Programs -> MachineStates]
  BY InitiateUndockingDoes DEF IInv, TypeOK
<1> HIDE DEF t
<1>1. CASE Hears(t, p) /\ Serves(t, p) /\ prog[t].dock_state = "docked"
  <2>1. StateTable' /\ HasPartner'
    BY <1>0, <1>1 DEF IInv, StateTable, HasPartner, Leaves
  <2>2. ConfirmIsFresh'
    BY <1>0, <1>1 DEF IInv, ConfirmIsFresh, Leaves
  <2>3. Agreement'
    BY <1>0, <1>1
    DEF IInv, Agreement, Running, Serves, IsClientOf, Hears, Leaves, t
  <2> QED
    BY <1>0, <2>1, <2>2, <2>3 DEF IInv
<1>2. CASE ~(Hears(t, p) /\ Serves(t, p) /\ prog[t].dock_state = "docked")
  <2>1. prog'[t] = prog[t]
    BY <1>0, <1>2 DEF Leaves
  <2>2. ~({p, t} \subseteq Running)
    BY <1>0, <1>2 DEF IInv, Agreement, Running, Serves, IsClientOf, Hears, t
  <2>3. StateTable' /\ HasPartner'
    BY <1>0, <2>1 DEF IInv, StateTable, HasPartner, Leaves
  <2>4. ConfirmIsFresh'
    BY <1>0, <2>1 DEF IInv, ConfirmIsFresh, Leaves
  <2>5. Agreement'
    BY <1>0, <2>1, <2>2
    DEF IInv, Agreement, Running, Serves, IsClientOf, Leaves, t
  <2> QED
    BY <1>0, <2>3, <2>4, <2>5 DEF IInv
<1> QED
  BY <1>1, <1>2

\* p is reset, and its partner t if it heard and p is its partner too.
Resets(p, t) ==
    /\ prog'[p] = reset(prog[p])
    /\ \A q \in Programs \ {p} :
          IF q = t /\ Hears(t, p) /\ prog[t].tag_target = p
          THEN prog'[q] = reset(prog[q]) ELSE prog'[q] = prog[q]

LEMMA ForceUndockDoes ==
    ASSUME IInv, NEW p \in Programs, ForceUndock(p)
    PROVE  TypeOK' /\ master' = master /\ Resets(p, prog[p].tag_target)
<1> DEFINE t == prog[p].tag_target
           told == send_docking_command(prog, p, t, "dock_error")
<1>0. /\ prog \in [Programs -> Program] /\ master \in [Programs -> MachineStates]
      /\ master' = master
      /\ t \in Programs \cup {NoTag}
      /\ prog' = [told EXCEPT ![p] = reset(prog[p])]
  BY DEF IInv, TypeOK, HasPartner, ForceUndock, force_undock, Program
<1>1. /\ told \in [Programs -> Program]
      /\ \A q \in Programs \ {t} : told[q] = prog[q]
      /\ ~Hears(t, p) => told = prog
      /\ Hears(t, p) => told[t] = receive_signal(prog[t], p, "dock_error")
  <2>1. "dock_error" \in Commands BY DEF Commands
  <2>2. p \in Programs /\ t \in Programs \cup {NoTag} /\ prog \in [Programs -> Program]
    BY <1>0
  <2> HIDE DEF t
  <2>3. QED BY <2>1, <2>2, SendType
<1> HIDE DEF told
<1>2. Hears(t, p) => told[t] = IF prog[t].tag_target = p THEN reset(prog[t]) ELSE prog[t]
  BY <1>1 DEF receive_signal, OnDockError
<1>3. reset(prog[p]) \in Program
  BY <1>0, ResetType
<1>4. /\ prog' \in [Programs -> Program]
      /\ prog'[p] = reset(prog[p])
      /\ \A q \in Programs \ {p, t} : prog'[q] = prog[q]
      /\ (t \in Programs \ {p} /\ ~(Hears(t, p) /\ prog[t].tag_target = p)) =>
            prog'[t] = prog[t]
      /\ (Hears(t, p) /\ prog[t].tag_target = p) => prog'[t] = reset(prog[t])
  BY <1>0, <1>1, <1>2, <1>3 DEF Hears
<1>5. TypeOK'
  BY <1>0, <1>4 DEF TypeOK
<1> QED
  BY <1>0, <1>4, <1>5 DEF Resets, Hears

LEMMA ForceUndockKeepsIInv ==
    ASSUME IInv, NEW p \in Programs, ForceUndock(p)
    PROVE  IInv'
<1> DEFINE t == prog[p].tag_target
<1>0. /\ prog \in [Programs -> Program] /\ master \in [Programs -> MachineStates]
      /\ TypeOK' /\ master' = master
      /\ Resets(p, t)
  BY ForceUndockDoes DEF IInv, TypeOK
<1> HIDE DEF t
<1>5. /\ prog'[p].control_mode = "none"
      /\ prog'[p].dock_state = "undocked"
      /\ prog'[p].tag_target = NoTag
      /\ ~prog'[p].received_confirm
  <2>1. prog'[p] = reset(prog[p]) /\ prog[p] \in Program
    BY <1>0 DEF Resets
  <2> QED
    BY <2>1, ResetType
<1>6. (Hears(t, p) /\ prog[t].tag_target = p) =>
        /\ prog'[t].control_mode = "none"
        /\ prog'[t].dock_state = "undocked"
        /\ prog'[t].tag_target = NoTag
        /\ ~prog'[t].received_confirm
  <2> SUFFICES ASSUME Hears(t, p), prog[t].tag_target = p
               PROVE  /\ prog'[t].control_mode = "none"
                      /\ prog'[t].dock_state = "undocked"
                      /\ prog'[t].tag_target = NoTag
                      /\ ~prog'[t].received_confirm
    OBVIOUS
  <2>1. prog[t] \in Program
    BY <1>0 DEF Hears
  <2>2. prog'[t] = reset(prog[t])
    BY <1>0 DEF Resets, Hears
  <2> QED
    BY <2>1, <2>2, ResetType
<1>7. \A q \in Programs \ {p} : q # t \/ ~(Hears(t, p) /\ prog[t].tag_target = p)
                                  => prog'[q] = prog[q]
  BY <1>0 DEF Resets
<1>8. TypeOK'
  BY <1>0
<1>9. StateTable' /\ HasPartner'
  BY <1>5, <1>6, <1>7 DEF IInv, StateTable, HasPartner, Hears
<1>10. ConfirmIsFresh'
  BY <1>5, <1>6, <1>7 DEF IInv, ConfirmIsFresh, Hears
<1>11. Agreement'
  BY <1>0, <1>5, <1>6, <1>7, NoTagAssumption
  DEF IInv, Agreement, StateTable, Running, Serves, IsClientOf, Hears, t, MachineStates
<1> QED
  BY <1>8, <1>9, <1>10, <1>11 DEF IInv

LEMMA MachineLossKeepsIInv ==
    ASSUME IInv, NEW p \in Programs, Destroy(p) \/ HardDelete(p)
    PROVE  IInv'
<1>1. /\ prog' = prog
      /\ master' \in [Programs -> MachineStates]
      /\ \A q \in Programs : master'[q] = "running" => master[q] = "running"
  BY DEF IInv, TypeOK, Destroy, HardDelete, MachineStates
<1>2. TypeOK'
  BY <1>1 DEF IInv, TypeOK
<1>3. StateTable' /\ HasPartner' /\ ConfirmIsFresh'
  BY <1>1 DEF IInv, StateTable, HasPartner, ConfirmIsFresh
<1>4. Agreement'
  BY <1>1 DEF IInv, Agreement, Running, Serves, IsClientOf
<1> QED
  BY <1>2, <1>3, <1>4 DEF IInv
----------------------------------------------------------------------------
(* Process() *)

\* The variables the invariant speaks of; the resend counting touches others.
SameCore(r, s) ==
    /\ r.tag_target = s.tag_target
    /\ r.dock_state = s.dock_state
    /\ r.control_mode = s.control_mode
    /\ r.received_confirm = s.received_confirm

\* What Process() does to the handshake variables of the caller p and its
\* partner t, case by case.
NothingSaid(p) ==
    \A q \in Programs : SameCore(prog'[q], prog[q])

ClientConfirms(p, t) ==
    /\ prog[p].control_mode = "client" /\ prog[p].dock_state \in {"docking", "undocking"}
    /\ \A q \in Programs \ {t} : SameCore(prog'[q], prog[q])
    /\ prog'[t].tag_target = prog[t].tag_target
    /\ prog'[t].dock_state = prog[t].dock_state
    /\ prog'[t].control_mode = prog[t].control_mode
    /\ prog'[t].received_confirm =>
          \/ prog[t].received_confirm
          \/ Serves(t, p) /\ prog[t].dock_state \in {"docking", "undocking"}

ServerFinishesDocking(p, t) ==
    /\ Serves(p, t) /\ prog[p].dock_state = "docking"
    /\ \A q \in Programs \ {p, t} : SameCore(prog'[q], prog[q])
    /\ prog'[p].control_mode = "server" /\ prog'[p].tag_target = t
    /\ prog'[p].dock_state = "docked" /\ ~prog'[p].received_confirm
    /\ t \notin Running => SameCore(prog'[t], prog[t])
    /\ t \in Running =>
          /\ prog'[t].control_mode = "client" /\ prog'[t].tag_target = p
          /\ prog'[t].dock_state = "docked"
          /\ ~prog'[t].received_confirm

ServerFinishesUndocking(p, t) ==
    /\ Serves(p, t) /\ prog[p].dock_state = "undocking"
    /\ \A q \in Programs \ {p, t} : SameCore(prog'[q], prog[q])
    /\ SameCore(prog'[p], reset(prog[p]))
    /\ t \notin Running => SameCore(prog'[t], prog[t])
    /\ t \in Running => SameCore(prog'[t], reset(prog[t]))

ProcessEffect(p) ==
    \/ NothingSaid(p)
    \/ \E t \in Programs \ {p} :
          \/ ClientConfirms(p, t)
          \/ ServerFinishesDocking(p, t)
          \/ ServerFinishesUndocking(p, t)

LEMMA EffectKeepsIInv ==
    ASSUME IInv, NEW p \in Running, ProcessEffect(p), master' = master, TypeOK'
    PROVE  IInv'
<1>0. p \in Programs
  BY DEF Running
<1>1. CASE NothingSaid(p)
  <2>1. StateTable' /\ HasPartner'
    BY <1>1 DEF IInv, StateTable, HasPartner, NothingSaid, SameCore
  <2>2. ConfirmIsFresh'
    BY <1>1 DEF IInv, ConfirmIsFresh, NothingSaid, SameCore
  <2>3. Agreement'
    BY <1>1 DEF IInv, Agreement, Running, IsClientOf, Serves, NothingSaid, SameCore
  <2> QED
    BY <1>0, <2>1, <2>2, <2>3 DEF IInv
<1>2. ASSUME NEW t \in Programs \ {p}, ClientConfirms(p, t)
      PROVE  IInv'
  <2>0. \A q \in Programs :
            /\ prog'[q].tag_target = prog[q].tag_target
            /\ prog'[q].dock_state = prog[q].dock_state
            /\ prog'[q].control_mode = prog[q].control_mode
    BY <1>2 DEF ClientConfirms, SameCore
  <2>1. StateTable' /\ HasPartner'
    BY <2>0 DEF IInv, StateTable, HasPartner
  <2>2. ConfirmIsFresh'
    BY <1>2, <2>0 DEF IInv, ConfirmIsFresh, ClientConfirms, SameCore, Serves
  <2>3. Agreement'
    BY <2>0 DEF IInv, Agreement, Running, IsClientOf, Serves
  <2> QED
    BY <1>0, <2>1, <2>2, <2>3 DEF IInv
<1>3. ASSUME NEW t \in Programs \ {p}, ServerFinishesDocking(p, t)
      PROVE  IInv'
  <2>1. /\ prog[p].control_mode = "server" /\ prog[p].tag_target = t
        /\ prog'[p].control_mode = "server" /\ prog'[p].tag_target = t
        /\ prog'[p].dock_state = "docked"
        /\ t \in Programs \ {p}
    BY <1>0, <1>3 DEF ServerFinishesDocking, Serves
  <2>2. t \in Running => /\ prog'[t].control_mode = "client" /\ prog'[t].tag_target = p
                         /\ prog'[t].dock_state = "docked"
    BY <1>0, <1>3 DEF ServerFinishesDocking, IsClientOf
  <2>3. \A q \in Programs \ {p} : q # t \/ t \notin Running =>
            /\ prog'[q].tag_target = prog[q].tag_target
            /\ prog'[q].dock_state = prog[q].dock_state
            /\ prog'[q].control_mode = prog[q].control_mode
    BY <1>0, <1>3 DEF ServerFinishesDocking, SameCore
  <2>4. ConfirmIsFresh'
    BY <1>0, <1>3 DEF IInv, ConfirmIsFresh, ServerFinishesDocking, SameCore
  <2>5. StateTable'
    BY <1>0, <2>1, <2>2, <2>3 DEF IInv, StateTable
  <2>6. HasPartner'
    BY <1>0, <2>1, <2>2, <2>3 DEF IInv, HasPartner
  <2>7. Agreement'
    BY <1>0, <2>1, <2>2, <2>3 DEF IInv, Agreement, Running, IsClientOf, Serves
  <2> QED
    BY <2>4, <2>5, <2>6, <2>7 DEF IInv
<1>4. ASSUME NEW t \in Programs \ {p}, ServerFinishesUndocking(p, t)
      PROVE  IInv'
  <2>0. /\ prog[p] \in Program /\ prog[t] \in Program
    BY <1>0, <1>4 DEF IInv, TypeOK
  <2>1. /\ prog'[p].control_mode = "none"
        /\ prog'[p].dock_state = "undocked"
        /\ prog'[p].tag_target = NoTag
        /\ prog'[p].received_confirm = FALSE
    BY <1>0, <1>4, <2>0, ResetType DEF ServerFinishesUndocking, SameCore
  <2>2. t \in Running => /\ prog'[t].control_mode = "none"
                         /\ prog'[t].dock_state = "undocked"
                         /\ prog'[t].tag_target = NoTag
                         /\ prog'[t].received_confirm = FALSE
    BY <1>0, <1>4, <2>0, ResetType DEF ServerFinishesUndocking, SameCore
  <2>3. /\ Serves(p, t)
        /\ \A q \in Programs \ {p} : q # t \/ t \notin Running => SameCore(prog'[q], prog[q])
    BY <1>0, <1>4 DEF ServerFinishesUndocking
  <2>4. StateTable' /\ HasPartner'
    BY <1>0, <2>1, <2>2, <2>3 DEF IInv, StateTable, HasPartner, SameCore
  <2>5. ConfirmIsFresh'
    BY <1>0, <2>1, <2>2, <2>3 DEF IInv, ConfirmIsFresh, SameCore
  <2>6. \A q \in Programs \ {p} : q # t \/ t \notin Running =>
            /\ prog'[q].tag_target = prog[q].tag_target
            /\ prog'[q].dock_state = prog[q].dock_state
            /\ prog'[q].control_mode = prog[q].control_mode
    BY <2>3 DEF SameCore
  <2>7. Agreement'
    BY <1>0, <2>1, <2>2, <2>3, <2>6, NoTagAssumption
    DEF IInv, Agreement, Running, IsClientOf, Serves
  <2> QED
    BY <2>4, <2>5, <2>7 DEF IInv
<1> QED
  BY <1>1, <1>2, <1>3, <1>4 DEF ProcessEffect

\* In a state of the invariant "handle invalid states" has nothing to repair.
LEMMA NothingToRepair ==
    ASSUME NEW p \in Programs, NEW ps \in [Programs -> Program],
           ps[p].control_mode = "server" => ps[p].dock_state # "undocked",
           ps[p].control_mode = "none" => ps[p].dock_state = "undocked"
    PROVE  Repair(ps, p) = ps
  BY DEF Repair

LEMMA ProcessDoes ==
    ASSUME IInv, NEW p \in Programs, NEW ready \in BOOLEAN, ProcessReady(p, ready)
    PROVE  TypeOK' /\ master' = master /\ p \in Running /\ ProcessEffect(p)
<1> DEFINE t == prog[p].tag_target
           shaken == IF ready THEN Handshake(p) ELSE prog
           counted == [shaken EXCEPT ![p] = Resend(shaken[p])]
           confirmed(command) == send_docking_command(prog, p, t, command)
<1>0. /\ prog \in [Programs -> Program] /\ master \in [Programs -> MachineStates]
      /\ prog[p] \in Program
      /\ master' = master /\ p \in Running
      /\ prog[p].dock_state # "undocked" => t \in Programs \ {p}
      /\ prog' = Repair(counted, p)
  BY DEF IInv, TypeOK, HasPartner, ProcessReady, Running
<1>1. ASSUME shaken \in [Programs -> Program],
             shaken[p].control_mode = "server" => shaken[p].dock_state # "undocked",
             shaken[p].control_mode = "none" => shaken[p].dock_state = "undocked"
      PROVE  /\ prog' \in [Programs -> Program]
             /\ \A q \in Programs \ {p} : prog'[q] = shaken[q]
             /\ SameCore(prog'[p], shaken[p])
  <2> HIDE DEF shaken
  <2>1. shaken[p] \in Program
    BY <1>1
  <2>2. Resend(shaken[p]) \in Program /\ SameCore(Resend(shaken[p]), shaken[p])
    BY <2>1, ResendType DEF SameCore
  <2>3. /\ counted \in [Programs -> Program]
        /\ counted[p] = Resend(shaken[p])
        /\ \A q \in Programs \ {p} : counted[q] = shaken[q]
    BY <1>1, <2>2
  <2> HIDE DEF counted
  <2>4. Repair(counted, p) = counted
    BY <1>1, <2>2, <2>3, NothingToRepair DEF SameCore
  <2> QED
    BY <1>0, <2>2, <2>3, <2>4
<1>2. ASSUME NEW command \in {"confirm_dock", "confirm_undock"}, t \in Programs \ {p}
      PROVE  /\ confirmed(command) \in [Programs -> Program]
             /\ confirmed(command)[p] = prog[p]
             /\ \A q \in Programs \ {t} : confirmed(command)[q] = prog[q]
             /\ t \notin Running => confirmed(command)[t] = prog[t]
             /\ t \in Running =>
                   confirmed(command)[t] = receive_signal(prog[t], p, command)
  <2>1. command \in Commands
    BY DEF Commands
  <2>2. Hears(t, p) <=> t \in Running
    BY <1>0, <1>2 DEF Hears, Running
  <2> QED
    BY <1>0, <1>2, <2>1, <2>2, SendType
<1>3. CASE shaken = prog
  <2> HIDE DEF shaken
  <2>1. /\ prog' \in [Programs -> Program]
        /\ \A q \in Programs \ {p} : prog'[q] = prog[q]
        /\ SameCore(prog'[p], prog[p])
    BY <1>0, <1>1, <1>3 DEF IInv, StateTable
  <2>2. NothingSaid(p)
    BY <2>1 DEF NothingSaid, SameCore
  <2>3. TypeOK'
    BY <1>0, <2>1 DEF TypeOK
  <2> QED
    BY <1>0, <2>2, <2>3 DEF ProcessEffect
<1>4. ASSUME NEW command \in {"confirm_dock", "confirm_undock"},
             prog[p].control_mode = "client",
             prog[p].dock_state = IF command = "confirm_dock" THEN "docking" ELSE "undocking",
             shaken = [confirmed(command) EXCEPT ![p].response_sent = TRUE]
      PROVE  TypeOK' /\ ProcessEffect(p)
  <2>1. /\ t \in Programs \ {p}
        /\ confirmed(command) \in [Programs -> Program]
        /\ confirmed(command)[p] = prog[p]
    BY <1>0, <1>2, <1>4
  <2> DEFINE sent == [prog[p] EXCEPT !.response_sent = TRUE]
  <2>2. sent \in Program /\ SameCore(sent, prog[p])
    BY <1>0 DEF Program, SameCore
  <2>3. shaken = [confirmed(command) EXCEPT ![p] = sent]
    BY <1>4, <2>1
  <2> HIDE DEF sent, confirmed, shaken
  <2>4. /\ shaken \in [Programs -> Program]
        /\ shaken[p] = sent
        /\ \A q \in Programs \ {p} : shaken[q] = confirmed(command)[q]
    BY <2>1, <2>2, <2>3
  <2>5. /\ prog' \in [Programs -> Program]
        /\ \A q \in Programs \ {p} : prog'[q] = confirmed(command)[q]
        /\ SameCore(prog'[p], prog[p])
    <3>1. shaken[p].control_mode = "client"
      BY <1>4, <2>2, <2>4 DEF SameCore
    <3> QED
      BY <1>1, <2>2, <2>4, <3>1 DEF SameCore
  <2>6. TypeOK'
    BY <1>0, <2>5 DEF TypeOK
  <2> HIDE DEF t
  <2>7. \A q \in Programs \ {t} : SameCore(prog'[q], prog[q])
    BY <1>2, <2>1, <2>5 DEF SameCore
  <2>8. CASE t \in Running
    <3>1. prog'[t] = receive_signal(prog[t], p, command)
      BY <1>2, <2>1, <2>5, <2>8
    <3>2. Serves(t, p) /\ prog[t].dock_state = prog[p].dock_state
      BY <1>0, <1>4, <2>8 DEF IInv, Agreement, IsClientOf, t
    <3>3. prog'[t] = [prog[t] EXCEPT !.received_confirm = TRUE]
      BY <1>4, <3>1, <3>2 DEF receive_signal, OnConfirmDock, OnConfirmUndock, Serves
    <3>4. prog[t] \in Program
      BY <1>0, <2>1
    <3>5. ClientConfirms(p, t)
      BY <1>4, <2>7, <3>2, <3>3, <3>4 DEF ClientConfirms, Program
    <3> QED
      BY <1>0, <2>1, <2>6, <3>5 DEF ProcessEffect
  <2>9. CASE t \notin Running
    <3>1. prog'[t] = prog[t]
      BY <1>2, <2>1, <2>5, <2>9
    <3>2. ClientConfirms(p, t)
      BY <1>4, <2>7, <3>1 DEF ClientConfirms
    <3> QED
      BY <1>0, <2>1, <2>6, <3>2 DEF ProcessEffect
  <2> QED
    BY <2>8, <2>9
<1>5. ASSUME prog[p].control_mode = "server", prog[p].dock_state = "docking",
             shaken = [confirmed("confirm_dock") EXCEPT
                         ![p] = [prog[p] EXCEPT !.dock_state = "docked",
                                    !.response_sent = FALSE, !.received_confirm = FALSE]]
      PROVE  TypeOK' /\ ProcessEffect(p)
  <2> DEFINE done == [prog[p] EXCEPT !.dock_state = "docked",
                         !.response_sent = FALSE, !.received_confirm = FALSE]
  <2>1. /\ t \in Programs \ {p}
        /\ confirmed("confirm_dock") \in [Programs -> Program]
    BY <1>0, <1>2, <1>5
  <2>2. /\ done \in Program /\ done.dock_state = "docked"
        /\ done.control_mode = "server" /\ done.tag_target = t
        /\ done.received_confirm = FALSE
    BY <1>0, <1>5 DEF Program, DockStates
  <2> HIDE DEF done, confirmed, shaken
  <2>3. /\ shaken \in [Programs -> Program]
        /\ shaken[p] = done
        /\ \A q \in Programs \ {p} : shaken[q] = confirmed("confirm_dock")[q]
    BY <1>5, <2>1, <2>2 DEF done
  <2>4. /\ prog' \in [Programs -> Program]
        /\ \A q \in Programs \ {p} : prog'[q] = confirmed("confirm_dock")[q]
        /\ SameCore(prog'[p], done)
    BY <1>1, <2>2, <2>3
  <2>5. TypeOK'
    BY <1>0, <2>4 DEF TypeOK
  <2> HIDE DEF t
  <2>6. /\ Serves(p, t)
        /\ \A q \in Programs \ {p, t} : SameCore(prog'[q], prog[q])
        /\ t \notin Running => SameCore(prog'[t], prog[t])
    BY <1>2, <1>5, <2>1, <2>4 DEF SameCore, Serves, t
  <2>7. ASSUME t \in Running
        PROVE  /\ prog'[t].control_mode = "client" /\ prog'[t].tag_target = p
               /\ prog'[t].dock_state = "docked"
               /\ ~prog'[t].received_confirm
    <3>1. prog'[t] = receive_signal(prog[t], p, "confirm_dock")
      BY <1>2, <2>1, <2>4, <2>7
    <3>2. IsClientOf(t, p) /\ prog[t].dock_state = "docking"
      BY <1>0, <1>5, <2>6, <2>7 DEF IInv, Agreement
    <3>3. prog'[t] = [prog[t] EXCEPT !.dock_state = "docked", !.response_sent = FALSE]
      BY <3>1, <3>2 DEF receive_signal, OnConfirmDock, IsClientOf
    <3>4. prog[t] \in Program /\ ~prog[t].received_confirm
      BY <1>0, <2>1, <3>2 DEF IInv, ConfirmIsFresh, IsClientOf
    <3> QED
      BY <3>2, <3>3, <3>4 DEF Program, IsClientOf
  <2>8. ServerFinishesDocking(p, t)
    BY <1>5, <2>2, <2>4, <2>6, <2>7 DEF ServerFinishesDocking, SameCore
  <2> QED
    BY <1>0, <2>1, <2>5, <2>8 DEF ProcessEffect
<1>6. ASSUME prog[p].control_mode = "server", prog[p].dock_state = "undocking",
             shaken = [confirmed("confirm_undock") EXCEPT ![p] = reset(prog[p])]
      PROVE  TypeOK' /\ ProcessEffect(p)
  <2>1. /\ t \in Programs \ {p}
        /\ confirmed("confirm_undock") \in [Programs -> Program]
    BY <1>0, <1>2, <1>6
  <2>2. /\ reset(prog[p]) \in Program
        /\ reset(prog[p]).dock_state = "undocked"
        /\ reset(prog[p]).control_mode = "none"
    BY <1>0, ResetType
  <2> HIDE DEF confirmed, shaken
  <2>3. /\ shaken \in [Programs -> Program]
        /\ shaken[p] = reset(prog[p])
        /\ \A q \in Programs \ {p} : shaken[q] = confirmed("confirm_undock")[q]
    BY <1>6, <2>1, <2>2
  <2>4. /\ prog' \in [Programs -> Program]
        /\ \A q \in Programs \ {p} : prog'[q] = confirmed("confirm_undock")[q]
        /\ SameCore(prog'[p], reset(prog[p]))
    BY <1>1, <2>2, <2>3
  <2>5. TypeOK'
    BY <1>0, <2>4 DEF TypeOK
  <2> HIDE DEF t
  <2>6. /\ Serves(p, t)
        /\ \A q \in Programs \ {p, t} : SameCore(prog'[q], prog[q])
        /\ t \notin Running => SameCore(prog'[t], prog[t])
    BY <1>2, <1>6, <2>1, <2>4 DEF SameCore, Serves, t
  <2>7. ASSUME t \in Running
        PROVE  SameCore(prog'[t], reset(prog[t]))
    <3>1. prog'[t] = receive_signal(prog[t], p, "confirm_undock")
      BY <1>2, <2>1, <2>4, <2>7
    <3>2. IsClientOf(t, p) /\ prog[t].dock_state = "undocking"
      BY <1>0, <1>6, <2>6, <2>7 DEF IInv, Agreement
    <3>3. prog'[t] = reset(prog[t])
      BY <3>1, <3>2 DEF receive_signal, OnConfirmUndock, IsClientOf
    <3> QED
      BY <3>3 DEF SameCore
  <2>8. ServerFinishesUndocking(p, t)
    BY <1>6, <2>4, <2>6, <2>7 DEF ServerFinishesUndocking
  <2> QED
    BY <1>0, <2>1, <2>5, <2>8 DEF ProcessEffect
<1>7. TypeOK' /\ ProcessEffect(p)
  <2>1. CASE ~ready
    BY <1>3, <2>1
  <2>2. CASE ready
    <3>1. shaken = Handshake(p)
      BY <2>2
    <3> HIDE DEF shaken, t
    <3>2. \/ shaken = prog
          \/ /\ prog[p].control_mode = "client" /\ prog[p].dock_state = "docking"
             /\ shaken = [confirmed("confirm_dock") EXCEPT ![p].response_sent = TRUE]
          \/ /\ prog[p].control_mode = "client" /\ prog[p].dock_state = "undocking"
             /\ shaken = [confirmed("confirm_undock") EXCEPT ![p].response_sent = TRUE]
          \/ /\ prog[p].control_mode = "server" /\ prog[p].dock_state = "docking"
             /\ shaken = [confirmed("confirm_dock") EXCEPT
                            ![p] = [prog[p] EXCEPT !.dock_state = "docked",
                                       !.response_sent = FALSE, !.received_confirm = FALSE]]
          \/ /\ prog[p].control_mode = "server" /\ prog[p].dock_state = "undocking"
             /\ shaken = [confirmed("confirm_undock") EXCEPT ![p] = reset(prog[p])]
      BY <3>1 DEF Handshake, t
    <3> HIDE DEF confirmed
    <3> QED
      BY <1>3, <1>4, <1>5, <1>6, <3>2
  <2> QED
    BY <2>1, <2>2
<1> QED
  BY <1>0, <1>7

LEMMA ProcessKeepsIInv ==
    ASSUME IInv, NEW p \in Programs, NEW ready \in BOOLEAN, ProcessReady(p, ready)
    PROVE  IInv'
  BY ProcessDoes, EffectKeepsIInv
----------------------------------------------------------------------------
(* The theorems *)

LEMMA NextKeepsIInv == IInv /\ [Next]_vars => IInv'
<1> SUFFICES ASSUME IInv, [Next]_vars PROVE IInv'
  OBVIOUS
<1>1. CASE UNCHANGED vars
  BY <1>1 DEF vars, IInv, TypeOK, StateTable, HasPartner, Agreement, ConfirmIsFresh,
              Running, IsClientOf, Serves
<1>2. CASE Next
  <2> SUFFICES ASSUME NEW p \in Programs,
                      \/ \E target \in Targets(p) : InitiateDocking(p, target)
                      \/ InitiateUndocking(p)
                      \/ ForceUndock(p)
                      \/ Process(p)
                      \/ Destroy(p)
                      \/ HardDelete(p)
               PROVE  IInv'
    BY <1>2 DEF Next
  <2>0. UNCHANGED vars => IInv'
    BY <1>1
  <2>1. ASSUME NEW target \in Targets(p), InitiateDocking(p, target)
        PROVE  IInv'
    <3>1. CASE prog[p].dock_state = "undocked" /\ prog[p].control_mode # "server"
      BY <2>1, <3>1, InitiateDockingKeepsIInv
    <3>2. CASE ~(prog[p].dock_state = "undocked" /\ prog[p].control_mode # "server")
      BY <2>0, <2>1, <3>2 DEF InitiateDocking, initiate_docking, vars
    <3> QED
      BY <3>1, <3>2
  <2>2. CASE InitiateUndocking(p)
    <3>1. CASE prog[p].dock_state = "docked" /\ prog[p].control_mode = "client"
      BY <2>2, <3>1, InitiateUndockingKeepsIInv
    <3>2. CASE ~(prog[p].dock_state = "docked" /\ prog[p].control_mode = "client")
      BY <2>0, <2>2, <3>2 DEF InitiateUndocking, initiate_undocking, vars
    <3> QED
      BY <3>1, <3>2
  <2>3. CASE ForceUndock(p)
    BY <2>3, ForceUndockKeepsIInv
  <2>4. CASE Process(p)
    BY <2>4, ProcessKeepsIInv DEF Process
  <2>5. CASE Destroy(p) \/ HardDelete(p)
    BY <2>5, MachineLossKeepsIInv
  <2> QED
    BY <2>1, <2>2, <2>3, <2>4, <2>5
<1> QED
  BY <1>1, <1>2

LEMMA Invariance == Spec => []IInv
  BY InitIInv, NextKeepsIInv, PTL DEF Spec

\* Every docking program keeps variables of their types, whoever calls it.
THEOREM TypeCorrect == Spec => []TypeOK
<1>1. IInv => TypeOK
  BY DEF IInv
<1> QED
  BY <1>1, Invariance, PTL

\* The rows of the state table that "should never happen" never do, so the
\* repair of invalid states at the end of Process() is never needed.
THEOREM StateTableHolds == Spec => []StateTable
<1>1. IInv => StateTable
  BY DEF IInv
<1> QED
  BY <1>1, Invariance, PTL

\* Two running controllers in one handshake always agree on who is client, who
\* is server and how far the docking is, for any number of programs around them.
THEOREM AgreementHolds == Spec => []Agreement
<1>1. IInv => Agreement
  BY DEF IInv
<1> QED
  BY <1>1, Invariance, PTL

\* The confirmation that completed a docking never completes an undocking.
THEOREM ConfirmIsFreshHolds == Spec => []ConfirmIsFresh
<1>1. IInv => ConfirmIsFresh
  BY DEF IInv
<1> QED
  BY <1>1, Invariance, PTL

\* What a pair of ports can rely on at any moment: with the types and the state table, all
\* of the above but the confirmation.
THEOREM PortsAgreeHolds == Spec => []PortsAgree
<1>1. IInv => PortsAgree
  BY DEF IInv, PortsAgree
<1> QED
  BY <1>1, Invariance, PTL
----------------------------------------------------------------------------
(* The links between running programs, and the abstract ones *)

Joined(c, s) == c \in Running /\ s \in Running /\ IsClientOf(c, s)
LinkOf(c, s, phase) == [client |-> c, server |-> s, phase |-> phase]

LEMMA LinksAre ==
    /\ \A l : l \in Links <=>
          \E c, s \in Programs : Joined(c, s) /\ l = LinkOf(c, s, prog[c].dock_state)
    /\ \A l : l \in Links' <=>
          \E c, s \in Programs : Joined(c, s)' /\ l = LinkOf(c, s, prog'[c].dock_state)
<1>1. \A l : l \in Links <=>
          \E c, s \in Programs : Joined(c, s) /\ l = LinkOf(c, s, prog[c].dock_state)
  BY DEF Links, Link, LinkOf, Joined, IsClientOf, Running
<1>2. \A l : l \in Links' <=>
          \E c, s \in Programs : Joined(c, s)' /\ l = LinkOf(c, s, prog'[c].dock_state)
  BY DEF Links, Link, LinkOf, Joined, IsClientOf, Running
<1> QED
  BY <1>1, <1>2

\* A program has one partner and one part in it.
LEMMA JoinedOnce ==
    ASSUME IInv, NEW c \in Programs, NEW s \in Programs, Joined(c, s)
    PROVE  /\ c # s /\ prog[c].dock_state \in {"docking", "docked", "undocking"}
           /\ prog[c].control_mode = "client" /\ Serves(s, c)
           /\ prog[s].dock_state = prog[c].dock_state
           /\ \A x \in Programs :
                 /\ Joined(c, x) => x = s
                 /\ Joined(x, s) => x = c
                 /\ ~Joined(s, x) /\ ~Joined(x, c)
<1>1. prog[c] \in Program
  BY DEF IInv, TypeOK
<1>2. prog[c].dock_state \in DockStates
  BY <1>1 DEF Program
<1>3. \A x, y \in Programs : Joined(x, y) =>
         /\ prog[x].control_mode = "client" /\ prog[x].tag_target = y
         /\ prog[y].control_mode = "server" /\ prog[y].tag_target = x
         /\ prog[y].dock_state = prog[x].dock_state
  BY DEF IInv, Agreement, Joined, IsClientOf, Serves
<1> QED
  BY <1>2, <1>3 DEF DockStates, Joined, IsClientOf, Serves

\* Where at most the link of a client a changes, the links change as little.
LEMMA OneLinkChanges ==
    ASSUME IInv, IInv', NEW a \in Programs,
           \A c \in Programs \ {a}, s \in Programs :
              /\ Joined(c, s)' <=> Joined(c, s)
              /\ Joined(c, s) => prog'[c].dock_state = prog[c].dock_state
    PROVE  /\ (\A s \in Programs : ~Joined(a, s) /\ ~Joined(a, s)') => Links' = Links
           /\ \A s \in Programs :
                 /\ (\A x \in Programs : ~Joined(a, x)) /\ Joined(a, s)' =>
                       Links' = Links \cup {LinkOf(a, s, prog'[a].dock_state)}
                 /\ Joined(a, s) /\ Joined(a, s)' =>
                       Links' = (Links \ {LinkOf(a, s, prog[a].dock_state)})
                                   \cup {LinkOf(a, s, prog'[a].dock_state)}
                 /\ Joined(a, s) /\ (\A x \in Programs : ~Joined(a, x)') =>
                       Links' = Links \ {LinkOf(a, s, prog[a].dock_state)}
<1> DEFINE Before(l) == \E c, s \in Programs :
                           Joined(c, s) /\ l = LinkOf(c, s, prog[c].dock_state)
           After(l) == \E c, s \in Programs :
                           Joined(c, s)' /\ l = LinkOf(c, s, prog'[c].dock_state)
<1>1. \A l : (l \in Links <=> Before(l)) /\ (l \in Links' <=> After(l))
  BY LinksAre
<1>2. \A c, s, x, y, f, g : LinkOf(c, s, f) = LinkOf(x, y, g) <=> c = x /\ s = y /\ f = g
  BY DEF LinkOf
<1>3. \A c \in Programs \ {a}, s \in Programs :
         /\ Joined(c, s)' <=> Joined(c, s)
         /\ Joined(c, s) =>
               LinkOf(c, s, prog'[c].dock_state) = LinkOf(c, s, prog[c].dock_state)
  OBVIOUS
<1>4. /\ \A s, x \in Programs : Joined(a, s) /\ Joined(a, x) => x = s
      /\ \A s, x \in Programs : Joined(a, s)' /\ Joined(a, x)' => x = s
  BY DEF Joined, IsClientOf
<1>5. ASSUME \A s \in Programs : ~Joined(a, s) /\ ~Joined(a, s)'
      PROVE  Links' = Links
  <2>1. \A l : Before(l) <=> After(l)
    BY <1>3, <1>5, Zenon
  <2> QED
    BY <1>1, <2>1
<1>6. ASSUME NEW s \in Programs, \A x \in Programs : ~Joined(a, x), Joined(a, s)'
      PROVE  Links' = Links \cup {LinkOf(a, s, prog'[a].dock_state)}
  <2>1. \A l : After(l) <=> Before(l) \/ l = LinkOf(a, s, prog'[a].dock_state)
    BY <1>3, <1>4, <1>6
  <2> QED
    BY <1>1, <2>1
<1>7. ASSUME NEW s \in Programs, Joined(a, s)
      PROVE  \A l : /\ Before(l)
                    /\ l # LinkOf(a, s, prog[a].dock_state)
                    <=> \E c \in Programs \ {a}, x \in Programs :
                           Joined(c, x) /\ l = LinkOf(c, x, prog[c].dock_state)
  BY <1>2, <1>4, <1>7
<1>8. ASSUME NEW s \in Programs, Joined(a, s), Joined(a, s)'
      PROVE  Links' = (Links \ {LinkOf(a, s, prog[a].dock_state)})
                         \cup {LinkOf(a, s, prog'[a].dock_state)}
  <2>1. \A l : After(l) <=> \/ l = LinkOf(a, s, prog'[a].dock_state)
                            \/ \E c \in Programs \ {a}, x \in Programs :
                                  Joined(c, x) /\ l = LinkOf(c, x, prog[c].dock_state)
    BY <1>3, <1>4, <1>8
  <2> QED
    BY <1>1, <1>7, <1>8, <2>1
<1>9. ASSUME NEW s \in Programs, Joined(a, s), \A x \in Programs : ~Joined(a, x)'
      PROVE  Links' = Links \ {LinkOf(a, s, prog[a].dock_state)}
  <2>1. \A l : After(l) <=> \E c \in Programs \ {a}, x \in Programs :
                               Joined(c, x) /\ l = LinkOf(c, x, prog[c].dock_state)
    BY <1>3, <1>9
  <2> QED
    BY <1>1, <1>7, <1>9, <2>1
<1> QED
  BY <1>5, <1>6, <1>8, <1>9

\* ... and that is an abstract step if the link of a goes where links may go.
LinkGoes(a) ==
    \/ \A s \in Programs : ~Joined(a, s) /\ ~Joined(a, s)'
    \/ \E s \in Programs :
          \/ /\ \A x \in Programs : ~Joined(a, x) /\ ~Joined(x, a)
             /\ \A x \in Programs : ~Joined(s, x) /\ ~Joined(x, s)
             /\ Joined(a, s)' /\ prog'[a].dock_state = "docking"
          \/ /\ Joined(a, s) /\ Joined(a, s)'
             /\ \/ prog'[a].dock_state = prog[a].dock_state
                \/ prog[a].dock_state = "docking" /\ prog'[a].dock_state = "docked"
                \/ prog[a].dock_state = "docked" /\ prog'[a].dock_state = "undocking"
          \/ Joined(a, s) /\ \A x \in Programs : ~Joined(a, x)'

LEMMA OneLinkGoes ==
    ASSUME IInv, IInv', NEW a \in Programs, LinkGoes(a),
           \A c \in Programs \ {a}, s \in Programs :
              /\ Joined(c, s)' <=> Joined(c, s)
              /\ Joined(c, s) => prog'[c].dock_state = prog[c].dock_state
    PROVE  Abstract!Next \/ Links' = Links
<1>1. CASE \A s \in Programs : ~Joined(a, s) /\ ~Joined(a, s)'
  BY <1>1, OneLinkChanges
<1>2. ASSUME NEW s \in Programs,
             \A x \in Programs : ~Joined(a, x) /\ ~Joined(x, a),
             \A x \in Programs : ~Joined(s, x) /\ ~Joined(x, s),
             Joined(a, s)', prog'[a].dock_state = "docking"
      PROVE  Abstract!Next
  <2>1. Links' = Links \cup {LinkOf(a, s, "docking")}
    BY <1>2, OneLinkChanges
  <2>2. a # s
    BY <1>2 DEF IInv, HasPartner, Joined, IsClientOf
  <2>3. \A l \in Links : a \notin Abstract!Ends(l) /\ s \notin Abstract!Ends(l)
    BY <1>2, LinksAre DEF LinkOf, Abstract!Ends
  <2>4. Abstract!Connect(a, s)
    BY <2>1, <2>2, <2>3 DEF Abstract!Connect, Abstract!Free, LinkOf
  <2> QED
    BY <2>4 DEF Abstract!Next
<1>3. ASSUME NEW s \in Programs, Joined(a, s), Joined(a, s)'
      PROVE  /\ LinkOf(a, s, prog[a].dock_state) \in Links
             /\ Links' = (Links \ {LinkOf(a, s, prog[a].dock_state)})
                            \cup {LinkOf(a, s, prog'[a].dock_state)}
  BY <1>3, LinksAre, OneLinkChanges
<1>4. ASSUME NEW s \in Programs, Joined(a, s), Joined(a, s)',
             prog'[a].dock_state = prog[a].dock_state
      PROVE  Links' = Links
  BY <1>3, <1>4
<1>5. ASSUME NEW s \in Programs, Joined(a, s), Joined(a, s)',
             NEW from, NEW to,
             prog[a].dock_state = from, prog'[a].dock_state = to
      PROVE  \E l \in Links : Abstract!Advance(l, from, to)
  <2>1. [LinkOf(a, s, from) EXCEPT !.phase = to] = LinkOf(a, s, to)
        /\ LinkOf(a, s, from).phase = from
    BY DEF LinkOf
  <2> QED
    BY <1>3, <1>5, <2>1 DEF Abstract!Advance
<1>6. ASSUME NEW s \in Programs, Joined(a, s), \A x \in Programs : ~Joined(a, x)'
      PROVE  Abstract!Next
  <2>1. LinkOf(a, s, prog[a].dock_state) \in Links
        /\ Links' = Links \ {LinkOf(a, s, prog[a].dock_state)}
    BY <1>6, LinksAre, OneLinkChanges
  <2> QED
    BY <2>1 DEF Abstract!Next, Abstract!Break
<1>7. ASSUME NEW s \in Programs, Joined(a, s), Joined(a, s)',
             \/ prog[a].dock_state = "docking" /\ prog'[a].dock_state = "docked"
             \/ prog[a].dock_state = "docked" /\ prog'[a].dock_state = "undocking"
      PROVE  Abstract!Next
  BY <1>5, <1>7 DEF Abstract!Next
<1> QED
  BY <1>1, <1>2, <1>4, <1>6, <1>7 DEF LinkGoes
----------------------------------------------------------------------------
(* Every step is one of a link, or of none *)

LEMMA NothingChanges ==
    ASSUME UNCHANGED vars
    PROVE  Links' = Links
  BY DEF vars, Links, Link, Running, IsClientOf

LEMMA InitiateDockingLinks ==
    ASSUME IInv, IInv', NEW p \in Programs, NEW target \in Targets(p),
           InitiateDocking(p, target)
    PROVE  Abstract!Next \/ Links' = Links
<1>1. CASE ~(prog[p].dock_state = "undocked" /\ prog[p].control_mode # "server")
  BY <1>1, NothingChanges DEF InitiateDocking, initiate_docking, vars
<1>2. CASE prog[p].dock_state = "undocked" /\ prog[p].control_mode # "server"
  <2>0. master' = master /\ Running' = Running
    BY <1>2, InitiateDockingDoes DEF Running
  <2>1. \A x \in Programs : ~Joined(p, x) /\ ~Joined(x, p)
    BY <1>2, JoinedOnce DEF Joined, IsClientOf, Serves
  <2>2. CASE Asked(p)
    <3>1. \A c \in Programs \ {p}, s \in Programs :
             /\ Joined(c, s)' <=> Joined(c, s)
             /\ Joined(c, s) => prog'[c].dock_state = prog[c].dock_state
      BY <2>0, <2>2 DEF Asked, Joined, IsClientOf
    <3>2. LinkGoes(p)
      BY <2>1, <2>2 DEF Asked, LinkGoes, Joined, IsClientOf
    <3> QED
      BY <3>1, <3>2, OneLinkGoes
  <2>3. CASE target \in Programs \ {p} /\ Connected(p, target)
    <3>1. \A x \in Programs : ~Joined(target, x) /\ ~Joined(x, target)
      BY <2>3, JoinedOnce DEF Connected, Idle, Joined, IsClientOf, Serves
    <3>2. \A c \in Programs \ {p}, s \in Programs :
             /\ Joined(c, s)' <=> Joined(c, s)
             /\ Joined(c, s) => prog'[c].dock_state = prog[c].dock_state
      BY <2>0, <2>3, <3>1 DEF Connected, Joined, IsClientOf
    <3>3. \A x \in Programs : Joined(p, x)' =>
             x = target /\ prog'[p].dock_state = "docking"
      BY <2>3 DEF Connected, Joined, IsClientOf
    <3>4. LinkGoes(p)
      BY <2>1, <2>3, <3>1, <3>3 DEF LinkGoes
    <3> QED
      BY <3>2, <3>4, OneLinkGoes
  <2> QED
    BY <1>2, <2>2, <2>3, InitiateDockingDoes
<1> QED
  BY <1>1, <1>2

LEMMA InitiateUndockingLinks ==
    ASSUME IInv, IInv', NEW p \in Programs, InitiateUndocking(p)
    PROVE  Abstract!Next \/ Links' = Links
<1>1. CASE ~(prog[p].dock_state = "docked" /\ prog[p].control_mode = "client")
  BY <1>1, NothingChanges DEF InitiateUndocking, initiate_undocking, vars
<1>2. CASE prog[p].dock_state = "docked" /\ prog[p].control_mode = "client"
  <2> DEFINE t == prog[p].tag_target
  <2>0. t \in Programs \ {p} /\ Leaves(p, t) /\ Running' = Running
    BY <1>2, InitiateUndockingDoes DEF Running
  <2>1. \A x \in Programs : (Joined(p, x)' <=> Joined(p, x)) /\ (Joined(p, x) => x = t)
    BY <1>2, <2>0 DEF Leaves, Joined, IsClientOf
  <2> HIDE DEF t
  <2>2. \A c \in Programs \ {p}, s \in Programs :
           /\ Joined(c, s)' <=> Joined(c, s)
           /\ Joined(c, s) => prog'[c].dock_state = prog[c].dock_state
    BY <2>0 DEF Leaves, Joined, IsClientOf, Serves
  <2>3. LinkGoes(p)
    BY <1>2, <2>0, <2>1 DEF Leaves, LinkGoes
  <2> QED
    BY <2>2, <2>3, OneLinkGoes
<1> QED
  BY <1>1, <1>2

\* A client of a reset program, or one that is reset itself, is in no link.
LEMMA ForceUndockLinks ==
    ASSUME IInv, IInv', NEW p \in Programs, ForceUndock(p)
    PROVE  Abstract!Next \/ Links' = Links
<1> DEFINE t == prog[p].tag_target
<1>0. Resets(p, t) /\ Running' = Running /\ prog \in [Programs -> Program]
      /\ master \in [Programs -> MachineStates]
  BY ForceUndockDoes DEF Running, IInv, TypeOK
<1>1. \A q \in Programs :
         \/ /\ q = p \/ (q = t /\ Hears(t, p) /\ prog[t].tag_target = p)
            /\ prog'[q].dock_state = "undocked"
         \/ q # p /\ prog'[q] = prog[q]
  <2>1. \A q \in Programs : reset(prog[q]).dock_state = "undocked"
    BY <1>0, ResetType
  <2> QED
    BY <1>0, <2>1 DEF Resets
<1>2. \A q, x \in Programs : Joined(q, x)' => Joined(q, x) /\ prog'[q] = prog[q]
  BY <1>0, <1>1 DEF Joined, IsClientOf
<1>3. ASSUME NEW c \in Programs, NEW s \in Programs, Joined(c, s), ~Joined(c, s)'
      PROVE  c = p \/ (s = p /\ c = t)
  <2>1. prog'[c] # prog[c]
    BY <1>0, <1>3 DEF Joined, IsClientOf
  <2>2. CASE c = t /\ prog[t].tag_target = p
    BY <1>3, <2>2 DEF Joined, IsClientOf
  <2> HIDE DEF t
  <2> QED
    BY <1>1, <2>1, <2>2
<1> HIDE DEF t
<1>4. CASE \E s \in Programs : Joined(p, s)
  <2>1. \A x \in Programs : ~Joined(x, p)
    BY <1>4, JoinedOnce
  <2>2. \A c \in Programs \ {p}, s \in Programs :
           /\ Joined(c, s)' <=> Joined(c, s)
           /\ Joined(c, s) => prog'[c].dock_state = prog[c].dock_state
    BY <1>2, <1>3, <2>1
  <2>3. \A x \in Programs : ~Joined(p, x)'
    BY <1>1 DEF Joined, IsClientOf
  <2>4. LinkGoes(p)
    BY <1>4, <2>3 DEF LinkGoes
  <2> QED
    BY <2>2, <2>4, OneLinkGoes
<1>5. CASE \E c \in Programs : Joined(c, p)
  <2>1. PICK c \in Programs : Joined(c, p)
    BY <1>5
  <2>2. c # p /\ \A x \in Programs : ~Joined(p, x) /\ (Joined(c, x) => x = p)
    BY <2>1, JoinedOnce
  <2>3. c = t /\ prog[t].tag_target = p /\ Hears(t, p)
    <3>1. Serves(p, c) /\ prog[c].tag_target = p
      BY <2>1, JoinedOnce DEF Joined, IsClientOf
    <3>2. master[c] = "running" /\ master[p] = "running"
      BY <2>1 DEF Joined, Running
    <3> QED
      BY <2>2, <3>1, <3>2 DEF Serves, Hears, t
  <2>4. prog'[c].dock_state = "undocked"
    <3>1. prog'[c] = reset(prog[c]) /\ prog[c] \in Program
      BY <1>0, <2>2, <2>3 DEF Resets
    <3> QED
      BY <3>1, ResetType
  <2>5. \A x \in Programs : ~Joined(c, x)'
    BY <2>4 DEF Joined, IsClientOf
  <2>6. \A q \in Programs \ {c}, s \in Programs :
           /\ Joined(q, s)' <=> Joined(q, s)
           /\ Joined(q, s) => prog'[q].dock_state = prog[q].dock_state
    BY <1>2, <1>3, <2>2, <2>3
  <2>7. LinkGoes(c)
    BY <2>1, <2>5 DEF LinkGoes
  <2> QED
    BY <2>6, <2>7, OneLinkGoes
<1>6. CASE \A x \in Programs : ~Joined(p, x) /\ ~Joined(x, p)
  <2>1. \A c, s \in Programs :
           /\ Joined(c, s)' <=> Joined(c, s)
           /\ Joined(c, s) => prog'[c].dock_state = prog[c].dock_state
    BY <1>2, <1>3, <1>6
  <2>2. LinkGoes(p)
    BY <1>6, <2>1 DEF LinkGoes
  <2> QED
    BY <2>1, <2>2, OneLinkGoes
<1> QED
  BY <1>4, <1>5, <1>6

LEMMA ProcessLinks ==
    ASSUME IInv, IInv', NEW p \in Programs, NEW ready \in BOOLEAN, ProcessReady(p, ready)
    PROVE  Abstract!Next \/ Links' = Links
<1>0. ProcessEffect(p) /\ p \in Running /\ Running' = Running
  BY ProcessDoes DEF Running
<1>1. ASSUME \A q \in Programs :
                /\ prog'[q].control_mode = prog[q].control_mode
                /\ prog'[q].dock_state = prog[q].dock_state
                /\ prog'[q].tag_target = prog[q].tag_target
      PROVE  Links' = Links
  <2>1. \A c, s \in Programs : Joined(c, s)' <=> Joined(c, s)
    BY <1>0, <1>1 DEF Joined, IsClientOf
  <2>2. \A c, s \in Programs : LinkOf(c, s, prog'[c].dock_state) = LinkOf(c, s, prog[c].dock_state)
    BY <1>1
  <2> QED
    BY <2>1, <2>2, LinksAre
<1>2. CASE NothingSaid(p)
  BY <1>1, <1>2 DEF NothingSaid, SameCore
<1>3. ASSUME NEW t \in Programs \ {p}, ClientConfirms(p, t)
      PROVE  Links' = Links
  BY <1>1, <1>3 DEF ClientConfirms, SameCore
<1>4. ASSUME NEW t \in Programs \ {p}, Serves(p, t), t \notin Running,
             \A q \in Programs \ {p} : SameCore(prog'[q], prog[q]),
             prog'[p].control_mode # "client"
      PROVE  Links' = Links
  <2>1. \A c, s \in Programs :
           /\ Joined(c, s)' <=> Joined(c, s)
           /\ Joined(c, s) => prog'[c].dock_state = prog[c].dock_state
    BY <1>0, <1>4 DEF SameCore, Joined, IsClientOf, Serves
  <2>2. \A c, s \in Programs : Joined(c, s) =>
           LinkOf(c, s, prog'[c].dock_state) = LinkOf(c, s, prog[c].dock_state)
    BY <2>1
  <2>3. \A l : (\E c, s \in Programs : Joined(c, s)' /\ l = LinkOf(c, s, prog'[c].dock_state))
               <=> \E c, s \in Programs : Joined(c, s) /\ l = LinkOf(c, s, prog[c].dock_state)
    BY <2>1, <2>2, Zenon
  <2>4. \A l : l \in Links' <=> l \in Links
    BY <2>3, LinksAre
  <2> QED
    BY <2>4 DEF Links
<1>5. ASSUME NEW t \in Programs \ {p}, Serves(p, t), t \in Running,
             \A q \in Programs \ {p, t} : SameCore(prog'[q], prog[q]),
             prog'[p].control_mode # "client"
      PROVE  /\ Joined(t, p)
             /\ \A c \in Programs \ {t}, s \in Programs :
                   /\ Joined(c, s)' <=> Joined(c, s)
                   /\ Joined(c, s) => prog'[c].dock_state = prog[c].dock_state
  <2>1. Joined(t, p)
    BY <1>0, <1>5 DEF IInv, Agreement, Joined
  <2>2. \A c \in Programs \ {t}, s \in Programs :
           /\ Joined(c, s)' <=> Joined(c, s)
           /\ Joined(c, s) => prog'[c].dock_state = prog[c].dock_state
    BY <1>0, <1>5 DEF SameCore, Joined, IsClientOf, Serves
  <2> QED
    BY <2>1, <2>2
<1>6. ASSUME NEW t \in Programs \ {p}, ServerFinishesDocking(p, t)
      PROVE  Abstract!Next \/ Links' = Links
  <2>1. CASE t \notin Running
    BY <1>4, <1>6, <2>1 DEF ServerFinishesDocking
  <2>2. CASE t \in Running
    <3>1. /\ Joined(t, p)
          /\ \A c \in Programs \ {t}, s \in Programs :
                /\ Joined(c, s)' <=> Joined(c, s)
                /\ Joined(c, s) => prog'[c].dock_state = prog[c].dock_state
      BY <1>5, <1>6, <2>2 DEF ServerFinishesDocking
    <3>2. Joined(t, p)' /\ prog'[t].dock_state = "docked" /\ prog[t].dock_state = "docking"
      BY <1>0, <1>6, <2>2, <3>1, JoinedOnce DEF ServerFinishesDocking, Joined, IsClientOf
    <3>3. LinkGoes(t)
      BY <3>1, <3>2 DEF LinkGoes
    <3> QED
      BY <3>1, <3>3, OneLinkGoes
  <2> QED
    BY <2>1, <2>2
<1>7. ASSUME NEW t \in Programs \ {p}, ServerFinishesUndocking(p, t)
      PROVE  Abstract!Next \/ Links' = Links
  <2>0. /\ prog'[p].control_mode = "none"
        /\ t \in Running => prog'[t].dock_state = "undocked"
    BY <1>7, ResetType DEF IInv, TypeOK, ServerFinishesUndocking, SameCore
  <2>1. CASE t \notin Running
    BY <1>4, <1>7, <2>0, <2>1 DEF ServerFinishesUndocking
  <2>2. CASE t \in Running
    <3>1. /\ Joined(t, p)
          /\ \A c \in Programs \ {t}, s \in Programs :
                /\ Joined(c, s)' <=> Joined(c, s)
                /\ Joined(c, s) => prog'[c].dock_state = prog[c].dock_state
      BY <1>5, <1>7, <2>0, <2>2 DEF ServerFinishesUndocking
    <3>2. \A x \in Programs : ~Joined(t, x)'
      BY <2>0, <2>2 DEF Joined, IsClientOf
    <3>3. LinkGoes(t)
      BY <3>1, <3>2 DEF LinkGoes
    <3> QED
      BY <3>1, <3>3, OneLinkGoes
  <2> QED
    BY <2>1, <2>2
<1> QED
  BY <1>0, <1>2, <1>3, <1>6, <1>7 DEF ProcessEffect

LEMMA MachineLossLinks ==
    ASSUME IInv, IInv', NEW p \in Programs, Destroy(p) \/ HardDelete(p)
    PROVE  Abstract!Next \/ Links' = Links
<1>0. /\ prog' = prog
      /\ Running' = Running \ {p}
  <2>1. master \in [Programs -> MachineStates]
    BY DEF IInv, TypeOK
  <2> QED
    BY <2>1 DEF Destroy, HardDelete, Running, MachineStates
<1>1. \A c, s \in Programs : Joined(c, s)' <=> Joined(c, s) /\ p \notin {c, s}
  BY <1>0 DEF Joined, IsClientOf
<1>2. ASSUME NEW c \in Programs, NEW s \in Programs, Joined(c, s), p \in {c, s}
      PROVE  Abstract!Next \/ Links' = Links
  <2>1. \A x, y \in Programs : Joined(x, y) /\ p \in {x, y} => x = c
    BY <1>2, JoinedOnce
  <2>2. \A x \in Programs : ~Joined(c, x)'
    BY <1>1, <1>2, JoinedOnce
  <2>3. \A x \in Programs \ {c}, y \in Programs :
           /\ Joined(x, y)' <=> Joined(x, y)
           /\ Joined(x, y) => prog'[x].dock_state = prog[x].dock_state
    BY <1>0, <1>1, <2>1
  <2>4. LinkGoes(c)
    BY <1>2, <2>2 DEF LinkGoes
  <2> QED
    BY <2>3, <2>4, OneLinkGoes
<1>3. CASE \A c, s \in Programs : Joined(c, s) => p \notin {c, s}
  <2>1. \A c, s \in Programs : Joined(c, s)' <=> Joined(c, s)
    BY <1>1, <1>3
  <2> QED
    BY <1>0, <2>1, LinksAre
<1> QED
  BY <1>2, <1>3
----------------------------------------------------------------------------
(* A docked server rests *)

\* It waits for its client, with nothing sent and nothing counted: without this a docked
\* server would count in Process().
DockedServersRest ==
    \A p \in Programs :
        prog[p].control_mode = "server" /\ prog[p].dock_state = "docked" =>
            ~prog[p].response_sent /\ prog[p].resend_counter = 0

\* What Process() does to the caller is what Handshake and the counting do to it; another
\* program is at most sent a confirmation.
LEMMA ProcessDoesToEach ==
    ASSUME IInv, NEW p \in Programs, NEW ready \in BOOLEAN, ProcessReady(p, ready)
    PROVE  /\ \A q \in Programs \ {p} :
                 \/ prog'[q] = prog[q]
                 \/ \E command \in {"confirm_dock", "confirm_undock"} :
                       prog'[q] = receive_signal(prog[q], p, command)
           /\ \E r \in Program :
                 /\ prog'[p] = Resend(r)
                 /\ prog[p].dock_state \in {"docked", "undocked"} => r = prog[p]
<1> DEFINE t == prog[p].tag_target
           shaken == IF ready THEN Handshake(p) ELSE prog
           counted == [shaken EXCEPT ![p] = Resend(shaken[p])]
           confirmed(command) == send_docking_command(prog, p, t, command)
<1>0. /\ prog \in [Programs -> Program] /\ prog[p] \in Program
      /\ prog' = Repair(counted, p)
      /\ prog[p].control_mode = "none" => prog[p].dock_state = "undocked"
      /\ prog[p].control_mode = "server" => prog[p].dock_state # "undocked"
      /\ prog[p].dock_state # "undocked" => t \in Programs \ {p}
  BY DEF IInv, TypeOK, StateTable, HasPartner, ProcessReady
<1>1. \/ shaken = prog
      \/ /\ prog[p].control_mode = "client" /\ prog[p].dock_state = "docking"
         /\ shaken = [confirmed("confirm_dock") EXCEPT ![p].response_sent = TRUE]
      \/ /\ prog[p].control_mode = "client" /\ prog[p].dock_state = "undocking"
         /\ shaken = [confirmed("confirm_undock") EXCEPT ![p].response_sent = TRUE]
      \/ /\ prog[p].control_mode = "server" /\ prog[p].dock_state = "docking"
         /\ shaken = [confirmed("confirm_dock") EXCEPT
                        ![p] = [prog[p] EXCEPT !.dock_state = "docked",
                                   !.response_sent = FALSE, !.received_confirm = FALSE]]
      \/ /\ prog[p].control_mode = "server" /\ prog[p].dock_state = "undocking"
         /\ shaken = [confirmed("confirm_undock") EXCEPT ![p] = reset(prog[p])]
  BY DEF Handshake
<1>2. ASSUME NEW command \in {"confirm_dock", "confirm_undock"}, t \in Programs \ {p}
      PROVE  /\ confirmed(command) \in [Programs -> Program]
             /\ confirmed(command)[p] = prog[p]
             /\ \A q \in Programs \ {p} :
                   \/ confirmed(command)[q] = prog[q]
                   \/ confirmed(command)[q] = receive_signal(prog[q], p, command)
  <2>1. command \in Commands /\ t \in Programs \cup {NoTag}
    BY <1>2 DEF Commands
  <2> HIDE DEF t
  <2>2. /\ confirmed(command) \in [Programs -> Program]
        /\ confirmed(command)[p] = prog[p]
        /\ \A q \in Programs \ {t} : confirmed(command)[q] = prog[q]
        /\ ~Hears(t, p) => confirmed(command) = prog
        /\ Hears(t, p) => confirmed(command)[t] = receive_signal(prog[t], p, command)
    BY <1>0, <2>1, SendType
  <2> QED
    BY <2>2
<1> HIDE DEF t, confirmed, shaken
<1>3. /\ [prog[p] EXCEPT !.response_sent = TRUE] \in Program
      /\ [prog[p] EXCEPT !.response_sent = TRUE].control_mode = prog[p].control_mode
      /\ [prog[p] EXCEPT !.response_sent = TRUE].dock_state = prog[p].dock_state
      /\ [prog[p] EXCEPT !.dock_state = "docked", !.response_sent = FALSE,
                         !.received_confirm = FALSE] \in Program
      /\ [prog[p] EXCEPT !.dock_state = "docked", !.response_sent = FALSE,
                         !.received_confirm = FALSE].dock_state = "docked"
      /\ [prog[p] EXCEPT !.dock_state = "docked", !.response_sent = FALSE,
                         !.received_confirm = FALSE].control_mode = prog[p].control_mode
      /\ reset(prog[p]) \in Program
      /\ reset(prog[p]).dock_state = "undocked" /\ reset(prog[p]).control_mode = "none"
  BY <1>0, ResetType DEF Program, DockStates
<1>4. /\ shaken \in [Programs -> Program]
      /\ \A q \in Programs \ {p} :
            \/ shaken[q] = prog[q]
            \/ \E command \in {"confirm_dock", "confirm_undock"} :
                  shaken[q] = receive_signal(prog[q], p, command)
      /\ prog[p].dock_state \in {"docked", "undocked"} => shaken[p] = prog[p]
      /\ shaken[p].control_mode = "server" => shaken[p].dock_state # "undocked"
      /\ shaken[p].control_mode = "none" => shaken[p].dock_state = "undocked"
  <2>1. CASE shaken = prog
    BY <1>0, <2>1
  <2>2. ASSUME NEW command \in {"confirm_dock", "confirm_undock"}, NEW r \in Program,
               prog[p].dock_state \in {"docking", "undocking"},
               shaken = [confirmed(command) EXCEPT ![p] = r],
               r.control_mode = "server" => r.dock_state # "undocked",
               r.control_mode = "none" => r.dock_state = "undocked"
        PROVE  <1>4
    <3>1. /\ confirmed(command) \in [Programs -> Program]
          /\ \A q \in Programs \ {p} :
                \/ confirmed(command)[q] = prog[q]
                \/ confirmed(command)[q] = receive_signal(prog[q], p, command)
      BY <1>0, <1>2, <2>2
    <3>2. /\ shaken \in [Programs -> Program] /\ shaken[p] = r
          /\ \A q \in Programs \ {p} : shaken[q] = confirmed(command)[q]
      BY <2>2, <3>1
    <3> QED
      BY <2>2, <3>1, <3>2
  <2>3. ASSUME NEW command \in {"confirm_dock", "confirm_undock"},
               t \in Programs \ {p}
        PROVE  [confirmed(command) EXCEPT ![p].response_sent = TRUE]
                  = [confirmed(command) EXCEPT ![p] = [prog[p] EXCEPT !.response_sent = TRUE]]
    BY <1>2, <2>3
  <2> QED
    BY <1>0, <1>1, <1>3, <2>1, <2>2, <2>3
<1>5. /\ counted \in [Programs -> Program] /\ counted[p] = Resend(shaken[p])
      /\ \A q \in Programs \ {p} : counted[q] = shaken[q]
      /\ Repair(counted, p) = counted
  <2>1. shaken[p] \in Program
    BY <1>4
  <2>2. /\ Resend(shaken[p]) \in Program
        /\ Resend(shaken[p]).control_mode = shaken[p].control_mode
        /\ Resend(shaken[p]).dock_state = shaken[p].dock_state
    BY <2>1, ResendType
  <2>3. /\ counted \in [Programs -> Program] /\ counted[p] = Resend(shaken[p])
        /\ \A q \in Programs \ {p} : counted[q] = shaken[q]
    BY <1>4, <2>2
  <2> HIDE DEF counted
  <2> QED
    BY <1>4, <2>2, <2>3, NothingToRepair
<1> QED
  BY <1>0, <1>4, <1>5

LEMMA ProcessLeavesServers ==
    ASSUME IInv, DockedServersRest, NEW p \in Programs, NEW ready \in BOOLEAN,
           ProcessReady(p, ready), NEW s \in Programs
    PROVE  /\ prog[s].control_mode = "server" /\ prog[s].dock_state = "docked" =>
                 prog'[s] = prog[s]
           /\ prog'[s].control_mode = "server" /\ prog'[s].dock_state = "docked" =>
                 ~prog'[s].response_sent /\ prog'[s].resend_counter = 0
<1>0. prog[s] \in Program
  BY DEF IInv, TypeOK
<1>1. CASE s # p
  <2>1. ASSUME NEW command \in {"confirm_dock", "confirm_undock"},
               prog'[s] = receive_signal(prog[s], p, command)
        PROVE  /\ prog'[s].control_mode = "server" /\ prog'[s].dock_state = "docked" =>
                     prog'[s] = prog[s]
               /\ prog[s].control_mode = "server" /\ prog[s].dock_state = "docked" =>
                     prog'[s] = prog[s]
    <3>1. ASSUME NEW r \in Program,
                 NEW next \in {OnConfirmDock(r, p), OnConfirmUndock(r, p)}
          PROVE  /\ next.control_mode = "server" /\ next.dock_state = "docked" => next = r
                 /\ r.control_mode = "server" /\ r.dock_state = "docked" => next = r
      <4>1. reset(r).control_mode = "none"
        BY ResetType
      <4>2. CASE next = OnConfirmDock(r, p)
        BY <4>2 DEF OnConfirmDock, Program
      <4>3. CASE next = OnConfirmUndock(r, p)
        BY <4>1, <4>3 DEF OnConfirmUndock, Program
      <4> QED
        BY <4>2, <4>3
    <3>2. prog'[s] \in {OnConfirmDock(prog[s], p), OnConfirmUndock(prog[s], p)}
      BY <2>1 DEF receive_signal
    <3> QED
      BY <1>0, <3>1, <3>2
  <2>2. \/ prog'[s] = prog[s]
        \/ \E command \in {"confirm_dock", "confirm_undock"} :
              prog'[s] = receive_signal(prog[s], p, command)
    BY <1>1, ProcessDoesToEach
  <2>3. prog[s].control_mode = "server" /\ prog[s].dock_state = "docked" =>
           ~prog[s].response_sent /\ prog[s].resend_counter = 0
    BY DEF DockedServersRest
  <2> QED
    BY <2>1, <2>2, <2>3
<1>2. CASE s = p
  <2>1. PICK r \in Program :
           /\ prog'[p] = Resend(r)
           /\ prog[p].dock_state \in {"docked", "undocked"} => r = prog[p]
    BY ProcessDoesToEach
  <2>2. r.dock_state = "docked" =>
           Resend(r) = [r EXCEPT !.response_sent = FALSE, !.resend_counter = 0]
    BY DEF Resend
  <2>3. Resend(r).dock_state = r.dock_state
    BY ResendType
  <2>4. prog'[p].dock_state = "docked" =>
           ~prog'[p].response_sent /\ prog'[p].resend_counter = 0
    BY <2>1, <2>2, <2>3 DEF Program
  <2>5. prog[p].control_mode = "server" /\ prog[p].dock_state = "docked" => prog'[p] = prog[p]
    <3> SUFFICES ASSUME prog[p].control_mode = "server", prog[p].dock_state = "docked"
                 PROVE  prog'[p] = prog[p]
      OBVIOUS
    <3>1. r = prog[p] /\ prog'[p] = [r EXCEPT !.response_sent = FALSE, !.resend_counter = 0]
      BY <2>1, <2>2
    <3>2. ~r.response_sent /\ r.resend_counter = 0
      BY <3>1 DEF DockedServersRest
    <3>3. r.response_sent = FALSE
      BY <3>2 DEF Program
    <3>4. [r EXCEPT !.response_sent = FALSE, !.resend_counter = 0] = r
      BY <3>2, <3>3 DEF Program
    <3> QED
      BY <3>1, <3>4
  <2> QED
    BY <1>2, <2>4, <2>5
<1> QED
  BY <1>1, <1>2

\* Of a docked server, only its client's leaving or a reset of either makes something
\* else, and a server that has docked rests.
LEMMA DockedServersStep ==
    ASSUME IInv, DockedServersRest, Next
    PROVE  /\ DockedServersRest'
           /\ \A c, s \in Running :
                 Serves(s, c) /\ prog[s].dock_state = "docked" /\ master' = master =>
                    \/ prog'[s] = prog[s]
                    \/ prog'[c].dock_state = "undocking"
                    \/ prog'[c] = reset(prog[c])
<1> DEFINE Goal == /\ DockedServersRest'
                   /\ \A c, s \in Running :
                         Serves(s, c) /\ prog[s].dock_state = "docked" /\ master' = master =>
                            \/ prog'[s] = prog[s]
                            \/ prog'[c].dock_state = "undocking"
                            \/ prog'[c] = reset(prog[c])
<1>0. PICK p \in Programs :
         \/ \E target \in Targets(p) : InitiateDocking(p, target)
         \/ InitiateUndocking(p)
         \/ ForceUndock(p)
         \/ Process(p)
         \/ Destroy(p)
         \/ HardDelete(p)
  BY DEF Next
<1>1. prog' = prog => Goal
  BY DEF DockedServersRest
<1>2. ASSUME NEW target \in Targets(p), InitiateDocking(p, target)
      PROVE  Goal
  <2>1. CASE ~(prog[p].dock_state = "undocked" /\ prog[p].control_mode # "server")
    BY <1>1, <1>2, <2>1 DEF InitiateDocking, initiate_docking
  <2>2. CASE prog[p].dock_state = "undocked" /\ prog[p].control_mode # "server"
    <3>1. CASE Asked(p)
      BY <2>2, <3>1 DEF Asked, DockedServersRest, Serves, Running
    <3>2. CASE target \in Programs \ {p} /\ Connected(p, target)
      BY <2>2, <3>2 DEF Connected, Idle, DockedServersRest, Serves, Running
    <3> QED
      BY <1>2, <2>2, <3>1, <3>2, InitiateDockingDoes
  <2> QED
    BY <2>1, <2>2
<1>3. ASSUME InitiateUndocking(p)
      PROVE  Goal
  <2>1. CASE ~(prog[p].dock_state = "docked" /\ prog[p].control_mode = "client")
    BY <1>1, <1>3, <2>1 DEF InitiateUndocking, initiate_undocking
  <2>2. CASE prog[p].dock_state = "docked" /\ prog[p].control_mode = "client"
    <3> DEFINE t == prog[p].tag_target
    <3>1. t \in Programs \ {p} /\ Leaves(p, t)
      BY <1>3, <2>2, InitiateUndockingDoes
    <3> HIDE DEF t
    <3> QED
      BY <2>2, <3>1 DEF Leaves, DockedServersRest, Serves, Running
  <2> QED
    BY <2>1, <2>2
<1>4. ASSUME ForceUndock(p)
      PROVE  Goal
  <2> DEFINE t == prog[p].tag_target
  <2>1. Resets(p, t)
    BY <1>4, ForceUndockDoes
  <2>2. \A q \in Programs : reset(prog[q]).dock_state = "undocked"
    BY ResetType DEF IInv, TypeOK
  <2>3. DockedServersRest'
    BY <2>1, <2>2 DEF Resets, DockedServersRest
  <2>4. ASSUME NEW c \in Running, NEW s \in Running, Serves(s, c),
               prog[s].dock_state = "docked", prog'[s] # prog[s]
        PROVE  prog'[c] = reset(prog[c])
    <3>1. IsClientOf(c, s)
      BY <2>4 DEF IInv, Agreement
    <3>2. c \in Programs /\ s \in Programs /\ c # s
      BY <2>4 DEF Running, IInv, HasPartner, Serves
    <3>3. CASE s = p
      <4>1. c = t /\ Hears(t, p) /\ prog[t].tag_target = p
        BY <2>4, <3>1, <3>2, <3>3 DEF Serves, IsClientOf, Hears, Running
      <4> QED
        BY <2>1, <3>2, <3>3, <4>1 DEF Resets
    <3>4. CASE s # p
      <4>1. s = t /\ prog[t].tag_target = p
        BY <2>1, <2>4, <3>2, <3>4 DEF Resets
      <4>2. c = p
        BY <2>4, <4>1 DEF Serves
      <4> QED
        BY <2>1, <4>2 DEF Resets
    <3> QED
      BY <3>3, <3>4
  <2> QED
    BY <2>3, <2>4
<1>5. ASSUME Process(p)
      PROVE  Goal
  <2>1. PICK ready \in BOOLEAN : ProcessReady(p, ready)
    BY <1>5 DEF Process
  <2>2. DockedServersRest'
    BY <2>1, ProcessLeavesServers DEF DockedServersRest
  <2>3. \A s \in Programs :
           prog[s].control_mode = "server" /\ prog[s].dock_state = "docked" =>
              prog'[s] = prog[s]
    BY <2>1, ProcessLeavesServers
  <2> QED
    BY <2>2, <2>3 DEF Serves, Running
<1>6. ASSUME Destroy(p) \/ HardDelete(p)
      PROVE  Goal
  BY <1>1, <1>6 DEF Destroy, HardDelete
<1> HIDE DEF Goal
<1>7. Goal
  BY <1>0, <1>2, <1>3, <1>4, <1>5, <1>6
<1> QED
  BY <1>7 DEF Goal
----------------------------------------------------------------------------
(* The theorems about links *)

LEMMA LinksStep ==
    ASSUME IInv, IInv', [Next]_vars
    PROVE  [Abstract!Next]_Links
<1>1. CASE UNCHANGED vars
  BY <1>1, NothingChanges
<1>2. CASE Next
  <2>1. Abstract!Next \/ Links' = Links
    BY <1>2, InitiateDockingLinks, InitiateUndockingLinks, ForceUndockLinks, ProcessLinks,
       MachineLossLinks DEF Next, Process
  <2> QED
    BY <2>1
<1> QED
  BY <1>1, <1>2

\* The handshake implements the abstract connection of two ports: whatever is called, lost
\* or destroyed, what two running programs see of it is a link that is made between free
\* ports, goes through its phases at both ends at once, and is gone (docking_program.dm).
THEOREM RefinesDockingLinkHolds == Spec => RefinesDockingLink
<1>1. Init => Abstract!Init
  BY DEF Init, NewProgram, Abstract!Init, Links, Running, IsClientOf
<1>2. IInv /\ IInv' /\ [Next]_vars => [Abstract!Next]_Links
  BY LinksStep
<1> QED
  BY <1>1, <1>2, Invariance, PTL DEF Spec, Abstract!Spec, RefinesDockingLink

LEMMA DockedServersRestHolds == Spec => [](IInv /\ DockedServersRest)
<1>1. Init => DockedServersRest
  BY DEF Init, NewProgram, DockedServersRest
<1>2. IInv /\ DockedServersRest /\ [Next]_vars => DockedServersRest'
  <2>1. UNCHANGED vars /\ DockedServersRest => DockedServersRest'
    BY DEF vars, DockedServersRest
  <2> QED
    BY <2>1, DockedServersStep
<1> QED
  BY <1>1, <1>2, Invariance, PTL DEF Spec

\* A request of a third program, a late confirmation or the counting of Process() never
\* moves a docked server.
THEOREM ServerStaysDockedHolds == Spec => ServerStaysDocked
<1> DEFINE Stays ==
      \A c, s \in Running :
          Serves(s, c) /\ prog[s].dock_state = "docked" /\ master' = master =>
              \/ prog'[s] = prog[s]
              \/ prog'[c].dock_state = "undocking"
              \/ prog'[c] = reset(prog[c])
<1>1. IInv /\ DockedServersRest /\ [Next]_vars => [Stays]_vars
  <2>1. IInv /\ DockedServersRest /\ Next => Stays
    BY DockedServersStep
  <2> QED
    BY <2>1
<1> QED
  BY <1>1, DockedServersRestHolds, PTL DEF Spec, ServerStaysDocked

\* Both together: what the shuttles may rely on when they leave a port to the handshake.
THEOREM LinksKeptHolds == Spec => LinksKept
  BY RefinesDockingLinkHolds, ServerStaysDockedHolds, PTL DEF LinksKept
============================================================================
