------------------------------- MODULE NanoUI -------------------------------
(***************************************************************************)
(* NanoUI from the server's /datum/nanoui and SSnano to the window of one  *)
(* user (code/modules/nano, controllers/subsystems/processing/nano.dm).         *)
(*                                                                         *)
(* The uis have one object and one key, and so one window id: a ui that is *)
(* opened again is a new datum in the same window.  What the server sends  *)
(* to the window and what the window sends back are two streams, in order, *)
(* each as late as it likes.                                               *)
(***************************************************************************)
EXTENDS NanoData, Sequences

CONSTANTS
    Uis, NoUi,           \* datums, in the order they are made
    Answers,             \* what CanUseTopic() may say
    AutoUis,             \* uis that update themselves (set_auto_update)
    MaxChanges,          \* bound: changes of the object
    MaxStream            \* bound: messages on their way to the window

STATUS_CLOSE == -1

ASSUME NanoAssumption ==
    /\ NoUi \notin Uis
    /\ MaxStream \in Nat /\ MaxChanges \in 0..MaxVer
    /\ AutoUis \subseteq Uis
    /\ Answers \subseteq Statuses \cup {STATUS_CLOSE}

VARIABLES
    dataVer,             \* of src_object
    usable,              \* what CanUseTopic() says
    ui,                  \* per ui: unused, open or closed (deleted); its status
    spawned,             \* per ui: on_close_winset()s in their spawn(2)
    toWindow, toServer,
    window,              \* the page's ui, whether it takes updates yet, and what
                         \* version it has been told
    onClose,             \* the ui in the window's on-close command
    early                \* history: the user closed the ui's window before it
                         \* had an on-close command

serverVars == <<ui, toWindow>>
windowVars == <<window, onClose, early>>
uiVars == <<dataVer, usable, serverVars, spawned, toServer, windowVars>>

Message == [kind: {"browse", "update", "close", "onclose"}, ui: Uis,
            ver: Versions \cup {NoData}]
NoWindow == [src |-> NoUi, up |-> FALSE, ver |-> NoData]

Opened == {u \in Uis : ui[u].state = "open"}

UiTypeOK ==
    /\ dataVer \in Versions
    /\ usable \in Statuses \cup {STATUS_CLOSE}
    /\ ui \in [Uis -> [state: {"unused", "open", "closed"}, status: Statuses, told: BOOLEAN]]
    /\ spawned \in [Uis -> 0..1]
    /\ toWindow \in Seq(Message)
    /\ toServer \in Seq([kind: {"nanoclose", "topic"}, ui: Uis])
    /\ window \in [src: Uis \cup {NoUi}, up: BOOLEAN, ver: Versions \cup {NoData}]
    /\ onClose \in Uis \cup {NoUi}
    /\ early \subseteq Uis

UiInit ==
    /\ dataVer = 0
    /\ usable = 2
    /\ ui = [u \in Uis |-> [state |-> "unused", status |-> 2, told |-> TRUE]]
    /\ spawned = [u \in Uis |-> 0]
    /\ toWindow = <<>> /\ toServer = <<>>
    /\ window = NoWindow
    /\ onClose = NoUi
    /\ early = {}
----------------------------------------------------------------------------
(* The procs of /datum/nanoui, as functions of what they change: a record  *)
(* of the serverVars; ui[u].told says that the window was sent the status.  *)

Server == [ui |-> ui, out |-> toWindow]
Becomes(s) == ui' = s.ui /\ toWindow' = s.out

Send(s, k, u, v) ==
    [s EXCEPT !.out = Append(@, [kind |-> k, ui |-> u, ver |-> v]),
              !.ui[u].told = TRUE]

close(s, u) ==
    IF s.ui[u].state = "closed" THEN s
    ELSE [s EXCEPT !.ui[u] = [state |-> "closed", status |-> 0, told |-> TRUE],
                   !.out = Append(@, [kind |-> "close", ui |-> u, ver |-> NoData])]

\* Data is sent when the ui was disabled, else only the new status; without push_update
\* only the news that it is disabled now.
set_status(s, u, new, push_update) ==
    LET t == [s EXCEPT !.ui[u].status = new, !.ui[u].told = FALSE]
    IN  IF new = s.ui[u].status THEN s
        ELSE IF push_update
             THEN Send(t, "update", u, IF s.ui[u].status = 0 THEN dataVer ELSE NoData)
        ELSE IF new = 0 THEN Send(t, "update", u, NoData)
        ELSE t

update_status(s, u, push_update) ==
    IF usable = STATUS_CLOSE THEN close(s, u) ELSE set_status(s, u, usable, push_update)

push_data(s, u) ==
    LET t == update_status(s, u, FALSE)
    IN  IF t.ui[u].state = "closed" \/ t.ui[u].status = 0 THEN t
        ELSE Send(t, "update", u, dataVer)

try_update(s, u, update) ==
    IF s.ui[u].status # 0 /\ (update \/ u \in AutoUis) THEN push_data(s, u)
    ELSE update_status(s, u, TRUE)

\* The window is opened, or filled again, before its on-close command is set.
open(s, u) ==
    LET t == update_status(s, u, FALSE)
    IN  IF t.ui[u].state = "closed" THEN t
        ELSE Send([t EXCEPT !.ui[u].state = "open"], "browse", u, dataVer)

Room == Len(toWindow) < MaxStream
----------------------------------------------------------------------------
(* The server's steps *)

\* The object changes.
Change ==
    /\ dataVer < MaxChanges
    /\ dataVer' = dataVer + 1
    /\ UNCHANGED <<usable, serverVars, spawned, toServer, windowVars>>

\* The user walks away, is stunned, comes back...
Move ==
    /\ usable' \in Answers \ {usable}
    /\ UNCHANGED <<dataVer, serverVars, spawned, toServer, windowVars>>

\* What open() leaves to its spawn(2).
Opens(s, u) == /\ Becomes(s)
               /\ spawned' = [spawned EXCEPT ![u] = IF s.ui[u].state = "open" THEN @ + 1 ELSE @]

New(s, u) ==
    /\ ui[u].state = "unused"
    /\ Opens(open(s, u), u)

\* The user uses the object: ui_interact(), with what force_open asks for.
\* get_open_ui() finds nothing:
InteractNew(u) ==
    /\ Room /\ Opened = {}
    /\ New(Server, u)
    /\ UNCHANGED <<dataVer, usable, toServer, windowVars>>

\* NANOUI_FOCUS (or NANOUI_UPDATE, which does not focus).
InteractFocus(u) ==
    /\ Room /\ u \in Opened
    /\ Becomes(push_data(Server, u))
    /\ UNCHANGED <<dataVer, usable, spawned, toServer, windowVars>>

InteractReinitialize(u) ==
    /\ Room /\ u \in Opened /\ spawned[u] = 0
    /\ Opens(open(Server, u), u)
    /\ UNCHANGED <<dataVer, usable, toServer, windowVars>>

\* NANOUI_FORCE_OPEN: x is closed and u opened.
InteractForceOpen(x, u) ==
    /\ Room /\ x \in Opened
    /\ New(close(Server, x), u)
    /\ UNCHANGED <<dataVer, usable, toServer, windowVars>>

\* SSnano's fire(), or update_uis() after somebody changed the object.
Process(u, update) ==
    /\ Room
    /\ u \in Opened
    /\ Becomes(try_update(Server, u, update))
    /\ UNCHANGED <<dataVer, usable, spawned, toServer, windowVars>>

\* close_uis(), close_user_uis(), user_logout().
CloseUi(u) ==
    /\ Room
    /\ u \in Opened
    /\ Becomes(close(Server, u))
    /\ UNCHANGED <<dataVer, usable, spawned, toServer, windowVars>>

\* Bug: a ui that was closed in the meantime sets the command all the same.
OnCloseWinsetBlind(u) ==
    /\ spawned[u] > 0
    /\ spawned' = [spawned EXCEPT ![u] = @ - 1]
    /\ toWindow' = Append(toWindow, [kind |-> "onclose", ui |-> u, ver |-> NoData])
    /\ UNCHANGED <<dataVer, usable, ui, toServer, windowVars>>

\* The end of on_close_winset()'s spawn(2); a closed ui has no user any more.
OnCloseWinset(u) ==
    /\ spawned[u] > 0
    /\ spawned' = [spawned EXCEPT ![u] = @ - 1]
    /\ toWindow' = IF ui[u].state = "closed" THEN toWindow
                   ELSE Append(toWindow, [kind |-> "onclose", ui |-> u, ver |-> NoData])
    /\ UNCHANGED <<dataVer, usable, ui, toServer, windowVars>>

\* Topic(): the status is looked at, and not pushed; then the object may change
\* and all its uis are updated.
Topic(u) ==
    LET t == update_status(Server, u, FALSE)
    IN  \/ Becomes(t) /\ UNCHANGED dataVer
        \/ /\ t.ui[u].state = "open" /\ t.ui[u].status = 2
           /\ dataVer' \in {dataVer, dataVer + 1} \cap 0..MaxChanges
           /\ Becomes(Send(t, "update", u, dataVer'))

\* Bug: what comes from a ui that is not interactive is not looked at.
FromWindowInteractive ==
    /\ Room
    /\ toServer # <<>>
    /\ toServer' = Tail(toServer)
    /\ LET m == Head(toServer)
       IN  \/ /\ ui[m.ui].state = "closed" \/ ui[m.ui].status # 2
              /\ UNCHANGED <<serverVars, dataVer>>
           \/ /\ m.kind = "nanoclose" /\ ui[m.ui].state = "open" /\ ui[m.ui].status = 2
              /\ Becomes(close(Server, m.ui)) /\ UNCHANGED dataVer
           \/ /\ m.kind = "topic" /\ ui[m.ui].state = "open" /\ ui[m.ui].status = 2
              /\ Topic(m.ui)
    /\ UNCHANGED <<usable, spawned, windowVars>>

\* nanoclose, or a click; a reference to a deleted ui finds nothing.
FromWindow ==
    /\ Room
    /\ toServer # <<>>
    /\ toServer' = Tail(toServer)
    /\ LET m == Head(toServer)
       IN  \/ /\ ui[m.ui].state = "closed"
              /\ UNCHANGED <<serverVars, dataVer>>
           \/ /\ m.kind = "nanoclose" /\ ui[m.ui].state = "open"
              /\ Becomes(close(Server, m.ui)) /\ UNCHANGED dataVer
           \/ /\ m.kind = "topic" /\ ui[m.ui].state = "open"
              /\ Topic(m.ui)
    /\ UNCHANGED <<usable, spawned, windowVars>>
----------------------------------------------------------------------------
(* The window's steps.  NanoPage has what its page does with what it is     *)
(* told; here it takes updates as soon as its scripts have run.             *)

\* A window that closes runs its on-close command, if it has one yet.
Nanoclose == toServer' = IF onClose = NoUi THEN toServer
                         ELSE Append(toServer, [kind |-> "nanoclose", ui |-> onClose])

browse(m) == window' = [src |-> m.ui, up |-> FALSE, ver |-> m.ver]

ToBrowser(m) == window' = IF window.up /\ m.ver # NoData THEN [window EXCEPT !.ver = m.ver]
                       ELSE window

\* The next message of the server.  Whether a window that the server closes runs its
\* command too is up to BYOND.
ToWindow ==
    /\ toWindow # <<>>
    /\ toWindow' = Tail(toWindow)
    /\ LET m == Head(toWindow)
       IN  \/ m.kind = "browse" /\ browse(m) /\ UNCHANGED <<onClose, toServer>>
           \/ m.kind = "update" /\ ToBrowser(m) /\ UNCHANGED <<onClose, toServer>>
           \/ /\ m.kind = "onclose"
              /\ onClose' = IF window = NoWindow THEN NoUi ELSE m.ui
              /\ UNCHANGED <<window, toServer>>
           \/ /\ m.kind = "close"
              /\ window' = NoWindow /\ onClose' = NoUi
              /\ Nanoclose \/ UNCHANGED toServer
    /\ UNCHANGED <<dataVer, usable, ui, spawned, early>>

PageUp ==
    /\ window # NoWindow /\ ~window.up
    /\ window' = [window EXCEPT !.up = TRUE]
    /\ UNCHANGED <<dataVer, usable, serverVars, spawned, toServer, onClose, early>>

UserCloses ==
    /\ window # NoWindow
    /\ window' = NoWindow /\ onClose' = NoUi
    /\ Nanoclose
    /\ early' = IF onClose = NoUi THEN early \cup {window.src} ELSE early
    /\ UNCHANGED <<dataVer, usable, serverVars, spawned>>

Click ==
    /\ window.up
    /\ toServer' = Append(toServer, [kind |-> "topic", ui |-> window.src])
    /\ UNCHANGED <<dataVer, usable, serverVars, spawned, windowVars>>

User ==
    /\ toServer = <<>>
    /\ UserCloses \/ Click
Game ==
    \/ Change \/ Move
    \/ \E u \in Uis :
         \/ InteractNew(u) \/ \E x \in Uis : InteractForceOpen(x, u)
         \/ InteractFocus(u) \/ InteractReinitialize(u)
         \/ Process(u, FALSE) \/ Process(u, TRUE) \/ CloseUi(u)
         \/ OnCloseWinset(u)
UiNext == User \/ Game \/ FromWindow \/ ToWindow \/ PageUp
UiSpec == UiInit /\ [][UiNext]_uiVars

\* Streams are delivered, the browser goes on, sleeping procs wake and SSnano
\* processes the uis that are open; strongly, for what is only kept waiting by the
\* bound on the stream.
UiFairness ==
    /\ SF_uiVars(FromWindow) /\ WF_uiVars(ToWindow) /\ WF_uiVars(PageUp)
    /\ \A u \in Uis : WF_uiVars(OnCloseWinset(u)) /\ SF_uiVars(Process(u, FALSE))
----------------------------------------------------------------------------
(* Properties *)

\* One ui for one window, whatever way it was opened.
OneOpen == \A u, v \in Opened : u = v

\* A ui that may not be used any more says so, whoever found out (set_status()); other
\* changes are told too, except one that a Topic() finds.
StatusIsTold ==
    [][\A u \in Opened : ui[u].told /\ ~ui'[u].told => ui'[u].status # 0 /\ FromWindow]_uiVars

AtRest ==
    /\ toWindow = <<>> /\ toServer = <<>>
    /\ \A u \in Uis : spawned[u] = 0

\* When nothing is on its way any more, a ui that is open has its window, unless
\* the user closed that before it had its on-close command: then nobody tells the server.
OpenHasWindow ==
    AtRest => \A u \in Opened : window.src = u \/ u \in early

\* And a window that is there belongs to a ui that is open, which will hear of it when
\* the window is closed.
WindowHasOpen ==
    AtRest /\ window # NoWindow => window.src \in Opened /\ onClose = window.src

\* A ui that updates itself shows what the object has become, unless it goes away or
\* its user may not see it in the meantime.
AutoCatchesUp ==
    \A u \in Uis, v \in 1..MaxChanges :
      (u \in Opened /\ u \in AutoUis /\ window.src = u /\ dataVer = v)
        ~> (window.ver >= v \/ u \notin Opened \/ window.src # u
             \/ ui[u].status = 0 \/ usable <= 0)

\* A window that is closed once it has its on-close command closes its ui (nanoclose).
CloseIsHeard ==
    \A u \in Uis : (toServer # <<>> /\ Head(toServer) = [kind |-> "nanoclose", ui |-> u])
                     ~> u \notin Opened

\* The server and the window agree: at most one ui is open, and at rest it has the window
\* and the window has it.
WindowAgrees == UiTypeOK /\ OneOpen /\ OpenHasWindow /\ WindowHasOpen

\* What the two tell each other arrives: the status, what the object has become, and that
\* the window was closed.
UserIsTold == StatusIsTold /\ AutoCatchesUp /\ CloseIsHeard
=============================================================================
