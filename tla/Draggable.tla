------------------------------- MODULE Draggable -------------------------------
(***************************************************************************)
(* Elements that can be dragged (the mouse and draggable widgets of        *)
(* nano/js/libraries/jquery-ui.js): each is inside the next, all share     *)
(* mouseHandled, and one that is pressed binds to the mouse's events of    *)
(* the document.  A release outside the window is not heard.  Handlers     *)
(* change D, all that the library keeps, in turn; a function of the        *)
(* program that is called by one returns true or false, or cancels or      *)
(* destroys the widget.  Where a dragged element is put is a part of its   *)
(* own at the end.                                                         *)
(***************************************************************************)
EXTENDS Integers, Sequences, FiniteSets

CONSTANTS
    WidgetCount,
    DragOptions,         \* of the widgets, their options: see OptionRecords
    MaxPresses, MaxDragOps   \* bounds: presses, and what the program does

Widgets == 1..WidgetCount
NoPress == 0
Nowhere == 0
Presses == 1..MaxPresses
Replies == {"true", "false", "cancel", "destroy"}

\* A distance of 0, a delay, revert, a clone for helper.
OptionRecords == [near: BOOLEAN, delay: BOOLEAN, revert: BOOLEAN, clone: BOOLEAN]

ASSUME DraggableAssumption ==
    /\ WidgetCount \in Nat \ {0} /\ MaxPresses \in Nat /\ MaxDragOps \in Nat
    /\ DragOptions \subseteq [Widgets -> OptionRecords]

VARIABLES
    options,             \* of each widget
    G,                   \* what the library keeps: see DragState
    button,                \* the button that is pressed, for the user
    target,              \* where the last one was
    clickDue,            \* a click is next, there
    presses, dragOps,
    unheard, astray      \* history: a release was not heard; a press was canceled from outside

dragVars == <<options, G, button, target, clickDue, presses, dragOps, unheard, astray>>

\* prevent belongs to where the mouse was pressed, bound are the presses whose delegates the
\* document has for a widget, the last one's is the one it knows; spare, dragged,
\* swallowed, canceled and stale are history: a clone was left over, the last press dragged,
\* its click was swallowed, a handler of start canceled, and what was kept for a click waits
\* for a later one.
WidgetRecords ==
    [exists: BOOLEAN, listens: BOOLEAN, disabled: BOOLEAN,
     started: BOOLEAN, moved: BOOLEAN, delayMet: BOOLEAN, press: Presses \cup {NoPress},
     from: Widgets \cup {Nowhere}, bound: SUBSET Presses,
     helper: {"none", "original", "clone"}, state: {"rest", "drag", "revert", "kept"},
     destroyOnClear: BOOLEAN]

DraggableTypeOK ==
    /\ options \in [Widgets -> OptionRecords]
    /\ G.w \in [Widgets -> WidgetRecords]
    /\ G.mouseHandled \in BOOLEAN /\ G.prevent \subseteq Widgets /\ G.spare \in BOOLEAN
    /\ G.dragged \in BOOLEAN
    /\ button \in {"none", "left", "right"} /\ target \in Widgets \cup {Nowhere} /\ clickDue \in BOOLEAN
    /\ presses \in 0..MaxPresses /\ dragOps \in 0..MaxDragOps

DraggableInit ==
    /\ options \in DragOptions
    /\ G = [w |-> [w \in Widgets |->
               [exists |-> TRUE, listens |-> TRUE, disabled |-> FALSE, started |-> FALSE, moved |-> FALSE,
                delayMet |-> FALSE, press |-> NoPress, from |-> Nowhere, bound |-> {},
                helper |-> "none", state |-> "rest", destroyOnClear |-> FALSE]],
            mouseHandled |-> FALSE, prevent |-> {}, spare |-> FALSE, dragged |-> FALSE,
            swallowed |-> FALSE, canceled |-> FALSE, stale |-> FALSE]
    /\ button = "none" /\ target = Nowhere /\ clickDue = FALSE
    /\ presses = 0 /\ dragOps = 0 /\ unheard = FALSE /\ astray = FALSE
----------------------------------------------------------------------------
(* destroy(), _clear() and _mouseStop() change what is kept of one widget, x *)

mouseDestroy(x) == [x EXCEPT !.listens = FALSE, !.bound = @ \ {x.press}]

\* One that is dragged waits for _clear() to go.
destroy(x) ==
    LET gone == [x EXCEPT !.exists = FALSE]
    IN  IF x.helper # "none" THEN [gone EXCEPT !.destroyOnClear = TRUE] ELSE mouseDestroy(gone)

_clear(x) ==
    LET rested == [x EXCEPT !.helper = "none", !.state = "rest"]
    IN  IF x.destroyOnClear THEN destroy(rested) ELSE rested

\* The program destroys it, once.
destroyed(x) == IF x.exists THEN destroy(x) ELSE x

\* The handlers of stop; a cancel() there finds nothing to stop.
stopped(x, reply) ==
    CASE reply = "false"   -> [x EXCEPT !.state = "kept"]
      [] reply = "destroy" -> _clear(destroyed(x))
      [] reply \in {"true", "cancel"} -> _clear(x)

_mouseStop(x, w, reply) == IF options[w].revert THEN [x EXCEPT !.state = "revert"] ELSE stopped(x, reply)

\* Bug: the delegates stay.
_mouseUpBound(D, w, at, reply) ==
    LET x == D.w[w]
    IN  [D EXCEPT !.w[w] = IF x.started THEN _mouseStop([x EXCEPT !.started = FALSE], w, reply) ELSE x,
                  !.mouseHandled = FALSE]

\* _mouseUp() with the release on at; what was bound by the last press is taken back.
_mouseUp(D, w, at, reply) ==
    LET x     == D.w[w]
        freed == [x EXCEPT !.bound = @ \ {x.press}]
        ended == _mouseStop([freed EXCEPT !.started = FALSE], w, reply)
    IN  IF ~x.started THEN [D EXCEPT !.w[w] = freed, !.mouseHandled = FALSE]
        ELSE [D EXCEPT !.w[w] = ended, !.mouseHandled = FALSE, !.dragged = TRUE,
                       !.prevent = IF at = x.from THEN @ \cup ({at} \ {Nowhere}) ELSE @]

\* A release that was missed: a mouse that comes back is over.
missedUp(D, w, at, reply) == [_mouseUp(D, w, at, reply) EXCEPT !.stale = @ \/ at = D.w[w].from]

cancel(D, w, reply) == IF D.w[w].helper # "none" THEN _mouseUp(D, w, Nowhere, reply) ELSE D
----------------------------------------------------------------------------
(* _mouseDown(), _mouseMove() *)

began(D, w) == [D EXCEPT !.w[w] = [@ EXCEPT !.started = TRUE]]

\* After the handlers of start; one that cancels is too early, its drag begins none the less.
afterStart(D, w, reply) ==
    CASE reply = "false"   -> [D EXCEPT !.w[w] = _clear(@)]
      [] reply = "cancel"  -> [began(cancel(D, w, "true"), w) EXCEPT !.canceled = TRUE]
      [] reply = "destroy" -> began([D EXCEPT !.w[w] = destroyed(@)], w)
      [] reply = "true"    -> began(D, w)

_mouseStart(D, w, reply) ==
    LET x == [D.w[w] EXCEPT !.helper = IF options[w].clone THEN "clone" ELSE "original", !.state = "drag"]
    IN  afterStart([D EXCEPT !.w[w] = x, !.spare = @ \/ D.w[w].helper = "clone"], w, reply)

_mouseCapture(x, left) == left /\ x.helper = "none" /\ ~x.disabled

already(D) == D.mouseHandled

\* A drag whose release was missed ends first, its handlers of stop return over.
_mouseDown(D, w, n, at, left, over, reply) ==
    LET fresh   == [D EXCEPT !.w[w] = [@ EXCEPT !.moved = FALSE]]
        ended   == IF D.w[w].started THEN missedUp(fresh, w, at, over) ELSE fresh
        x       == [ended.w[w] EXCEPT !.from = at]
        pressed == [ended EXCEPT !.w[w] = [x EXCEPT !.delayMet = ~options[w].delay]]
        sooner  == options[w].near /\ ~options[w].delay
        begun   == IF sooner THEN _mouseStart(pressed, w, reply) ELSE pressed
    IN  IF ~D.w[w].listens \/ already(D) THEN D
        ELSE IF ~_mouseCapture(x, left) THEN [ended EXCEPT !.w[w] = x]
        ELSE IF sooner /\ ~begun.w[w].started THEN begun
        ELSE [begun EXCEPT !.w[w] = [@ EXCEPT !.press = n, !.bound = begun.w[w].bound \cup {n}],
                           !.prevent = @ \ {at}, !.mouseHandled = TRUE]

\* drag is called; a cancel() has put the helper away by the time it is to be placed.
_mouseDrag(D, w, reply) ==
    CASE reply = "false"   -> _mouseUp(D, w, Nowhere, "true")
      [] reply = "cancel"  -> cancel(D, w, "true")
      [] reply = "destroy" -> [D EXCEPT !.w[w] = destroyed(@)]
      [] reply = "true"    -> D

\* A mouse that comes back without a button was released elsewhere.  A start is followed by
\* a first drag, whose handlers return then.
_mouseMove(D, w, pressed, at, far, reply, then) ==
    LET x     == D.w[w]
        moved == [D EXCEPT !.w[w] = [x EXCEPT !.moved = x.moved \/ pressed]]
        begun == _mouseStart(moved, w, reply)
    IN  IF x.moved /\ ~pressed THEN missedUp(D, w, at, reply)
        ELSE IF x.started THEN _mouseDrag(moved, w, reply)
        ELSE IF ~((far \/ options[w].near) /\ x.delayMet) THEN moved
        ELSE IF begun.w[w].started THEN _mouseDrag(begun, w, then) ELSE _mouseUp(begun, w, Nowhere, reply)

\* The events of the mouse, e.
mousedown(at, left, over, reply) ==
    [type |-> "mousedown", at |-> at, left |-> left, over |-> over, reply |-> reply]
mousemove(at, far, reply, then) == [type |-> "mousemove", at |-> at, far |-> far, reply |-> reply, then |-> then]
mouseup(at, reply) == [type |-> "mouseup", at |-> at, reply |-> reply]

\* Those that hear it: a press those it is in, from the inside out; for the others a widget
\* binds to the document.
delegating == {w \in Widgets : G.w[w].bound # {}}
hearing(e) == IF e.type = "mousedown" THEN e.at..WidgetCount ELSE delegating

heard(D, w, e) ==
    CASE e.type = "mousedown" -> _mouseDown(D, w, presses + 1, e.at, e.left, e.over, e.reply)
      [] e.type = "mousemove" -> _mouseMove(D, w, button # "none", e.at, e.far, e.reply, e.then)
      [] e.type = "mouseup"   -> _mouseUp(D, w, e.at, e.reply)

\* A widget that is bound to the document more than once hears it again.
again(e, w) == e.type # "mousedown" /\ Cardinality(G.w[w].bound) > 1

\* Each has two turns, 2w - 1 and 2w.
turn(n) == (n + 1) \div 2
hears(e, n) == turn(n) \in hearing(e) /\ (n = 2 * turn(n) => again(e, turn(n)))

each(D, e) ==
    LET all[n \in 0..(2 * WidgetCount)] ==
          IF n = 0 THEN D
          ELSE IF hears(e, n) THEN heard(all[n - 1], turn(n), e)
          ELSE all[n - 1]
    IN  all[2 * WidgetCount]
----------------------------------------------------------------------------
(* The user *)

\* What a press begins with.
MouseDown ==
    /\ button = "none" /\ ~clickDue /\ presses < MaxPresses
    /\ \E at \in Widgets, left \in BOOLEAN, over, reply \in Replies :
         /\ G' = each([G EXCEPT !.dragged = FALSE, !.swallowed = FALSE], mousedown(at, left, over, reply))
         /\ target' = at
         /\ button' = IF left THEN "left" ELSE "right"
    /\ presses' = presses + 1
    /\ UNCHANGED <<options, clickDue, dragOps, unheard, astray>>

MouseMove ==
    /\ delegating # {} /\ ~clickDue
    /\ \E at \in {target, Nowhere}, far \in BOOLEAN, reply, then \in Replies :
         G' = each(G, mousemove(at, far, reply, then))
    /\ UNCHANGED <<options, button, target, clickDue, presses, dragOps, unheard, astray>>

\* A release in the document, where it was pressed or not, clicks there.
MouseUp ==
    /\ button # "none"
    /\ button' = "none"
    /\ \E same \in BOOLEAN, reply \in Replies :
         LET after == each([G EXCEPT !.mouseHandled = FALSE], mouseup(IF same THEN target ELSE Nowhere, reply))
         IN  /\ clickDue' = (same /\ button = "left")
             /\ G' = [after EXCEPT !.stale = @ \/ (after.prevent # {} /\ ~clickDue')]
    /\ unheard' = FALSE
    /\ UNCHANGED <<options, target, presses, dragOps, astray>>

MouseUpOutside ==
    /\ button # "none"
    /\ button' = "none" /\ unheard' = TRUE
    /\ UNCHANGED <<options, G, target, clickDue, presses, dragOps, astray>>

swallow(D) == [D EXCEPT !.prevent = @ \ {target}, !.swallowed = TRUE]

\* The click handlers from where it is outwards; the first that knows of a drag swallows it.
MouseClick ==
    /\ clickDue
    /\ clickDue' = FALSE
    /\ G' = IF target \in G.prevent /\ \E w \in target..WidgetCount : G.w[w].listens
            THEN swallow(G) ELSE G
    /\ UNCHANGED <<options, button, target, presses, dragOps, unheard, astray>>
----------------------------------------------------------------------------
(* The clock and the program *)

\* The timeout of a delay, which a release does not take back.
DelayMet ==
    /\ \E w \in Widgets :
         /\ options[w].delay /\ ~G.w[w].delayMet /\ G.w[w].press # NoPress
         /\ G' = [G EXCEPT !.w[w] = [@ EXCEPT !.delayMet = TRUE]]
    /\ UNCHANGED <<options, button, target, clickDue, presses, dragOps, unheard, astray>>

Reverted ==
    /\ \E w \in Widgets, reply \in Replies :
         /\ G.w[w].state = "revert"
         /\ G' = [G EXCEPT !.w[w] = stopped(@, reply)]
    /\ UNCHANGED <<options, button, target, clickDue, presses, dragOps, unheard, astray>>

DragProgram ==
    /\ dragOps < MaxDragOps
    /\ dragOps' = dragOps + 1
    /\ \E w \in Widgets, reply \in Replies :
         /\ G.w[w].exists
         /\ \/ G' = [G EXCEPT !.w[w] = destroy(@)] /\ UNCHANGED astray
            \/ G' = [G EXCEPT !.w[w] = [@ EXCEPT !.disabled = ~G.w[w].disabled]] /\ UNCHANGED astray
            \/ /\ G' = cancel(G, w, reply)
               /\ astray' = (astray \/ button # "none" \/ unheard)
    /\ UNCHANGED <<options, button, target, clickDue, presses, unheard>>

DraggableNext ==
    \/ MouseDown \/ MouseMove \/ MouseUp \/ MouseUpOutside \/ MouseClick
    \/ DelayMet \/ Reverted \/ DragProgram
DraggableSpec == DraggableInit /\ [][DraggableNext]_dragVars
----------------------------------------------------------------------------
(* Properties *)

\* No cancel() in the middle of a press, one whose release was not heard as well, or in a
\* handler of start, where it comes too early.
expected == ~astray /\ ~G.canceled

busy(w) == G.w[w].bound # {} \/ G.w[w].started

\* "don't let more than one widget handle mouseStart", also when widgets are inside each
\* other.
OneAtWork == \A v, w \in Widgets : busy(v) /\ busy(w) /\ expected => v = w

\* A widget is bound to the document once, whatever releases were not heard: each move is
\* heard once, and the release takes all of it back.
BoundOnce == expected => \A w \in Widgets : Cardinality(G.w[w].bound) <= 1

\* After a release that was heard nothing goes on with the mouse (_mouseUp()).
LetGo == button = "none" /\ ~unheard /\ expected => \A w \in Widgets : ~busy(w)

\* What is dragged about is there for a drag, for its way back, or because a handler of stop
\* kept it, and no clone is left over (_clear()).
HelperGoes ==
    expected =>
    /\ \A w \in Widgets :
         CASE G.w[w].helper = "none" -> ~G.w[w].started /\ G.w[w].state = "rest"
           [] G.w[w].helper # "none" -> G.w[w].started <=> G.w[w].state = "drag"
    /\ ~G.spare

\* A widget that was destroyed in the middle of a drag goes once the drag has ended.
DestroyedGoes ==
    expected => \A w \in Widgets : ~G.w[w].exists /\ G.w[w].helper = "none" => ~G.w[w].listens /\ ~busy(w)

\* A click is swallowed only when its own press dragged something; what is kept for a drag
\* that has no click of its own, as its release was not heard, waits for another.
ClickIsHeard == G.swallowed /\ ~G.stale /\ ~G.canceled => G.dragged

\* At most one widget is at the mouse, bound to it once, and everything of a drag goes with
\* it: the bindings, the helper, the widget that was destroyed, the click.
DragsEnd ==
    /\ DraggableTypeOK /\ OneAtWork /\ BoundOnce /\ LetGo /\ HelperGoes /\ DestroyedGoes
    /\ ClickIsHeard
----------------------------------------------------------------------------
(* Where a dragged element is put, in one dimension: the place of the      *)
(* mouse, held inside a containment and on a grid, less where it took the  *)
(* element and the offsets of the parents.                                 *)

CONSTANTS
    Pages,               \* places of the mouse
    Offsets,             \* scrolls and offsets of parents
    Margins,             \* margins, borders and paddings
    Grids                \* widths of a grid

ASSUME PlacesAssumption ==
    Pages \subseteq Int /\ Offsets \subseteq Int /\ Margins \subseteq Nat /\ Grids \subseteq Nat

VARIABLE place           \* an element that is dragged
placeVars == <<place>>

NoGrid == -1

\* The helper and the container; a containment is the document or the parent.
Places ==
    [page: Pages, origin: Pages, click: {1}, parent: Offsets, relative: {1}, scroll: Offsets,
     position: {"fixed", "absolute"}, root: BOOLEAN, grid: Grids \cup {NoGrid}, axis: BOOLEAN,
     containment: {"none", "document", "parent"}, container: Offsets, margin: Margins, border: Margins, width: {4, 7}]
PlaceInit == place \in Places
----------------------------------------------------------------------------
helperWidth == 2
\* The margin to the right is another.
marginRight(p) == p.margin + 1
containerLeft(p) == p.container

\* The least and the greatest place of the margin; those of a parent move with it.
setContainment(p) ==
    IF p.containment = "document"
    THEN <<0, p.width - helperWidth - p.margin>>
    ELSE <<containerLeft(p) + p.border,
           containerLeft(p) + p.width - p.border - helperWidth - p.margin - marginRight(p)>>

fits(p) == setContainment(p)[1] <= setContainment(p)[2]

\* Math.round( x / g )
round(x, g) == (2 * x + g) \div (2 * g)

heldInside(p, x) ==
    LET c == setContainment(p)
        y == IF x - p.click < c[1] THEN c[1] + p.click ELSE x
    IN  IF p.containment = "none" THEN x
        ELSE IF x - p.click > c[2] THEN c[2] + p.click ELSE y

\* A grid of 0 does not move it; one step back into the containment at its beginning.
onGrid(p, x) ==
    LET top == IF p.grid = 0 THEN p.origin ELSE p.origin + round(x - p.origin, p.grid) * p.grid
    IN  IF p.grid = NoGrid THEN x
        ELSE IF p.containment = "none" \/ top - p.click >= setContainment(p)[1] THEN top
        ELSE top + p.grid

\* The place of the mouse that counts.
constrained(p) == IF p.axis THEN p.origin ELSE onGrid(p, heldInside(p, p.page))

scrollOf(p) == IF p.position = "fixed" THEN -p.scroll ELSE IF p.root THEN 0 ELSE p.scroll

_generatePosition(p) == constrained(p) - p.click - p.relative - p.parent + scrollOf(p)

_convertPositionTo(p, at) == at + p.relative + p.parent - scrollOf(p)
----------------------------------------------------------------------------
(* Properties *)

\* What is told of where the element is on the page is where the mouse holds it, whatever
\* is scrolled and positioned between (positionAbs).
HeldByTheMouse == _convertPositionTo(place, _generatePosition(place)) = constrained(place) - place.click

\* The helper with its margins stays in the content of its parent, in the document without
\* the right one; on a grid it may go on by less than a step of it.
StaysInside ==
    LET p    == place
        left == constrained(p) - p.click
        step == IF p.grid = NoGrid THEN 0 ELSE p.grid
        over == IF step = 0 THEN 0 ELSE step - 1
    IN  p.containment # "none" /\ fits(p) /\ ~p.axis /\ p.grid # 0 =>
        IF p.containment = "document"
        THEN left >= 0 /\ left + p.margin + helperWidth <= p.width + over
        ELSE /\ left >= containerLeft(p) + p.border
             /\ left + p.margin + helperWidth + marginRight(p) <= containerLeft(p) + p.width - p.border + over

\* Where an element is put and where it is told to be.
PlacedInside == HeldByTheMouse /\ StaysInside

\* Dragging, and where it puts the element.
DragsAsAsked == DragsEnd /\ PlacedInside
============================================================================
