------------------------------ MODULE ChatMenu ------------------------------
(***************************************************************************)
(* The sliding parts of the chat page: the options and the audio menu,     *)
(* one of which is selected and closes by an interval when the pointer is  *)
(* elsewhere, and the ping display (browserOutput.js).  Slides are queued  *)
(* for each element and run one after the other.                           *)
(***************************************************************************)
EXTENDS Naturals, Sequences, FiniteSets

CONSTANT MaxSlides       \* bound: slides an element has in its queue

ASSUME MenuAssumption == MaxSlides \in Nat \ {0}

VARIABLES
    fx, shown,           \* of each element: its queue; whether it is displayed
    selectedSub,
    loops,               \* the intervals that run
    selectedSubLoop,     \* the one remembered
    suppressSubClose,    \* the pointer is on a menu or on a toggle
    pingDisabled

menuVars == <<fx, shown, selectedSub, loops, selectedSubLoop, suppressSubClose, pingDisabled>>

Subs == {"options", "audio"}
Elements == Subs \cup {"ping"}
Intervals == 1..2

MenuTypeOK ==
    /\ fx \in [Elements -> Seq({"up", "down"})]
    /\ \A el \in Elements : Len(fx[el]) <= MaxSlides + 1
    /\ shown \in [Elements -> BOOLEAN]
    /\ selectedSub \in Subs
    /\ loops \subseteq Intervals /\ selectedSubLoop \in Intervals \cup {0}
    /\ suppressSubClose \in BOOLEAN /\ pingDisabled \in BOOLEAN

\* is(':visible'): an element is, from the start of its slide down to the end of the one up.
isVisible(el) == shown[el] \/ (fx[el] # <<>> /\ Head(fx[el]) = "down")

MenuInit ==
    /\ pingDisabled \in BOOLEAN
    /\ fx = [el \in Elements |-> <<>>]
    /\ shown = [el \in Elements |-> el = "ping" /\ pingDisabled = FALSE]
    /\ selectedSub = "options" /\ loops = {} /\ selectedSubLoop = 0
    /\ suppressSubClose = FALSE
----------------------------------------------------------------------------
slide(el, way, queues) == [queues EXCEPT ![el] = Append(@, way)]

\* Bug: the interval of the menu that is left goes on.
startSubLoopMore ==
    \E i \in Intervals \ loops : loops' = loops \cup {i} /\ selectedSubLoop' = i

startSubLoop ==
    \E i \in Intervals \ loops :
      /\ loops' = (loops \ {selectedSubLoop}) \cup {i}
      /\ selectedSubLoop' = i

clearLoop == loops' = loops \ {selectedSubLoop} /\ UNCHANGED selectedSubLoop

handleToggleClick(sub) ==
    LET left == IF selectedSub # sub /\ isVisible(selectedSub)
                THEN slide(selectedSub, "up", fx) ELSE fx
    IN  /\ selectedSub' = sub
        /\ IF isVisible(sub) THEN fx' = slide(sub, "up", left) /\ clearLoop
           ELSE fx' = slide(sub, "down", left) /\ startSubLoop

Toggle ==
    /\ \A s \in Subs : Len(fx[s]) < MaxSlides
    /\ \E sub \in Subs : handleToggleClick(sub)
    /\ UNCHANGED <<shown, suppressSubClose, pingDisabled>>

\* A click into the messages.
MouseDown ==
    /\ Len(fx[selectedSub]) < MaxSlides
    /\ isVisible(selectedSub)
    /\ fx' = slide(selectedSub, "up", fx)
    /\ clearLoop
    /\ UNCHANGED <<shown, selectedSub, suppressSubClose, pingDisabled>>

\* An interval of five seconds is over.
SubLoop ==
    /\ loops # {}
    /\ ~suppressSubClose /\ isVisible(selectedSub)
    /\ fx' = slide(selectedSub, "up", fx)
    /\ clearLoop
    /\ UNCHANGED <<shown, selectedSub, suppressSubClose, pingDisabled>>

Pointer ==
    /\ suppressSubClose' = ~suppressSubClose
    /\ UNCHANGED <<fx, shown, selectedSub, loops, selectedSubLoop, pingDisabled>>

togglePing ==
    /\ Len(fx["ping"]) < MaxSlides
    /\ pingDisabled' = ~pingDisabled
    /\ fx' = slide("ping", IF pingDisabled THEN "down" ELSE "up", fx)
    /\ UNCHANGED <<shown, selectedSub, loops, selectedSubLoop, suppressSubClose>>

\* What is left when the element is as this way leaves it: the slides that have nothing to
\* do are over at once.
after(way, queue) ==
    LET n == CHOOSE k \in 0..Len(queue) :
               /\ \A i \in 1..k : queue[i] = way
               /\ k < Len(queue) => queue[k + 1] # way
    IN  SubSeq(queue, n + 1, Len(queue))

\* The slide at the head of an element's queue is over, the next one starts.
SlideEnds(el) ==
    /\ fx[el] # <<>>
    /\ fx' = [fx EXCEPT ![el] = after(Head(@), Tail(@))]
    /\ shown' = [shown EXCEPT ![el] = Head(fx[el]) = "down"]
    /\ UNCHANGED <<selectedSub, loops, selectedSubLoop, suppressSubClose, pingDisabled>>

\* The page is loaded again; the cookie has pingDisabled.
MenuReload ==
    /\ fx' = [el \in Elements |-> <<>>]
    /\ shown' = [el \in Elements |-> el = "ping" /\ ~pingDisabled]
    /\ selectedSub' = "options" /\ loops' = {} /\ selectedSubLoop' = 0
    /\ suppressSubClose' = FALSE
    /\ UNCHANGED pingDisabled

MenuNext ==
    \/ Toggle \/ MouseDown \/ SubLoop \/ Pointer \/ togglePing \/ MenuReload
    \/ \E el \in Elements : SlideEnds(el)
MenuSpec == MenuInit /\ [][MenuNext]_menuVars

\* Intervals and slides come to their end.
MenuFairness == WF_menuVars(SubLoop) /\ \A el \in Elements : WF_menuVars(SlideEnds(el))
----------------------------------------------------------------------------
(* Properties *)

\* A menu that is open and not about to close is the selected one and has exactly one
\* interval, the one remembered, whatever clicks came while menus slid
\* (handleToggleClick(), startSubLoop(), mousedown): another could never be cleared.
OpenHasLoop ==
    /\ Cardinality(loops) <= 1
    /\ \A s \in Subs :
         isVisible(s) /\ (\A i \in DOMAIN fx[s] : fx[s][i] # "up") =>
           s = selectedSub /\ loops = {selectedSubLoop}

\* ... and no interval is left without its menu.
LoopHasOpen == loops # {} => isVisible(selectedSub)

\* When it has stopped sliding, the ping display is there exactly when it is enabled.
PingAtRest == fx["ping"] = <<>> => shown["ping"] = ~pingDisabled

\* A menu closes unless the pointer is on it.
MenuCloses == \A s \in Subs : isVisible(s) ~> (~isVisible(s) \/ suppressSubClose)

\* Menus and their intervals come and go together, in whatever order clicks, slides, the
\* pointer and the intervals come, and what is open closes.
MenusClose == [](MenuTypeOK /\ OpenHasLoop /\ LoopHasOpen /\ PingAtRest) /\ MenuCloses
=============================================================================
