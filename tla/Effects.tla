------------------------------ MODULE Effects ------------------------------
(***************************************************************************)
(* The effects of jQuery (nano/js/libraries/jquery.js): every element has  *)
(* a queue whose animations run one after the other, the animations that   *)
(* run share a list of timers and one interval, and the functions called   *)
(* when they complete use all of it again.  What is called in what order   *)
(* is the list todo; a program's function runs when it is the first.       *)
(***************************************************************************)
EXTENDS Naturals, Sequences

CONSTANTS
    FxElements,
    FxKinds,             \* what is queued, of "show", "hide", "toggle", "to", "delay"
    QuickKinds,          \* those that may have no duration
    MaxFxOps             \* bound: what the program does

ASSUME EffectsAssumption ==
    /\ FxKinds \subseteq {"show", "hide", "toggle", "to", "delay"}
    /\ QuickKinds \subseteq FxKinds \ {"delay"}
    /\ MaxFxOps \in Nat

VARIABLES
    el,                  \* of each element: display, opacity, and what fxshow keeps
    queue, hooks,        \* of each: the queue; its hooks and the delay they would stop
    anims,               \* the animations so far
    fxTimers, interval,  \* those that tick, by number; whether the interval runs
    delays,              \* timeouts of delay()
    finishing,           \* elements that finish
    promised,            \* of each: the promise for its queue
    todo, fxOps,
    oddities,            \* history: what happened that the properties except,
    abandoned            \* and where finish() took a delay away with nothing to go on

fxVars == <<el, queue, hooks, anims, fxTimers, interval, delays, finishing, promised, todo, fxOps,
            oddities, abandoned>>

\* The original opacity; values between are rounded.
Full == 4
NoOpacity == Full + 1

Element ==
    [display: {"shown", "none"}, opacity: 0..Full,
     there: BOOLEAN, kept: 0..NoOpacity, hidden: {"unset", "yes", "no"}]
Items == [kind: FxKinds \cup {"inprogress"}, quick: BOOLEAN]
inprogress == [kind |-> "inprogress", quick |-> FALSE]
Numbers == 1..(2 * MaxFxOps)
NoDelay == 0

Animations ==
    [e: FxElements, kind: FxKinds, noop: BOOLEAN, start: 0..Full, end: 0..Full, orig: 0..Full,
     hides: BOOLEAN, left: 0..1, stopped: BOOLEAN, settled: {"no", "done", "failed"}]

EffectsTypeOK ==
    /\ el \in [FxElements -> Element]
    /\ queue \in [FxElements -> Seq(Items)]
    /\ hooks \in [FxElements -> [there: BOOLEAN, stop: Numbers \cup {NoDelay}]]
    /\ anims \in Seq(Animations)
    /\ fxTimers \in Seq(DOMAIN anims) /\ interval \in BOOLEAN
    /\ delays \subseteq FxElements \X Numbers
    /\ finishing \subseteq FxElements
    /\ promised \in [FxElements -> {"none", "waiting", "resolved"}]
    /\ fxOps \in 0..MaxFxOps /\ abandoned \subseteq FxElements

EffectsInit ==
    /\ el = [e \in FxElements |-> [display |-> "shown", opacity |-> Full,
                                   there |-> FALSE, kept |-> NoOpacity, hidden |-> "unset"]]
    /\ queue = [e \in FxElements |-> <<>>]
    /\ hooks = [e \in FxElements |-> [there |-> FALSE, stop |-> NoDelay]]
    /\ anims = <<>> /\ fxTimers = <<>> /\ interval = FALSE /\ delays = {} /\ finishing = {}
    /\ promised = [e \in FxElements |-> "none"]
    /\ todo = <<>> /\ fxOps = 0
    /\ oddities = {} /\ abandoned = {}
----------------------------------------------------------------------------
first == Head(todo)
doing(op) == todo # <<>> /\ first.op = op
instead(s) == todo' = s \o Tail(todo)

Dequeue(e) == [op |-> "dequeue", e |-> e]
Run(e, item) == [op |-> "run", e |-> e, item |-> item]
Complete(a) == [op |-> "complete", a |-> a]

removeAt(s, i) == SubSeq(s, 1, i - 1) \o SubSeq(s, i + 1, Len(s))

\* What happened, when it did.
odd(what, happened) == oddities' = oddities \cup IF happened THEN {what} ELSE {}

\* The program, or a function that is called.  It interferes when stop() or finish() have
\* not come to their end.
FxTurn ==
    /\ todo = <<>> \/ doing("user")
    /\ fxOps < MaxFxOps
    /\ fxOps' = fxOps + 1

interferes == \E i \in DOMAIN todo : todo[i].op \in {"stopLoop", "unflag"}

running(e) == {n \in DOMAIN anims : anims[n].e = e /\ anims[n].settled = "no"}

\* A complete() that goes on with the queue has called it.
awaited(e) == \E i \in DOMAIN todo : todo[i].op = "dequeue" /\ todo[i].e = e

\* queue(): a queue that is not busy begins.
Animate ==
    /\ FxTurn
    /\ odd("interfered", interferes)
    /\ \E e \in FxElements, kind \in FxKinds, quick \in BOOLEAN :
         /\ quick => kind \in QuickKinds
         /\ queue' = [queue EXCEPT ![e] = Append(@, [kind |-> kind, quick |-> quick])]
         /\ hooks' = [hooks EXCEPT ![e].there = TRUE]
         /\ todo' = IF Head(queue'[e]) = inprogress THEN todo ELSE <<Dequeue(e)>> \o todo
    /\ UNCHANGED <<el, anims, fxTimers, interval, delays, finishing, promised, abandoned>>

\* promise(): resolved at once when there is no queue.
FxPromise ==
    /\ FxTurn
    /\ odd("interfered", interferes)
    /\ \E e \in FxElements :
         /\ promised[e] = "none"
         /\ promised' = [promised EXCEPT ![e] = IF hooks[e].there THEN "waiting" ELSE "resolved"]
    /\ UNCHANGED <<el, queue, hooks, anims, fxTimers, interval, delays, finishing, todo, abandoned>>

\* dequeue() takes away the mark.
nextOf(q) == IF q # <<>> /\ Head(q) = inprogress THEN Tail(q) ELSE q

\* The next of the queue runs; when there is none the promise is kept and the hooks go.
DequeueNext ==
    /\ doing("dequeue")
    /\ LET e == first.e
           q == nextOf(queue[e])
       IN  IF q # <<>>
           THEN /\ queue' = [queue EXCEPT ![e] = <<inprogress>> \o Tail(q)]
                /\ hooks' = [hooks EXCEPT ![e] = [there |-> TRUE, stop |-> NoDelay]]
                /\ instead(<<Run(e, Head(q))>>)
                /\ UNCHANGED promised
           ELSE /\ queue' = [queue EXCEPT ![e] = <<>>]
                /\ hooks' = [hooks EXCEPT ![e] = [there |-> FALSE, stop |-> NoDelay]]
                /\ promised' = [promised EXCEPT ![e] = IF @ = "waiting" THEN "resolved" ELSE @]
                /\ instead(<<>>)
    /\ abandoned' = abandoned \ {first.e}
    /\ UNCHANGED <<el, anims, fxTimers, interval, delays, finishing, fxOps, oddities>>

\* delay(): a timeout that is none of those under way.
newDelay(e) == CHOOSE n \in Numbers : <<e, n>> \notin delays

RunDelay ==
    /\ doing("run") /\ first.item.kind = "delay"
    /\ delays' = delays \cup {<<first.e, newDelay(first.e)>>}
    /\ hooks' = [hooks EXCEPT ![first.e].stop = newDelay(first.e)]
    /\ instead(<<>>)
    /\ UNCHANGED <<el, queue, anims, fxTimers, interval, finishing, promised, fxOps, oddities,
                   abandoned>>

DelayEnds ==
    /\ todo = <<>>
    /\ \E d \in delays :
         /\ delays' = delays \ {d}
         /\ todo' = <<Dequeue(d[1])>>
    /\ UNCHANGED <<el, queue, hooks, anims, fxTimers, interval, finishing, promised, fxOps,
                   oddities, abandoned>>
----------------------------------------------------------------------------
(* An animation *)

leftover(x) == x.there /\ x.kept # NoOpacity

\* defaultPrefilter(): whether it has nothing to do, whether it starts from hidden, and the
\* values it goes through.
isNoop(x, kind) ==
    \/ kind = "show" /\ x.display = "shown" /\ ~leftover(x)
    \/ kind = "hide" /\ x.display = "none"
fromHidden(x, kind) == IF x.hidden # "unset" THEN x.hidden = "yes" ELSE x.display = "none" \/ kind = "show"

original(x) == IF leftover(x) /\ x.kept # 0 THEN x.kept ELSE x.opacity

Prepared(e, kind) ==
    LET x      == el[e]
        noop   == isNoop(x, kind)
        from   == fromHidden(x, kind)
    IN  [e |-> e, kind |-> kind, noop |-> noop \/ kind = "to",
         start |-> IF from /\ ~leftover(x) THEN 0 ELSE x.opacity,
         end   |-> IF from THEN IF leftover(x) THEN x.kept ELSE x.opacity ELSE 0,
         orig  |-> original(x), hides |-> ~from, left |-> 1, stopped |-> FALSE, settled |-> "no"]

\* The element once it is prepared; one that starts from hidden is shown.
begun(x, a) ==
    IF a.noop THEN x
    ELSE [x EXCEPT !.there = TRUE,
                   !.kept = IF leftover(x) THEN @ ELSE x.opacity,
                   !.hidden = IF a.kind # "toggle" THEN @ ELSE IF a.hides THEN "yes" ELSE "no",
                   !.display = IF a.hides THEN @ ELSE "shown",
                   !.opacity = a.start]

\* The tweens at an end, and what is called when it is done.
played(x, a) == IF a.noop THEN x ELSE [x EXCEPT !.opacity = a.end]

fxDone(x, a) ==
    IF a.noop THEN x
    ELSE [x EXCEPT !.display = IF a.hides THEN "none" ELSE @, !.opacity = a.orig,
                   !.there = FALSE, !.kept = NoOpacity, !.hidden = "unset"]

\* One without a duration or without anything to do is done before its timer is used.
RunAnimation ==
    /\ doing("run") /\ first.item.kind # "delay"
    /\ LET e    == first.e
           a    == Prepared(e, first.item.kind)
           n    == Len(anims) + 1
           sync == first.item.quick \/ (a.noop /\ a.kind # "to")
           rest == <<[op |-> "flagged", a |-> n]>>
       IN  IF sync
           THEN /\ anims' = Append(anims, [a EXCEPT !.settled = "done"])
                /\ el' = [el EXCEPT ![e] = fxDone(played(begun(@, a), a), a)]
                /\ instead(<<Complete(n)>> \o rest)
                /\ UNCHANGED <<fxTimers, interval>>
           ELSE /\ anims' = Append(anims, a)
                /\ el' = [el EXCEPT ![e] = begun(@, a)]
                /\ fxTimers' = Append(fxTimers, n) /\ interval' = TRUE
                /\ instead(rest)
    /\ UNCHANGED <<queue, hooks, delays, finishing, promised, fxOps, oddities, abandoned>>

\* complete(): the program's function, then the queue goes on.
Completes ==
    /\ doing("complete")
    /\ instead(<<[op |-> "user"], Dequeue(anims[first.a].e)>>)
    /\ UNCHANGED <<el, queue, hooks, anims, fxTimers, interval, delays, finishing, promised,
                   fxOps, oddities, abandoned>>

UserReturns ==
    /\ doing("user")
    /\ instead(<<>>)
    /\ UNCHANGED <<el, queue, hooks, anims, fxTimers, interval, delays, finishing, promised,
                   fxOps, oddities, abandoned>>

\* animation.stop(): what is to be done comes before the rest s.
stopAnimation(n, gotoEnd, s) ==
    LET a == anims[n]
    IN  /\ IF a.stopped THEN UNCHANGED <<anims, el>> /\ instead(s)
           ELSE IF gotoEnd
           THEN /\ el' = [el EXCEPT ![a.e] = IF a.settled = "no" THEN fxDone(played(@, a), a) ELSE played(@, a)]
                /\ anims' = [anims EXCEPT ![n].stopped = TRUE, ![n].settled = IF @ = "no" THEN "done" ELSE @]
                /\ instead((IF a.settled = "no" THEN <<Complete(n)>> ELSE <<>>) \o s)
           ELSE /\ anims' = [anims EXCEPT ![n].stopped = TRUE, ![n].settled = IF @ = "no" THEN "failed" ELSE @]
                /\ UNCHANGED el /\ instead(s)
        /\ oddities' = oddities \cup (IF ~gotoEnd /\ ~a.stopped /\ a.kind = "toggle" THEN {"turned"} ELSE {})
                                \cup (IF gotoEnd /\ ~a.stopped /\ a.settled # "no" THEN {"replayed"} ELSE {})

\* doAnimation(): an element that finishes does not wait.
Flagged ==
    /\ doing("flagged")
    /\ IF anims[first.a].e \in finishing THEN stopAnimation(first.a, TRUE, <<>>)
       ELSE instead(<<>>) /\ UNCHANGED <<el, anims, oddities>>
    /\ UNCHANGED <<queue, hooks, fxTimers, interval, delays, finishing, promised, fxOps, abandoned>>
----------------------------------------------------------------------------
(* The interval *)

FxInterval ==
    /\ interval /\ todo = <<>>
    /\ todo' = <<[op |-> "tick", i |-> 1]>>
    /\ UNCHANGED <<el, queue, hooks, anims, fxTimers, interval, delays, finishing, promised,
                   fxOps, oddities, abandoned>>

\* The next timer of the list: it was stopped, goes on, or is at its end.  One at its end
\* may be left in the list, when a callback took others out of it, and is played again.
TickTimer ==
    /\ doing("tick") /\ first.i <= Len(fxTimers)
    /\ LET i == first.i
           n == fxTimers[i]
           a == anims[n]
       IN  IF a.stopped
           THEN fxTimers' = removeAt(fxTimers, i) /\ UNCHANGED <<el, anims, todo, oddities>>
           ELSE IF a.settled # "no"
           THEN /\ fxTimers' = removeAt(fxTimers, i)
                /\ el' = [el EXCEPT ![a.e] = played(@, a)]
                /\ odd("replayed", TRUE)
                /\ UNCHANGED <<anims, todo>>
           ELSE /\ UNCHANGED <<fxTimers, oddities>>
                /\ \/ /\ a.left > 0
                      /\ anims' = [anims EXCEPT ![n].left = @ - 1]
                      /\ el' = [el EXCEPT ![a.e].opacity = IF a.noop THEN @ ELSE (a.start + a.end) \div 2]
                      /\ instead(<<[op |-> "tick", i |-> i + 1]>>)
                   \/ /\ anims' = [anims EXCEPT ![n].settled = "done"]
                      /\ el' = [el EXCEPT ![a.e] = fxDone(played(@, a), a)]
                      /\ instead(<<Complete(n), [op |-> "ticked", i |-> i, a |-> n]>>)
    /\ UNCHANGED <<queue, hooks, interval, delays, finishing, promised, fxOps, abandoned>>

isStill(i, n) == i <= Len(fxTimers) /\ fxTimers[i] = n

Ticked ==
    /\ doing("ticked")
    /\ LET i == first.i
       IN  IF isStill(i, first.a)
           THEN fxTimers' = removeAt(fxTimers, i) /\ instead(<<[op |-> "tick", i |-> i]>>)
           ELSE UNCHANGED fxTimers /\ instead(<<[op |-> "tick", i |-> i + 1]>>)
    /\ UNCHANGED <<el, queue, hooks, anims, interval, delays, finishing, promised, fxOps,
                   oddities, abandoned>>

TickEnds ==
    /\ doing("tick") /\ first.i > Len(fxTimers)
    /\ interval' = (fxTimers # <<>>)
    /\ instead(<<>>)
    /\ UNCHANGED <<el, queue, hooks, anims, fxTimers, delays, finishing, promised, fxOps,
                   oddities, abandoned>>
----------------------------------------------------------------------------
(* stop() and finish() *)

StopLoop(e, gotoEnd, i, dequeue) ==
    [op |-> "stopLoop", e |-> e, gotoEnd |-> gotoEnd, i |-> i, dequeue |-> dequeue, all |-> FALSE]
FinishLoop(e, i) ==
    [op |-> "stopLoop", e |-> e, gotoEnd |-> TRUE, i |-> i, dequeue |-> FALSE, all |-> TRUE]

\* An emptied queue is dequeued, which takes the hooks of a delay away.
Stop ==
    /\ FxTurn
    /\ \E e \in FxElements, clearQueue, gotoEnd \in BOOLEAN :
         /\ queue' = IF clearQueue THEN [queue EXCEPT ![e] = <<>>] ELSE queue
         /\ hooks' = IF clearQueue THEN [hooks EXCEPT ![e].there = TRUE] ELSE hooks
         /\ todo' = (IF clearQueue THEN <<Dequeue(e)>> ELSE <<>>)
                    \o <<[op |-> "stopHooks", e |-> e, gotoEnd |-> gotoEnd]>> \o todo
         /\ oddities' = oddities \cup (IF interferes THEN {"interfered"} ELSE {})
                \cup (IF awaited(e) THEN {"twice"} ELSE {})
                \cup (IF clearQueue /\ \E d \in delays : d[1] = e THEN {"astray"} ELSE {})
    /\ UNCHANGED <<el, anims, fxTimers, interval, delays, finishing, promised, abandoned>>

StopHooks ==
    /\ doing("stopHooks")
    /\ LET e == first.e
       IN  /\ delays' = delays \ {<<e, hooks[e].stop>>}
           /\ hooks' = [hooks EXCEPT ![e].stop = NoDelay]
           /\ instead(<<StopLoop(e, first.gotoEnd, Len(fxTimers), TRUE)>>)
    /\ UNCHANGED <<el, queue, anims, fxTimers, interval, finishing, promised, fxOps, oddities,
                   abandoned>>

\* The animations of the queue so far; a delay and the mark have no finish.
ofOld(e) ==
    LET items == SelectSeq(queue[e], LAMBDA item : item.kind \notin {"inprogress", "delay"})
    IN  [i \in DOMAIN items |-> Run(e, items[i])]

\* Nothing will go on with the queue once the delay that the hooks know is taken away.
abandons(e) ==
    /\ {d \in delays : d[1] = e} = {<<e, hooks[e].stop>>}
    /\ running(e) = {} /\ ofOld(e) = <<>> /\ ~awaited(e)

\* The queue is emptied, but not dequeued; the hooks stay as they are.
Finish ==
    /\ FxTurn
    /\ \E e \in FxElements :
         /\ oddities' = oddities \cup (IF interferes THEN {"interfered"} ELSE {})
                                 \cup (IF awaited(e) THEN {"twice"} ELSE {})
         /\ abandoned' = IF abandons(e) THEN abandoned \cup {e} ELSE abandoned
         /\ finishing' = finishing \cup {e}
         /\ queue' = [queue EXCEPT ![e] = <<>>]
         /\ delays' = delays \ {<<e, hooks[e].stop>>}
         /\ todo' = <<FinishLoop(e, Len(fxTimers))>> \o ofOld(e)
                    \o <<[op |-> "unflag", e |-> e]>> \o todo
    /\ UNCHANGED <<el, hooks, anims, fxTimers, interval, promised>>

\* The timers from the last one; one that is not there any more is an exception.
StopLoops ==
    /\ doing("stopLoop") /\ first.i > 0
    /\ LET l == first
           again(dequeue) == [l EXCEPT !.i = @ - 1, !.dequeue = dequeue]
       IN  IF l.i > Len(fxTimers)
           THEN todo' = <<>> /\ UNCHANGED <<el, anims, oddities>>
           ELSE IF anims[fxTimers[l.i]].e = l.e
           THEN stopAnimation(fxTimers[l.i], l.gotoEnd, <<[op |-> "splice", i |-> l.i], again(FALSE)>>)
           ELSE instead(<<again(l.dequeue)>>) /\ UNCHANGED <<el, anims, oddities>>
    /\ UNCHANGED <<queue, hooks, fxTimers, interval, delays, finishing, promised, fxOps, abandoned>>

Splice ==
    /\ doing("splice")
    /\ fxTimers' = IF first.i <= Len(fxTimers) THEN removeAt(fxTimers, first.i) ELSE fxTimers
    /\ instead(<<>>)
    /\ UNCHANGED <<el, queue, hooks, anims, interval, delays, finishing, promised, fxOps,
                   oddities, abandoned>>

\* Bug: it goes on twice when the end is forced.
goesOnTwice(l) == TRUE

\* What is done with its end forced goes on by its complete().
goesOn(l) == l.dequeue \/ ~l.gotoEnd

StopEnds ==
    /\ doing("stopLoop") /\ first.i = 0
    /\ instead(IF ~first.all /\ goesOn(first) THEN <<Dequeue(first.e)>> ELSE <<>>)
    /\ UNCHANGED <<el, queue, hooks, anims, fxTimers, interval, delays, finishing, promised,
                   fxOps, oddities, abandoned>>

Unflag ==
    /\ doing("unflag")
    /\ finishing' = finishing \ {first.e}
    /\ instead(<<>>)
    /\ UNCHANGED <<el, queue, hooks, anims, fxTimers, interval, delays, promised, fxOps,
                   oddities, abandoned>>

FxProgram == Animate \/ FxPromise \/ Stop \/ Finish
FxSteps ==
    \/ DequeueNext \/ RunDelay \/ RunAnimation \/ Completes \/ UserReturns \/ Flagged
    \/ TickTimer \/ Ticked \/ TickEnds
    \/ StopHooks \/ StopLoops \/ Splice \/ StopEnds \/ Unflag
EffectsNext == FxProgram \/ FxSteps \/ FxInterval \/ DelayEnds
EffectsSpec == EffectsInit /\ [][EffectsNext]_fxVars

\* What is called returns; intervals and timeouts come.
EffectsFairness == WF_fxVars(FxSteps) /\ WF_fxVars(FxInterval) /\ WF_fxVars(DelayEnds)
----------------------------------------------------------------------------
(* Properties *)

\* stop() and finish() take the place of a timer for granted, which their callbacks may
\* change; stop( true ) does not find the timeout of a delay; a queue that is stopped by a
\* complete() goes on twice.
usual == oddities \cap {"interfered", "astray"} = {}

\* Every animation that is not settled is in the list of timers, and the interval runs for
\* the list: no callback that animates or stops others, in the middle of a round of the
\* interval, makes the round leave one out for good (fx.tick()).
NoneIsLost ==
    usual =>
      /\ \A e \in FxElements : \A n \in running(e) : \E i \in DOMAIN fxTimers : fxTimers[i] = n
      /\ todo = <<>> /\ fxTimers # <<>> => interval

\* A queue that waits, waits for an animation or a delay that will end: its mark stands for
\* exactly one.
OneAtATime ==
    usual /\ "twice" \notin oddities /\ todo = <<>> =>
      \A e \in FxElements :
        LET busy == running(e)
            late == {d \in delays : d[1] = e}
        IN  /\ queue[e] # <<>> => Head(queue[e]) = inprogress
            /\ queue[e] # <<>> <=> busy \cup late # {}
            /\ \A x, y \in busy \cup late : x = y

\* When a hide is complete the element is hidden, when a show is it is shown, whatever was
\* stopped before; a stopped toggle leaves a direction that the next one takes for its own.
ShownAsAsked ==
    doing("complete") /\ "turned" \notin oddities =>
      LET a == anims[first.a]
      IN  /\ a.kind = "hide" => el[a.e].display = "none"
          /\ a.kind = "show" => el[a.e].display = "shown"

\* The original look is never lost: an element that nothing is kept of has it, and of others
\* it is what is kept, however often animations are stopped half way (fxshow).  An
\* animation that is stopped, or ticks, when it is at its end already is played once more.
LookIsKept ==
    "replayed" \notin oddities => \A e \in FxElements :
      IF leftover(el[e]) THEN el[e].kept = Full ELSE el[e].opacity = Full

\* The promise of a queue is resolved, unless finish() took away the delay that its queue
\* waited for: that empties the queue and leaves the promise and the hooks to whatever is
\* queued next.
PromiseIsKept ==
    \A e \in FxElements :
      promised[e] = "waiting" ~> (promised[e] = "resolved" \/ e \in abandoned \/ ~usual)

\* Queues, timers and the looks of elements agree, whatever the functions of animations do,
\* and a queue comes to its end.
QueuesEnd ==
    /\ [](EffectsTypeOK /\ NoneIsLost /\ OneAtATime /\ ShownAsAsked /\ LookIsKept)
    /\ PromiseIsKept
=============================================================================
