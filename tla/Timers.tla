------------------------------- MODULE Timers -------------------------------
(***************************************************************************)
(* jQuery.timer: intervals kept in the data of an element under a label    *)
(* and a function (nano/js/libraries/jquery.timers.js).  The data goes     *)
(* when the element is replaced (cleanData()), the intervals do not know.  *)
(***************************************************************************)
EXTENDS Naturals, FiniteSets

CONSTANTS
    TimerElements, Labels, TimerFns,
    MaxTimers            \* bound: timers started

ASSUME TimersAssumption == MaxTimers \in Nat

VARIABLES
    intervals,           \* those of the browser
    timers,              \* what the data of the elements records: key and interval
    guid,                \* intervals started
    cleaned,             \* history: elements whose data was dropped
    cutOff               \* history: an interval was cleared, by another one, before its call

timerVars == <<intervals, timers, guid, cleaned, cutOff>>

Keys == TimerElements \X Labels \X TimerFns

\* times is 0 for one without an end.
TimersTypeOK ==
    /\ intervals \subseteq [id: 1..MaxTimers, key: Keys, times: {0, 1}, counter: 0..1]
    /\ timers \subseteq [id: 1..MaxTimers, key: Keys]
    /\ guid \in 0..MaxTimers
    /\ cleaned \subseteq TimerElements /\ cutOff \in BOOLEAN

TimersInit ==
    /\ intervals = {} /\ timers = {} /\ guid = 0 /\ cleaned = {} /\ cutOff = FALSE
----------------------------------------------------------------------------
\* Bug: a second timer under the same key takes the place of the first.
addOver(key, times) ==
    /\ guid' = guid + 1
    /\ intervals' = intervals \cup {[id |-> guid', key |-> key, times |-> times, counter |-> 0]}
    /\ timers' = {t \in timers : t.key # key} \cup {[id |-> guid', key |-> key]}

\* A timer that is there under this element, label and function is left as it is.
addTimer(key, times) ==
    IF \E t \in timers : t.key = key THEN UNCHANGED <<intervals, timers, guid>>
    ELSE addOver(key, times)

everyTime ==
    /\ guid < MaxTimers
    /\ \E key \in Keys, times \in {0, 1} : addTimer(key, times)
    /\ UNCHANGED <<cleaned, cutOff>>

\* remove( element, label, fn ): the intervals that are recorded.
cleared(keys) == {t.id : t \in {u \in timers : u.key \in keys}}

removeTimers(keys, running) ==
    /\ timers' = {t \in timers : t.key \notin keys}
    /\ intervals' = {i \in running : i.id \notin cleared(keys)}

\* stopTime() with a label and a function, a label, or nothing.
stopTime ==
    /\ \E e \in TimerElements, l \in SUBSET Labels, f \in SUBSET TimerFns :
         /\ Cardinality(l) = 1 \/ (l = Labels /\ f = TimerFns)
         /\ Cardinality(f) = 1 \/ f = TimerFns
         /\ removeTimers({e} \X l \X f, intervals)
    /\ UNCHANGED <<guid, cleaned, cutOff>>

lastCall(i) == i.times # 0 /\ i.counter + 1 > i.times

\* The handler: it counts, and ends the timer after its last call or when the call says so.
Tick(i) ==
    LET over    == lastCall(i)
        counted == (intervals \ {i}) \cup {[i EXCEPT !.counter = IF i.times = 0 THEN 0 ELSE @ + 1]}
    IN  /\ i \in intervals
        /\ \/ /\ over
              /\ removeTimers({i.key}, intervals)
           \/ /\ ~over
              /\ removeTimers({i.key}, counted)         \* the function returns false
           \/ /\ ~over
              /\ intervals' = counted /\ UNCHANGED timers
        /\ cutOff' = (cutOff \/ \E j \in intervals \ {i} : j.id \notin {k.id : k \in intervals'})
    /\ UNCHANGED <<guid, cleaned>>

\* The element is replaced, or its data removed: no interval is cleared.
cleanTimerData(e) ==
    /\ timers' = {t \in timers : t.key[1] # e}
    /\ cleaned' = cleaned \cup {e}
    /\ UNCHANGED <<intervals, guid, cutOff>>

\* The page is left.
unload ==
    /\ intervals # {}
    /\ removeTimers(Keys, intervals)
    /\ UNCHANGED <<guid, cleaned, cutOff>>

TimersNext ==
    \/ everyTime \/ stopTime \/ unload
    \/ \E i \in intervals : Tick(i)
    \/ \E e \in TimerElements : cleanTimerData(e)
TimersSpec == TimersInit /\ [][TimersNext]_timerVars

\* Intervals tick.
TimersFairness ==
    \A n \in 1..MaxTimers : WF_timerVars(\E i \in intervals : i.id = n /\ Tick(i))
----------------------------------------------------------------------------
(* Properties *)

\* Of an element that still has its data, an interval runs exactly when it is recorded:
\* what stopTime() and the end of the page do not find runs for ever (add(), remove()).
RunsIsRecorded ==
    /\ \A i \in intervals : i.key[1] \notin cleaned => [id |-> i.id, key |-> i.key] \in timers
    /\ \A t \in timers : \E i \in intervals : i.id = t.id

\* A timer is only ended by itself, by stopTime() or with the page; where data was dropped
\* an interval nobody knows of can end the one that follows it.
NotCutOff == cutOff => cleaned # {}

\* An interval that is to run once ends, unless its element was replaced.
OneTimeEnds ==
    \A n \in 1..MaxTimers :
      (\E i \in intervals : i.id = n /\ i.times = 1) ~>
        (cleaned # {} \/ ~\E i \in intervals : i.id = n)

\* What runs and what the data of the elements records agree, and no timer ends another.
TimersAgree == TimersTypeOK /\ RunsIsRecorded /\ NotCutOff
=============================================================================
