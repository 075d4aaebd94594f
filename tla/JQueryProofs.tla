---------------------------- MODULE JQueryProofs ----------------------------
(***************************************************************************)
(* What waits in the page (functions for the document, intervals for their *)
(* next tick, a deferred for several others), the places of elements among *)
(* their siblings, callback lists of any kind and the deferreds made of    *)
(* three of them, whatever callbacks do while they run, and the events of  *)
(* elements, whatever their handlers do.                                   *)
(***************************************************************************)
EXTENDS Events, Ready, Timers, When, ChildIndex, CallbackList, Deferred, SequenceTheorems,
        FiniteSetTheorems, WellFoundedInduction, TLAPS

(* $(document).ready() *)

\* The event itself counts among those who hold it back until it has come, with a body.
ReadyCount ==
    /\ holds \in 0..MaxHolds
    /\ readyWait = IF isReady THEN holds ELSE holds + 1
    /\ isReady => body
    /\ readyList = "resolved" => isReady /\ holds = 0

\* The document is listened to, or a timeout pending, once at most, and for functions only.
ListensOnce ==
    /\ timeouts \in {0, 1}
    /\ listening => timeouts = 0
    /\ readyList = "none" => timeouts = 0 /\ ~listening

FunctionsRun ==
    /\ readyFns \in Nat /\ readyRan \in Nat /\ readyRan <= readyFns
    /\ readyState \in {"loading", "interactive", "complete"}
    /\ readyList \in {"none", "waiting", "resolved"}

ReadyInv == ReadyCount /\ ListensOnce /\ FunctionsRun

LEMMA ReadyStart == ReadyInit => ReadyInv
BY ReadyAssumption DEF ReadyInit, ReadyInv, ReadyCount, ListensOnce, FunctionsRun

\* The event comes, for those who have waited for it: the document has a body, and either
\* nobody holds it back or the last one to do so lets go.
LEMMA ReadyCalled ==
    ASSUME ReadyInv, NEW wait \in BOOLEAN, NEW calls \in {0, 1}, ready(wait, calls),
           readyList # "none", UNCHANGED <<readyFns, holds>> \/ (wait /\ readyFns' = readyFns),
           holds' = IF wait THEN holds - 1 ELSE holds, wait => holds > 0,
           wait \/ calls = 0, body => body', readyState' \in {"loading", "interactive", "complete"}
    PROVE  /\ ReadyCount' /\ FunctionsRun'
           /\ timeouts' \in {0, 1} /\ readyList' # "none" /\ (wait => timeouts' = calls)
           /\ readyList' # readyList /\ readyList' = "resolved" => body' /\ holds' = 0
<1>1. holds \in Nat /\ holds' \in 0..MaxHolds /\ readyFns' = readyFns /\ MaxHolds \in Nat
  BY ReadyAssumption DEF ReadyInv, ReadyCount
<1>2. CASE wait
  BY <1>1, <1>2 DEF ready, ReadyInv, ReadyCount, FunctionsRun
<1>3. CASE ~wait
  BY <1>1, <1>3 DEF ready, ReadyInv, ReadyCount, FunctionsRun
<1> QED BY <1>2, <1>3

\* A step keeps the invariant, and the functions run as HeldBack says.
LEMMA ReadyStep ==
    ASSUME ReadyInv, [ReadyNext]_readyVars
    PROVE  ReadyInv' /\ (readyList' # readyList /\ readyList' = "resolved" => body' /\ holds' = 0)
<1> USE DEF ReadyInv
<1>1. CASE AddReady
  BY <1>1 DEF AddReady, documentVars, ReadyCount, ListensOnce, FunctionsRun
<1>2. CASE Hold
  BY <1>2, ReadyAssumption DEF Hold, documentVars, ReadyCount, ListensOnce, FunctionsRun
<1>3. CASE Release
  <2>1. ready(TRUE, timeouts) /\ UNCHANGED <<documentVars, listening, readyFns>> BY <1>3 DEF Release
  <2>2. holds > 0 /\ holds' = holds - 1 /\ readyList # "none" BY <1>3 DEF Release
  <2>3. readyState' \in {"loading", "interactive", "complete"} /\ body' = body
    BY <2>1 DEF documentVars, FunctionsRun
  <2>4. /\ ReadyCount' /\ FunctionsRun'
        /\ timeouts' = timeouts /\ readyList' # "none"
        /\ readyList' # readyList /\ readyList' = "resolved" => body' /\ holds' = 0
    BY <2>1, <2>2, <2>3, ReadyCalled DEF ListensOnce
  <2> QED BY <2>1, <2>4 DEF ListensOnce
<1>4. CASE Timeout
  <2>0. timeouts - 1 = 0 BY <1>4 DEF Timeout, ListensOnce
  <2>1. ready(FALSE, 0) /\ UNCHANGED <<documentVars, listening, holds, readyFns>> BY <1>4, <2>0 DEF Timeout
  <2>2. readyList # "none" /\ ~listening BY <1>4 DEF Timeout, ListensOnce
  <2>3. readyState' \in {"loading", "interactive", "complete"} /\ body' = body
    BY <2>1 DEF documentVars, FunctionsRun
  <2>4. /\ ReadyCount' /\ FunctionsRun' /\ timeouts' \in {0, 1} /\ readyList' # "none"
        /\ readyList' # readyList /\ readyList' = "resolved" => body' /\ holds' = 0
    BY <2>1, <2>2, <2>3, ReadyCalled
  <2> QED BY <2>1, <2>2, <2>4 DEF ListensOnce
<1>5. CASE Loads
  <2>1. readyState' \in {"loading", "interactive", "complete"} /\ holds' = holds /\ readyFns' = readyFns
    BY <1>5 DEF Loads, FunctionsRun
  <2>0. body' \in {body, TRUE} BY <1>5 DEF Loads
  <2>4. body => body' BY <2>0, Zenon
  <2>2. CASE listening /\ (~old \/ readyState' = "complete")
    <3>1. listening' = FALSE /\ ready(FALSE, 0) /\ readyList # "none" BY <1>5, <2>2 DEF Loads, ListensOnce
    <3>2. /\ ReadyCount' /\ FunctionsRun' /\ timeouts' \in {0, 1} /\ readyList' # "none"
          /\ readyList' # readyList /\ readyList' = "resolved" => body' /\ holds' = 0
      BY <2>1, <2>4, <3>1, ReadyCalled
    <3> QED BY <3>1, <3>2 DEF ListensOnce
  <2>3. CASE ~(listening /\ (~old \/ readyState' = "complete"))
    <3>1. UNCHANGED <<listening, isReady, readyWait, readyList, readyRan, timeouts>> BY <1>5, <2>3 DEF Loads
    <3> QED BY <2>1, <2>4, <3>1 DEF ReadyCount, ListensOnce, FunctionsRun
  <2> QED BY <2>2, <2>3
<1>6. CASE doScrollCheck
  <2>1. ready(FALSE, 0) /\ UNCHANGED <<documentVars, holds, readyFns>> /\ listening' = FALSE /\ readyList # "none"
    BY <1>6 DEF doScrollCheck, ListensOnce
  <2>2. readyState' \in {"loading", "interactive", "complete"} /\ body' = body
    BY <2>1 DEF documentVars, FunctionsRun
  <2>3. /\ ReadyCount' /\ FunctionsRun' /\ timeouts' \in {0, 1} /\ readyList' # "none"
        /\ readyList' # readyList /\ readyList' = "resolved" => body' /\ holds' = 0
    BY <2>1, <2>2, ReadyCalled
  <2> QED BY <2>1, <2>3 DEF ListensOnce
<1>7. CASE UNCHANGED readyVars
  BY <1>7 DEF readyVars, documentVars, ReadyCount, ListensOnce, FunctionsRun
<1> QED BY <1>1, <1>2, <1>3, <1>4, <1>5, <1>6, <1>7 DEF ReadyNext

\* The variables of ready() have their types: nobody is counted twice and no timeout is lost.
THEOREM ReadyTypeCorrect == ReadySpec => []ReadyTypeOK
<1>1. ReadyInv => ReadyTypeOK
  BY ReadyAssumption DEF ReadyInv, ReadyCount, ListensOnce, FunctionsRun, ReadyTypeOK
<1> QED BY <1>1, ReadyStart, ReadyStep, PTL DEF ReadySpec

\* Functions given to $(document).ready() do not run before the document has a body, nor
\* while anybody holds the event back, however many do and in any order (ready()).
THEOREM HeldBackHolds == ReadySpec => HeldBack
<1>1. ReadyInv /\ [ReadyNext]_readyVars =>
        [readyList' # readyList /\ readyList' = "resolved" => body' /\ holds' = 0]_readyVars
  BY ReadyStep
<1> QED BY <1>1, ReadyStart, ReadyStep, PTL DEF ReadySpec, HeldBack
----------------------------------------------------------------------------
(* jQuery.timer *)

Interval == [id: 1..MaxTimers, key: Keys, times: {0, 1}, counter: 0..1]
Record == [id: 1..MaxTimers, key: Keys]

\* Numbers of intervals are their own, and so are numbers and keys of what is recorded; what
\* still has its data is recorded, and what is recorded runs.
Agree(running, recorded, last, gone) ==
    /\ running \subseteq Interval /\ recorded \subseteq Record
    /\ \A i \in running : i.id <= last
    /\ \A t \in recorded : t.id <= last
    /\ \A i, j \in running : i.id = j.id => i = j
    /\ \A t, u \in recorded : t.id = u.id \/ t.key = u.key => t = u
    /\ \A i \in running : i.key[1] \notin gone => [id |-> i.id, key |-> i.key] \in recorded
    /\ \A t \in recorded : \E i \in running : i.id = t.id

TimersInv ==
    /\ Agree(intervals, timers, guid, cleaned)
    /\ guid \in 0..MaxTimers /\ cleaned \subseteq TimerElements
    /\ cutOff \in BOOLEAN /\ NotCutOff

LEMMA TimersStart == TimersInit => TimersInv
<1> SUFFICES ASSUME TimersInit PROVE TimersInv
  OBVIOUS
<1>1. Agree(intervals, timers, guid, cleaned) BY DEF TimersInit, Agree
<1>2. guid \in 0..MaxTimers BY TimersAssumption DEF TimersInit
<1> QED BY <1>1, <1>2 DEF TimersInit, TimersInv, NotCutOff

\* Removing keys ends what is recorded under them, and nothing else.
LEMMA RemoveAgrees ==
    ASSUME NEW running, NEW last, NEW gone, NEW keys, Agree(running, timers, last, gone),
           removeTimers(keys, running)
    PROVE  /\ Agree(intervals', timers', last, gone)
           /\ \A i \in running : i \notin intervals' => \E t \in timers : t.id = i.id /\ t.key \in keys
<1>1. intervals' = {i \in running : ~\E t \in timers : t.key \in keys /\ t.id = i.id}
  BY DEF removeTimers, cleared
<1>2. timers' = {t \in timers : t.key \notin keys} BY DEF removeTimers
<1>3. ASSUME NEW i \in intervals', i.key[1] \notin gone PROVE [id |-> i.id, key |-> i.key] \in timers'
  <2>1. [id |-> i.id, key |-> i.key] \in timers BY <1>1, <1>3 DEF Agree
  <2> QED BY <1>1, <1>2, <2>1
<1>4. ASSUME NEW t \in timers' PROVE \E i \in intervals' : i.id = t.id
  <2>1. t \in timers /\ t.key \notin keys BY <1>2
  <2>2. PICK i \in running : i.id = t.id BY <2>1 DEF Agree
  <2>3. \A u \in timers : u.id = i.id => u = t BY <2>1, <2>2 DEF Agree
  <2> QED BY <1>1, <2>1, <2>2, <2>3
<1>5. intervals' \subseteq running /\ timers' \subseteq timers BY <1>1, <1>2
<1>6. Agree(intervals', timers', last, gone) BY <1>3, <1>4, <1>5 DEF Agree
<1> QED BY <1>1, <1>6

\* The handler of an interval counts under the same number and key.
LEMMA CountAgrees ==
    ASSUME TimersInv, NEW i \in intervals, ~lastCall(i), NEW running,
           running = (intervals \ {i}) \cup {[i EXCEPT !.counter = IF i.times = 0 THEN 0 ELSE @ + 1]}
    PROVE  /\ Agree(running, timers, guid, cleaned)
           /\ \A j \in intervals : \E k \in running : k.id = j.id
           /\ \A j \in intervals \ {i} : j \in running
<1> DEFINE next == [i EXCEPT !.counter = IF i.times = 0 THEN 0 ELSE @ + 1]
<1>1. i \in Interval BY DEF TimersInv, Agree
<1>2. next \in Interval /\ next.id = i.id /\ next.key = i.key
  BY <1>1 DEF lastCall, Interval
<1>3. running = (intervals \ {i}) \cup {next} OBVIOUS
<1> HIDE DEF next
<1>4. running \subseteq Interval BY <1>2, <1>3 DEF TimersInv, Agree
<1>5. \A j \in running : \E k \in intervals : k.id = j.id /\ k.key = j.key BY <1>2, <1>3
<1>6. \A j \in intervals : \E k \in running : k.id = j.id BY <1>2, <1>3
<1>7. \A j, k \in running : j.id = k.id => j = k BY <1>2, <1>3 DEF TimersInv, Agree
<1>8. \A j \in running : j.id <= guid BY <1>5 DEF TimersInv, Agree
<1>9. \A j \in running : j.key[1] \notin cleaned => [id |-> j.id, key |-> j.key] \in timers
  <2> TAKE j \in running
  <2>1. PICK k \in intervals : k.id = j.id /\ k.key = j.key BY <1>5
  <2>2. k.key[1] \notin cleaned => [id |-> k.id, key |-> k.key] \in timers BY DEF TimersInv, Agree
  <2> QED BY <2>1, <2>2
<1>10. \A t \in timers : \E k \in running : k.id = t.id
  <2> TAKE t \in timers
  <2>1. PICK j \in intervals : j.id = t.id BY DEF TimersInv, Agree
  <2> QED BY <1>6, <2>1
<1>11. timers \subseteq Record /\ (\A t \in timers : t.id <= guid)
       /\ (\A t, u \in timers : t.id = u.id \/ t.key = u.key => t = u)
  BY DEF TimersInv, Agree
<1>12. Agree(running, timers, guid, cleaned) BY <1>4, <1>7, <1>8, <1>9, <1>10, <1>11 DEF Agree
<1> QED BY <1>3, <1>6, <1>12

LEMMA TimersStep == TimersInv /\ [TimersNext]_timerVars => TimersInv'
<1> SUFFICES ASSUME TimersInv, [TimersNext]_timerVars PROVE TimersInv'
  OBVIOUS
<1>0. /\ Agree(intervals, timers, guid, cleaned) /\ guid \in 0..MaxTimers
      /\ cleaned \subseteq TimerElements /\ cutOff \in BOOLEAN /\ (cutOff => cleaned # {})
  BY DEF TimersInv, NotCutOff
<1>1. CASE everyTime
  <2>1. PICK key \in Keys, often \in {0, 1} : addTimer(key, often) BY <1>1 DEF everyTime
  <2>2. guid < MaxTimers /\ UNCHANGED <<cleaned, cutOff>> BY <1>1 DEF everyTime
  <2>3. CASE \E t \in timers : t.key = key
    BY <1>0, <2>1, <2>2, <2>3 DEF addTimer, TimersInv, NotCutOff
  <2>4. CASE ~\E t \in timers : t.key = key
    <3> DEFINE new == [id |-> guid', key |-> key, times |-> often, counter |-> 0]
               rec == [id |-> guid', key |-> key]
    <3>1. /\ guid' = guid + 1 /\ intervals' = intervals \cup {new}
          /\ timers' = {t \in timers : t.key # key} \cup {rec}
      BY <2>1, <2>4 DEF addTimer, addOver
    <3>2. timers' = timers \cup {rec} BY <2>4, <3>1
    <3>3. guid' \in 1..MaxTimers BY <1>0, <2>2, <3>1, TimersAssumption
    <3>4. new \in Interval /\ rec \in Record BY <3>3 DEF Interval, Record
    <3>5. new.id = guid' /\ rec.id = guid' /\ rec.key = key /\ new.key = key /\ [id |-> new.id, key |-> new.key] = rec
      OBVIOUS
    <3> HIDE DEF new, rec
    <3>6. /\ \A i \in intervals : i.id < guid' /\ i.id <= guid'
          /\ \A t \in timers : t.id < guid' /\ t.id <= guid'
          /\ guid' <= guid'
      <4>1. (\A i \in intervals : i.id <= guid /\ i.id \in 1..MaxTimers) /\ (\A t \in timers : t.id <= guid /\ t.id \in 1..MaxTimers)
        BY <1>0 DEF Agree, Interval, Record
      <4> QED BY <1>0, <3>1, <3>3, <4>1
    <3>7. intervals' \subseteq Interval /\ timers' \subseteq Record BY <1>0, <3>1, <3>2, <3>4 DEF Agree
    <3>8. (\A i \in intervals' : i.id <= guid') /\ (\A t \in timers' : t.id <= guid')
      BY <3>1, <3>2, <3>5, <3>6
    <3>9. \A i, j \in intervals' : i.id = j.id => i = j
      BY <1>0, <3>1, <3>3, <3>5, <3>6 DEF Agree
    <3>10. \A t, u \in timers' : t.id = u.id \/ t.key = u.key => t = u
      BY <1>0, <2>4, <3>2, <3>3, <3>5, <3>6 DEF Agree
    <3>11. \A i \in intervals' : i.key[1] \notin cleaned => [id |-> i.id, key |-> i.key] \in timers'
      BY <1>0, <3>1, <3>2, <3>5 DEF Agree
    <3>12. \A t \in timers' : \E i \in intervals' : i.id = t.id
      BY <1>0, <3>1, <3>2, <3>5 DEF Agree
    <3>13. Agree(intervals', timers', guid', cleaned)
      BY <3>7, <3>8, <3>9, <3>10, <3>11, <3>12 DEF Agree
    <3> QED BY <1>0, <2>2, <3>3, <3>13 DEF TimersInv, NotCutOff
  <2> QED BY <2>3, <2>4
<1>2. CASE stopTime
  <2>1. PICK e \in TimerElements, l \in SUBSET Labels, f \in SUBSET TimerFns : removeTimers({e} \X l \X f, intervals)
    BY <1>2 DEF stopTime
  <2>2. Agree(intervals', timers', guid, cleaned) BY <1>0, <2>1, RemoveAgrees
  <2> QED BY <1>0, <1>2, <2>2 DEF stopTime, TimersInv, NotCutOff
<1>3. CASE unload
  <2>1. Agree(intervals', timers', guid, cleaned) BY <1>0, <1>3, RemoveAgrees DEF unload
  <2> QED BY <1>0, <1>3, <2>1 DEF unload, TimersInv, NotCutOff
<1>4. ASSUME NEW i \in intervals, Tick(i) PROVE TimersInv'
  <2> DEFINE oneMore == (intervals \ {i}) \cup {[i EXCEPT !.counter = IF i.times = 0 THEN 0 ELSE @ + 1]}
  <2>1. UNCHANGED <<guid, cleaned>> BY <1>4 DEF Tick
  <2>2. cutOff' = (cutOff \/ \E j \in intervals \ {i} : j.id \notin {k.id : k \in intervals'}) BY <1>4 DEF Tick
  <2>3. /\ Agree(intervals', timers', guid, cleaned)
        /\ \A j \in intervals \ {i} : j \notin intervals' => \E t \in timers : t.id = j.id /\ t.key = i.key
    <3>1. CASE lastCall(i) /\ removeTimers({i.key}, intervals)
      <4>1. /\ Agree(intervals', timers', guid, cleaned)
            /\ \A j \in intervals : j \notin intervals' => \E t \in timers : t.id = j.id /\ t.key \in {i.key}
        BY <1>0, <3>1, RemoveAgrees
      <4> QED BY <4>1
    <3>2. CASE ~lastCall(i) /\ (removeTimers({i.key}, oneMore) \/ (intervals' = oneMore /\ UNCHANGED timers))
      <4>1. /\ Agree(oneMore, timers, guid, cleaned)
            /\ \A j \in intervals \ {i} : j \in oneMore
        BY <3>2, CountAgrees
      <4> HIDE DEF oneMore
      <4>2. CASE removeTimers({i.key}, oneMore)
        <5>1. /\ Agree(intervals', timers', guid, cleaned)
              /\ \A j \in oneMore : j \notin intervals' => \E t \in timers : t.id = j.id /\ t.key \in {i.key}
          BY <4>1, <4>2, RemoveAgrees
        <5> QED BY <4>1, <5>1
      <4>3. CASE intervals' = oneMore /\ UNCHANGED timers BY <4>1, <4>3
      <4> QED BY <3>2, <4>2, <4>3
    <3> QED BY <1>4, <3>1, <3>2 DEF Tick
  <2>4. cleaned = {} => \A j \in intervals \ {i} : j \in intervals'
    <3> SUFFICES ASSUME cleaned = {}, NEW j \in intervals \ {i}, j \notin intervals' PROVE FALSE
      OBVIOUS
    <3>1. PICK t \in timers : t.id = j.id /\ t.key = i.key BY <2>3
    <3>2. [id |-> i.id, key |-> i.key] \in timers BY <1>0 DEF Agree
    <3>3. t = [id |-> i.id, key |-> i.key] BY <1>0, <3>1, <3>2 DEF Agree
    <3>4. j.id = i.id BY <3>1, <3>3
    <3> QED BY <1>0, <3>4 DEF Agree
  <2>5. cutOff' \in BOOLEAN BY <2>2
  <2>6. cutOff' => cleaned # {} BY <1>0, <2>2, <2>4
  <2> QED BY <1>0, <2>1, <2>3, <2>5, <2>6 DEF TimersInv, NotCutOff
<1>5. ASSUME NEW e \in TimerElements, cleanTimerData(e) PROVE TimersInv'
  <2>1. timers' = {t \in timers : t.key[1] # e} /\ cleaned' = cleaned \cup {e} /\ UNCHANGED <<intervals, guid, cutOff>>
    BY <1>5 DEF cleanTimerData
  <2>2. timers' \subseteq timers BY <2>1
  <2>3. \A i \in intervals : i.key[1] \notin cleaned' => [id |-> i.id, key |-> i.key] \in timers'
    BY <1>0, <2>1 DEF Agree
  <2>4. Agree(intervals', timers', guid', cleaned') BY <1>0, <2>1, <2>2, <2>3 DEF Agree
  <2>5. cleaned' # {} /\ cleaned' \subseteq TimerElements BY <1>0, <2>1
  <2> QED BY <1>0, <2>1, <2>4, <2>5 DEF TimersInv, NotCutOff
<1>6. CASE UNCHANGED timerVars
  BY <1>0, <1>6 DEF timerVars, TimersInv, NotCutOff
<1> QED BY <1>1, <1>2, <1>3, <1>4, <1>5, <1>6 DEF TimersNext

\* The variables of the timers have their types: a tick counts to one and no further.
THEOREM TimersTypeCorrect == TimersSpec => []TimersTypeOK
<1>1. TimersInv => TimersTypeOK BY DEF TimersInv, Agree, Interval, Record, TimersTypeOK
<1> QED BY <1>1, TimersStart, TimersStep, PTL DEF TimersSpec

\* As long as an element has its data, what runs for it is what is recorded, so stopTime()
\* and leaving the page find every interval (add(), remove()).
THEOREM RunsIsRecordedHolds == TimersSpec => []RunsIsRecorded
<1>1. TimersInv => RunsIsRecorded BY DEF TimersInv, Agree, RunsIsRecorded
<1> QED BY <1>1, TimersStart, TimersStep, PTL DEF TimersSpec

\* No timer is ended by the tick of another one unless the data of an element was dropped.
THEOREM NotCutOffHolds == TimersSpec => []NotCutOff
<1>1. TimersInv => NotCutOff BY DEF TimersInv
<1> QED BY <1>1, TimersStart, TimersStep, PTL DEF TimersSpec

\* The intervals of the browser and the records of the elements agree, for any elements,
\* labels and functions, whatever is started again, stopped and replaced between two ticks.
THEOREM TimersAgreeHolds == TimersSpec => []TimersAgree
<1>1. TimersTypeOK /\ RunsIsRecorded /\ NotCutOff => TimersAgree BY DEF TimersAgree
<1> QED BY <1>1, TimersTypeCorrect, RunsIsRecordedHolds, NotCutOffHolds, PTL
----------------------------------------------------------------------------
(* jQuery.when() *)

States == {"pending", "done", "fail", "plain"}

\* Those that are still to come, or never will.
Left == InState("pending") \cup InState("fail")

\* Each value that is there is in its place, and before the call nothing has come of it.
InPlace ==
    /\ called => \A i \in Subordinates : sub[i] \in {"done", "plain"} => resolveValues[i] = subValue[i]
    /\ ~called => master = "pending"

WhenInv == WhenTypeOK /\ InPlace /\ MasterOfAll /\ FailsWithAReason

LEMMA SubordinatesAreFinite ==
    /\ IsFiniteSet(Subordinates)
    /\ \A S \in SUBSET Subordinates :
         IsFiniteSet(S) /\ Cardinality(S) \in 0..Cardinality(Subordinates)
<1>1. SubCount \in Nat BY WhenAssumption
<1>2. IsFiniteSet(Subordinates) BY <1>1, FS_Interval DEF Subordinates
<1>3. ASSUME NEW S \in SUBSET Subordinates
      PROVE  IsFiniteSet(S) /\ Cardinality(S) \in 0..Cardinality(Subordinates)
  <2>1. IsFiniteSet(S) /\ Cardinality(S) <= Cardinality(Subordinates) BY <1>2, FS_Subset
  <2>2. Cardinality(S) \in Nat /\ Cardinality(Subordinates) \in Nat BY <1>2, <2>1, FS_CardinalityType
  <2> QED BY <2>1, <2>2
<1> QED BY <1>2, <1>3

LEMMA LeftIs ==
    ASSUME WhenTypeOK
    PROVE  /\ Left \in SUBSET Subordinates /\ IsFiniteSet(Left) /\ Cardinality(Left) \in Nat
           /\ Cardinality(Left) = 0 <=> Left = {}
           /\ Cardinality(Left) \in 0..Cardinality(Subordinates)
<1>1. Left \in SUBSET Subordinates BY DEF Left, InState
<1>2. IsFiniteSet(Left) /\ Cardinality(Left) \in 0..Cardinality(Subordinates) BY <1>1, SubordinatesAreFinite
<1>3. Cardinality(Left) \in Nat BY <1>2, FS_CardinalityType
<1>4. Cardinality(Left) = 0 <=> Left = {} BY <1>2, FS_EmptySet
<1> QED BY <1>1, <1>2, <1>3, <1>4

\* Of those that failed before the call there is a first one.
LEMMA FirstFailedIs == InState("fail") # {} => firstFailed \in InState("fail")
<1> SUFFICES ASSUME InState("fail") # {} PROVE firstFailed \in InState("fail")
  OBVIOUS
<1>1. InState("fail") \in SUBSET Nat BY WhenAssumption DEF InState, Subordinates
<1>2. OpToRel(<, Nat) = {p \in Nat \X Nat : p[1] < p[2]} BY DEF OpToRel
<1>3. IsWellFoundedOn(OpToRel(<, Nat), Nat) BY NatLessThanWellFounded
<1>4. IsWellFoundedOn({p \in Nat \X Nat : p[1] < p[2]}, Nat) BY <1>2, <1>3
<1>5. PICK n \in InState("fail") :
        \A m \in InState("fail") : ~(<<m, n>> \in {p \in Nat \X Nat : p[1] < p[2]})
  BY <1>1, <1>4, WFMin
<1>6. \A m \in InState("fail") : n <= m
  <2> TAKE m \in InState("fail")
  <2>1. n \in Nat /\ m \in Nat BY <1>1
  <2>2. ~(m < n) BY <1>5, <2>1
  <2> QED BY <2>1, <2>2
<1> QED BY <1>6 DEF firstFailed

LEMMA NothingIs == nothing \in Placed(SubValues)
BY DEF nothing, Placed

LEMMA WhenStart == WhenInit => WhenInv
<1> SUFFICES ASSUME WhenInit PROVE WhenInv
  OBVIOUS
<1>1. sub \in [Subordinates -> States] /\ subValue \in Placed(SubValues)
  BY DEF WhenInit, States, Placed
<1>2. remaining \in 0..Cardinality(Subordinates)
  <2>1. Cardinality(Subordinates) \in Nat BY SubordinatesAreFinite, FS_CardinalityType
  <2> QED BY <2>1 DEF WhenInit
<1>3. WhenTypeOK BY <1>1, <1>2, NothingIs DEF WhenInit, WhenTypeOK, States
<1> QED BY <1>3 DEF WhenInit, WhenInv, InPlace, MasterOfAll, FailsWithAReason

\* The call finds each as it is by then.
LEMMA CallKeeps == WhenInv /\ CallWhen => WhenInv'
<1> SUFFICES ASSUME WhenInv, CallWhen PROVE WhenInv'
  OBVIOUS
<1>1. /\ ~called /\ called' /\ master = "pending" /\ WhenTypeOK
      /\ sub' = sub /\ subValue' = subValue /\ progressValues' = progressValues
      /\ remaining' = Cardinality(Left)
      /\ resolveValues' = [i \in Subordinates |-> IF sub[i] = "fail" THEN NoValue ELSE subValue[i]]
  BY DEF WhenInv, InPlace, CallWhen, when, Left
<1>2. Left' = Left /\ InState("fail")' = InState("fail") /\ InState("pending")' = InState("pending")
  BY <1>1 DEF Left, InState
<1>3. sub \in [Subordinates -> States] /\ subValue \in Placed(SubValues) BY <1>1 DEF WhenTypeOK, States
<1>4. resolveValues' \in Placed(SubValues)
  <2>1. \A i \in Subordinates : subValue[i] \in SubValues \cup {NoValue} BY <1>3 DEF Placed
  <2> QED BY <1>1, <2>1 DEF Placed
<1>5. InPlace' BY <1>1 DEF InPlace
<1>6. remaining' \in 0..Cardinality(Subordinates) BY <1>1, LeftIs
<1>7. CASE InState("fail") # {}
  <2>1. master' = "fail" /\ masterValues' = [nothing EXCEPT ![1] = subValue[firstFailed]]
    BY <1>7 DEF CallWhen, when
  <2>2. firstFailed \in InState("fail") BY <1>7, FirstFailedIs
  <2>3. firstFailed \in Subordinates /\ 1 \in Subordinates BY <2>2, WhenAssumption DEF InState, Subordinates
  <2>4. subValue[firstFailed] \in SubValues \cup {NoValue} BY <1>3, <2>3 DEF Placed
  <2>5. masterValues' \in Placed(SubValues) BY <2>1, <2>4, NothingIs DEF Placed
  <2>6. masterValues'[1] = subValue[firstFailed] BY <2>1, <2>3 DEF nothing
  <2>7. WhenTypeOK' BY <1>1, <1>4, <1>6, <2>1, <2>5 DEF WhenTypeOK
  <2>8. MasterOfAll' BY <1>1, <1>2, <1>7, <2>1 DEF MasterOfAll, Left
  <2>9. FailsWithAReason' BY <1>1, <1>2, <2>2, <2>6 DEF FailsWithAReason
  <2> QED BY <1>5, <2>7, <2>8, <2>9 DEF WhenInv
<1>8. CASE InState("fail") = {} /\ InState("pending") = {}
  <2>1. master' = "done" /\ masterValues' = resolveValues' BY <1>8 DEF CallWhen, when
  <2>2. WhenTypeOK' BY <1>1, <1>4, <1>6, <2>1 DEF WhenTypeOK
  <2>3. resolveValues' = subValue BY <1>1, <1>3, <1>8 DEF InState, Placed
  <2>4. MasterOfAll' BY <1>1, <1>2, <1>8, <2>1, <2>3 DEF MasterOfAll, Left
  <2> QED BY <1>5, <2>1, <2>2, <2>4 DEF WhenInv, FailsWithAReason
<1>9. CASE InState("fail") = {} /\ InState("pending") # {}
  <2>1. UNCHANGED <<master, masterValues>> BY <1>9 DEF CallWhen, when
  <2>2. WhenTypeOK' BY <1>1, <1>4, <1>6, <2>1 DEF WhenTypeOK
  <2>3. MasterOfAll' BY <1>1, <1>2, <1>9, <2>1 DEF MasterOfAll, Left
  <2> QED BY <1>1, <1>5, <2>1, <2>2, <2>3 DEF WhenInv, FailsWithAReason
<1> QED BY <1>7, <1>8, <1>9

\* One that is awaited is resolved; the last one resolves the master.
LEMMA ResolveKeeps ==
    ASSUME WhenInv, NEW i \in Subordinates, NEW v \in SubValues, Resolve(i, v)
    PROVE  WhenInv'
<1>1. /\ WhenTypeOK /\ sub[i] = "pending" /\ called' = called /\ progressValues' = progressValues
      /\ sub' = [sub EXCEPT ![i] = "done"] /\ subValue' = [subValue EXCEPT ![i] = v]
  BY DEF WhenInv, Resolve
<1>2. /\ sub \in [Subordinates -> States] /\ subValue \in Placed(SubValues)
      /\ resolveValues \in Placed(SubValues) /\ masterValues \in Placed(SubValues)
  BY <1>1 DEF WhenTypeOK, States
<1>3. sub' \in [Subordinates -> States] /\ subValue' \in Placed(SubValues) BY <1>1, <1>2 DEF States, Placed
<1>4. /\ InState("fail")' = InState("fail") /\ InState("pending")' = InState("pending") \ {i}
      /\ i \in InState("pending") /\ i \notin InState("fail")
  BY <1>1, <1>2 DEF InState
<1>5. Left' = Left \ {i} /\ i \in Left BY <1>4 DEF Left
<1>6. \A j \in InState("fail") : subValue'[j] = subValue[j] BY <1>1, <1>2, <1>4 DEF InState, Placed
<1>7. CASE ~called
  <2>1. UNCHANGED <<remaining, resolveValues, master, masterValues>> BY <1>7 DEF Resolve
  <2>2. WhenTypeOK' BY <1>1, <1>3, <2>1 DEF WhenTypeOK, States
  <2>3. master = "pending" BY <1>7 DEF WhenInv, InPlace
  <2> QED BY <1>1, <1>7, <2>1, <2>2, <2>3 DEF WhenInv, InPlace, MasterOfAll, FailsWithAReason
<1>8. CASE called
  <2>1. /\ resolveValues' = [resolveValues EXCEPT ![i] = v]
        /\ remaining' = remaining - 1
        /\ IF remaining' = 0 /\ master = "pending"
           THEN master' = "done" /\ masterValues' = resolveValues'
           ELSE UNCHANGED <<master, masterValues>>
    BY <1>8 DEF Resolve, updateFunc
  <2>2. /\ remaining = Cardinality(Left)
        /\ master = "done" <=> Left = {}
        /\ master = "fail" <=> InState("fail") # {}
    BY <1>8 DEF WhenInv, MasterOfAll, Left
  <2>3. remaining' = Cardinality(Left')
    <3>1. Cardinality(Left \ {i}) = Cardinality(Left) - 1 BY <1>1, <1>5, LeftIs, FS_RemoveElement
    <3> QED BY <1>5, <2>1, <2>2, <3>1
  <2>4. /\ Left' \in SUBSET Subordinates /\ IsFiniteSet(Left')
        /\ Cardinality(Left') = 0 <=> Left' = {}
        /\ Cardinality(Left') \in 0..Cardinality(Subordinates)
    <3>1. Left' \in SUBSET Subordinates BY <1>5, LeftIs, <1>1
    <3>2. IsFiniteSet(Left') /\ Cardinality(Left') \in 0..Cardinality(Subordinates) BY <3>1, SubordinatesAreFinite
    <3> QED BY <3>1, <3>2, FS_EmptySet
  <2>5. resolveValues' \in Placed(SubValues) BY <1>2, <2>1 DEF Placed
  <2>6. \A j \in Subordinates : sub'[j] \in {"done", "plain"} => resolveValues'[j] = subValue'[j]
    BY <1>1, <1>2, <1>8, <2>1 DEF WhenInv, InPlace, Placed
  <2>7. InPlace' BY <1>1, <1>8, <2>6 DEF InPlace
  <2>8. master # "done" BY <1>5, <2>2
  <2>9. CASE remaining' = 0 /\ master = "pending"
    <3>1. master' = "done" /\ masterValues' = resolveValues' BY <2>1, <2>9
    <3>2. Left' = {} BY <2>3, <2>4, <2>9
    <3>3. InState("fail")' = {} BY <3>2 DEF Left
    <3>4. WhenTypeOK' BY <1>1, <1>3, <2>3, <2>4, <2>5, <3>1 DEF WhenTypeOK, States
    <3>5. \A j \in Subordinates : sub'[j] \in {"done", "plain"}
      BY <1>3, <3>2 DEF Left, InState, States
    <3>6. resolveValues' = subValue' BY <1>3, <2>5, <2>6, <3>5 DEF Placed
    <3>7. MasterOfAll' BY <1>1, <1>8, <2>3, <3>1, <3>2, <3>3, <3>6 DEF MasterOfAll, Left
    <3> QED BY <2>7, <3>1, <3>4, <3>7 DEF WhenInv, FailsWithAReason
  <2>10. CASE ~(remaining' = 0 /\ master = "pending")
    <3>1. UNCHANGED <<master, masterValues>> BY <2>1, <2>10
    <3>2. WhenTypeOK' BY <1>1, <1>3, <2>3, <2>4, <2>5, <3>1 DEF WhenTypeOK, States
    <3>3. Left' # {}
      <4>1. CASE master = "pending" BY <2>3, <2>4, <2>10, <4>1
      <4>2. CASE master = "fail"
        <5>1. InState("fail") # {} BY <2>2, <4>2
        <5>2. InState("fail")' # {} BY <1>4, <5>1
        <5> QED BY <5>2 DEF Left
      <4> QED BY <1>1, <2>8, <4>1, <4>2 DEF WhenTypeOK
    <3>4. master' = "fail" <=> InState("fail")' # {} BY <1>4, <2>2, <3>1
    <3>5. MasterOfAll' BY <2>3, <2>8, <3>1, <3>3, <3>4 DEF MasterOfAll, Left
    <3>6. FailsWithAReason' BY <1>4, <1>6, <3>1 DEF WhenInv, FailsWithAReason
    <3> QED BY <2>7, <3>2, <3>5, <3>6 DEF WhenInv
  <2> QED BY <2>9, <2>10
<1> QED BY <1>7, <1>8

\* One fails; the first one to do so after the call takes the master with it.
LEMMA RejectKeeps ==
    ASSUME WhenInv, NEW i \in Subordinates, NEW v \in SubValues, Reject(i, v)
    PROVE  WhenInv'
<1>1. /\ WhenTypeOK /\ sub[i] = "pending" /\ sub' = [sub EXCEPT ![i] = "fail"] /\ subValue' = [subValue EXCEPT ![i] = v]
      /\ UNCHANGED <<called, remaining, resolveValues, progressValues>>
  BY DEF WhenInv, Reject
<1>2. sub \in [Subordinates -> States] /\ subValue \in Placed(SubValues) BY <1>1 DEF WhenTypeOK, States
<1>3. sub' \in [Subordinates -> States] /\ subValue' \in Placed(SubValues) BY <1>1, <1>2 DEF States, Placed
<1>4. /\ InState("fail")' = InState("fail") \cup {i} /\ InState("pending")' = InState("pending") \ {i}
      /\ i \in InState("pending")
  BY <1>1, <1>2 DEF InState
<1>5. Left' = Left /\ i \in Left BY <1>4 DEF Left
<1>6. \A j \in InState("fail") : subValue'[j] = subValue[j] BY <1>1, <1>2 DEF InState, Placed
<1>7. InPlace'
  <2>1. \A j \in Subordinates : sub'[j] \in {"done", "plain"} => sub[j] \in {"done", "plain"} /\ subValue'[j] = subValue[j]
    BY <1>1, <1>2 DEF Placed
  <2>2. ~called => master' = "pending" BY DEF WhenInv, InPlace, Reject
  <2> QED BY <1>1, <2>1, <2>2 DEF WhenInv, InPlace
<1>8. CASE called /\ master = "pending"
  <2>1. master' = "fail" /\ masterValues' = [nothing EXCEPT ![1] = v] BY <1>8 DEF Reject
  <2>2. 1 \in Subordinates BY WhenAssumption DEF Subordinates
  <2>3. masterValues' \in Placed(SubValues) BY <2>1, NothingIs DEF Placed
  <2>4. masterValues'[1] = v /\ subValue'[i] = v BY <1>1, <1>2, <2>1, <2>2 DEF nothing, Placed
  <2>5. WhenTypeOK' BY <1>1, <1>3, <2>1, <2>3 DEF WhenTypeOK, States
  <2>6. MasterOfAll' BY <1>1, <1>4, <1>5, <1>8, <2>1 DEF WhenInv, MasterOfAll, Left
  <2>7. FailsWithAReason' BY <1>4, <2>4 DEF FailsWithAReason
  <2> QED BY <1>7, <2>5, <2>6, <2>7 DEF WhenInv
<1>9. CASE ~(called /\ master = "pending")
  <2>1. UNCHANGED <<master, masterValues>> BY <1>9 DEF Reject
  <2>2. WhenTypeOK' BY <1>1, <1>3, <2>1 DEF WhenTypeOK, States
  <2>3. called => master = "fail"
    BY <1>1, <1>5, <1>9 DEF WhenInv, MasterOfAll, Left, WhenTypeOK
  <2>4. MasterOfAll' BY <1>1, <1>4, <1>5, <2>1, <2>3 DEF WhenInv, MasterOfAll, Left
  <2>5. FailsWithAReason' BY <1>4, <1>6, <2>1 DEF WhenInv, FailsWithAReason
  <2> QED BY <1>7, <2>2, <2>4, <2>5 DEF WhenInv
<1> QED BY <1>8, <1>9

LEMMA WhenStep == WhenInv /\ [WhenNext]_whenVars => WhenInv'
<1> SUFFICES ASSUME WhenInv, [WhenNext]_whenVars PROVE WhenInv'
  OBVIOUS
<1>1. CASE CallWhen BY <1>1, CallKeeps
<1>2. ASSUME NEW i \in Subordinates, NEW v \in SubValues, Resolve(i, v) PROVE WhenInv'
  BY <1>2, ResolveKeeps
<1>3. ASSUME NEW i \in Subordinates, NEW v \in SubValues, Reject(i, v) PROVE WhenInv'
  BY <1>3, RejectKeeps
<1>4. ASSUME NEW i \in Subordinates, NEW v \in SubValues, Notify(i, v) PROVE WhenInv'
  <2>1. UNCHANGED <<sub, subValue, called, remaining, resolveValues, master, masterValues>>
        /\ progressValues' = [progressValues EXCEPT ![i] = v]
    BY <1>4 DEF Notify
  <2>2. progressValues' \in Placed(SubValues) BY <2>1 DEF WhenInv, WhenTypeOK, Placed
  <2>3. WhenTypeOK' BY <2>1, <2>2 DEF WhenInv, WhenTypeOK
  <2> QED BY <2>1, <2>3 DEF WhenInv, InPlace, MasterOfAll, FailsWithAReason, InState
<1>5. CASE UNCHANGED whenVars
  BY <1>5 DEF whenVars, WhenInv, WhenTypeOK, InPlace, MasterOfAll, FailsWithAReason, InState
<1> QED BY <1>1, <1>2, <1>3, <1>4, <1>5 DEF WhenNext

\* The variables of when() have their types; remaining never goes below zero.
THEOREM WhenTypeCorrect == WhenSpec => []WhenTypeOK
<1>1. WhenInv => WhenTypeOK BY DEF WhenInv
<1> QED BY <1>1, WhenStart, WhenStep, PTL DEF WhenSpec

\* For any number of deferreds and values, settled before, at or after the call and in any
\* order, when() is resolved with every value in its place exactly when all of them are, and
\* fails exactly when one of them does (when()).
THEOREM MasterOfAllHolds == WhenSpec => []MasterOfAll
<1>1. WhenInv => MasterOfAll BY DEF WhenInv
<1> QED BY <1>1, WhenStart, WhenStep, PTL DEF WhenSpec

\* Whatever fails the master is the reason of one of those that failed (when()).
THEOREM FailsWithAReasonHolds == WhenSpec => []FailsWithAReason
<1>1. WhenInv => FailsWithAReason BY DEF WhenInv
<1> QED BY <1>1, WhenStart, WhenStep, PTL DEF WhenSpec

\* The master of any number of deferreds follows them.
THEOREM MasterFollowsHolds == WhenSpec => []MasterFollows
<1>1. WhenInv => MasterFollows BY DEF WhenInv, MasterFollows
<1> QED BY <1>1, WhenStart, WhenStep, PTL DEF WhenSpec
----------------------------------------------------------------------------
(* The places of elements *)

\* The elements from the place i to the place j.
Between(i, j) == {k \in i..j : isElement(childNodes[k])}

Children == {childNodes[i] : i \in DOMAIN childNodes}

\* What was kept with the parent in this run counts the elements up to there.
OuterIsRight ==
    /\ outerCache.run \in 0..run
    /\ outerCache.run = run /\ outerCache.nodeIndex # 0 =>
         /\ outerCache.nodeIndex \in Nat /\ outerCache.nodeIndex + 1 <= Len(childNodes)
         /\ outerCache.diff = Cardinality(Between(1, outerCache.nodeIndex + 1))

\* What was kept with an element in this run counts the elements from there on.
ElemsAreRight ==
    \A y \in ChildNodes :
      /\ elemCache[y].run \in 0..run
      /\ elemCache[y].run = run =>
           elemCache[y].diff = Cardinality(Between(indexOfChild(y), Len(childNodes)))

PlaceInv ==
    /\ childNodes \in Arrangements /\ run \in Nat \ {0}
    /\ DOMAIN elemCache = ChildNodes
    /\ OuterIsRight /\ ElemsAreRight /\ PlaceIsTold

LEMMA IndexIs ==
    ASSUME childNodes \in Arrangements, NEW x \in Children
    PROVE  /\ indexOfChild(x) \in 1..Len(childNodes) /\ childNodes[indexOfChild(x)] = x
           /\ Len(childNodes) \in Nat /\ x \in ChildNodes
<1>1. childNodes \in Seq(ChildNodes) BY ArrangementsAssumption
<1>2. Len(childNodes) \in Nat /\ DOMAIN childNodes = 1..Len(childNodes) BY <1>1
<1>3. PICK i \in DOMAIN childNodes : childNodes[i] = x BY DEF Children
<1>4. indexOfChild(x) \in DOMAIN childNodes /\ childNodes[indexOfChild(x)] = x BY <1>3 DEF indexOfChild
<1>5. x \in ChildNodes BY <1>1, <1>2, <1>3
<1> QED BY <1>2, <1>4, <1>5

\* What is counted up to a place and from behind it to another is counted up to there.
LEMMA CountsOn ==
    ASSUME NEW b \in Nat, NEW i \in Nat, b <= i
    PROVE  Cardinality(Between(1, i)) = Cardinality(Between(1, b)) + Cardinality(Between(b + 1, i))
<1>1. IsFiniteSet(1..b) /\ IsFiniteSet((b + 1)..i) BY FS_Interval
<1>2. Between(1, b) \in SUBSET (1..b) /\ Between(b + 1, i) \in SUBSET ((b + 1)..i) BY DEF Between
<1>3. IsFiniteSet(Between(1, b)) /\ IsFiniteSet(Between(b + 1, i)) BY <1>1, <1>2, FS_Subset
<1>4. Between(1, i) = Between(1, b) \cup Between(b + 1, i) BY DEF Between
<1>5. Between(1, b) \cap Between(b + 1, i) = {} BY DEF Between
<1>6. Cardinality(Between(1, b)) \in Nat /\ Cardinality(Between(b + 1, i)) \in Nat
  BY <1>3, FS_CardinalityType
<1>7. Cardinality(Between(1, b) \cap Between(b + 1, i)) = 0 BY <1>5, FS_EmptySet
<1>8. Cardinality(Between(1, b) \cup Between(b + 1, i)) =
        Cardinality(Between(1, b)) + Cardinality(Between(b + 1, i)) - Cardinality(Between(1, b) \cap Between(b + 1, i))
  BY <1>3, FS_Union
<1> QED BY <1>4, <1>6, <1>7, <1>8

\* From what is kept it is counted on to the right place.
LEMMA FromKeptIs ==
    ASSUME PlaceInv, NEW x \in Children
    PROVE  fromKept(x) = Cardinality(Between(1, indexOfChild(x)))
<1>1. /\ indexOfChild(x) \in 1..Len(childNodes) /\ Len(childNodes) \in Nat BY IndexIs DEF PlaceInv
<1> DEFINE i == indexOfChild(x)
           begin == outerCache.nodeIndex + 1
<1>2. i \in Nat /\ i >= 1 BY <1>1
<1> HIDE DEF i
<1>3. counted(1, i) = Cardinality(Between(1, i)) BY DEF counted, Between
<1>4. counted(begin + 1, i) = Cardinality(Between(begin + 1, i)) BY DEF counted, Between
<1>5. fromKept(x) = IF outerCache.run = run /\ outerCache.nodeIndex # 0 /\ begin < i
                    THEN outerCache.diff + Cardinality(Between(begin + 1, i))
                    ELSE Cardinality(Between(1, i))
  BY <1>3, <1>4 DEF fromKept, isOfRun, i
<1>6. CASE outerCache.run = run /\ outerCache.nodeIndex # 0 /\ begin < i
  <2>1. begin \in Nat /\ outerCache.diff = Cardinality(Between(1, begin)) BY <1>6 DEF PlaceInv, OuterIsRight
  <2>2. Cardinality(Between(1, i)) = Cardinality(Between(1, begin)) + Cardinality(Between(begin + 1, i))
    <3>1. begin <= i BY <1>2, <1>6, <2>1
    <3> HIDE DEF begin
    <3> QED BY <1>2, <2>1, <3>1, CountsOn
  <2> QED BY <1>5, <1>6, <2>1, <2>2 DEF i
<1>7. CASE ~(outerCache.run = run /\ outerCache.nodeIndex # 0 /\ begin < i)
  BY <1>5, <1>7 DEF i
<1> QED BY <1>6, <1>7

\* An answer is the place that was asked for, and what is kept with it is right.
LEMMA AskKeeps == PlaceInv /\ Ask => PlaceInv'
<1> SUFFICES ASSUME PlaceInv, NEW x \in Children, NEW type \in Types, isElement(x), Tell(x, type),
                    UNCHANGED <<childNodes, run, childChanges>>
             PROVE  PlaceInv'
  BY DEF Ask, Children
<1>1. /\ indexOfChild(x) \in 1..Len(childNodes) /\ Len(childNodes) \in Nat /\ x \in ChildNodes
  BY IndexIs DEF PlaceInv
<1>2. \A y : indexOfChild(y)' = indexOfChild(y) BY DEF indexOfChild
<1>3. \A i, j : Between(i, j)' = Between(i, j) BY DEF Between, isElement
<1>4. childNodes' \in Arrangements /\ run' \in Nat \ {0} /\ run' = run /\ childNodes' = childNodes BY DEF PlaceInv
<1>5. CASE type = "nth"
  <2>1. /\ told' = [elem |-> x, type |-> "nth", diff |-> fromKept(x)]
        /\ outerCache' = [run |-> run, nodeIndex |-> indexOfChild(x) - 1, diff |-> fromKept(x)]
        /\ elemCache' = elemCache
    BY <1>5 DEF Tell
  <2>2. fromKept(x) = Cardinality(Between(1, indexOfChild(x))) BY FromKeptIs
  <2>3. PlaceIsTold' BY <1>2, <1>4, <2>1, <2>2 DEF PlaceIsTold, Between
  <2>4. OuterIsRight'
    <3>1. /\ outerCache'.run = run /\ outerCache'.nodeIndex = indexOfChild(x) - 1
          /\ outerCache'.diff = Cardinality(Between(1, indexOfChild(x)))
      BY <2>1, <2>2
    <3>2. outerCache'.nodeIndex + 1 = indexOfChild(x) /\ outerCache'.nodeIndex \in Nat BY <1>1, <3>1
    <3>3. outerCache'.run \in 0..run' BY <1>4, <3>1
    <3> QED BY <1>1, <1>3, <1>4, <3>1, <3>2, <3>3 DEF OuterIsRight
  <2>5. ElemsAreRight' BY <1>2, <1>3, <1>4, <2>1 DEF PlaceInv, ElemsAreRight
  <2> QED BY <1>4, <2>1, <2>3, <2>4, <2>5 DEF PlaceInv
<1>6. CASE type = "nth-last"
  <2> DEFINE last == fromEnd(x)
  <2>1. /\ told' = [elem |-> x, type |-> "nth-last",
                    diff |-> IF isOfRun(elemCache[x]) THEN elemCache[x].diff ELSE last[x].diff]
        /\ elemCache' = IF isOfRun(elemCache[x]) THEN elemCache ELSE last
        /\ outerCache' = outerCache
    BY <1>6 DEF Tell
  <2>2. \A y \in ChildNodes :
          \/ last[y] = elemCache[y]
          \/ last[y] = [run |-> run, diff |-> Cardinality(Between(indexOfChild(y), Len(childNodes)))]
    BY DEF fromEnd, counted, Between
  <2>3. DOMAIN last = ChildNodes BY DEF fromEnd
  <2>4. last[x] = [run |-> run, diff |-> Cardinality(Between(indexOfChild(x), Len(childNodes)))]
    <3>1. childNodes[indexOfChild(x)] = x BY IndexIs DEF PlaceInv
    <3>2. x \in {childNodes[k] : k \in indexOfChild(x)..Len(childNodes)} BY <1>1, <3>1
    <3> QED BY <1>1, <3>2 DEF fromEnd, counted, Between
  <2> HIDE DEF last
  <2>5. told'.elem = x /\ told'.type = "nth-last"
        /\ told'.diff = Cardinality(Between(indexOfChild(x), Len(childNodes)))
    <3>1. CASE isOfRun(elemCache[x])
      BY <1>1, <2>1, <3>1 DEF isOfRun, PlaceInv, ElemsAreRight
    <3>2. CASE ~isOfRun(elemCache[x]) BY <2>1, <2>4, <3>2
    <3> QED BY <3>1, <3>2
  <2>6. PlaceIsTold' BY <1>2, <1>4, <2>5 DEF PlaceIsTold, Between
  <2>7. OuterIsRight' BY <1>3, <1>4, <2>1 DEF PlaceInv, OuterIsRight
  <2>8. \A y \in ChildNodes :
          \/ elemCache'[y] = elemCache[y]
          \/ elemCache'[y] = [run |-> run, diff |-> Cardinality(Between(indexOfChild(y), Len(childNodes)))]
    BY <2>1, <2>2
  <2>9. ElemsAreRight'
    <3> SUFFICES ASSUME NEW y \in ChildNodes
                 PROVE  /\ elemCache'[y].run \in 0..run
                        /\ elemCache'[y].run = run =>
                             elemCache'[y].diff = Cardinality(Between(indexOfChild(y), Len(childNodes)))
      BY <1>2, <1>3, <1>4 DEF ElemsAreRight
    <3>1. CASE elemCache'[y] = elemCache[y] BY <3>1 DEF PlaceInv, ElemsAreRight
    <3>2. CASE elemCache'[y] = [run |-> run, diff |-> Cardinality(Between(indexOfChild(y), Len(childNodes)))]
      BY <1>4, <3>2
    <3> QED BY <2>8, <3>1, <3>2
  <2>10. DOMAIN elemCache' = ChildNodes BY <2>1, <2>3 DEF PlaceInv
  <2> QED BY <1>4, <2>6, <2>7, <2>9, <2>10 DEF PlaceInv
<1>7. CASE type = "of-type"
  <2>1. /\ told' = [elem |-> x, type |-> "of-type",
                    diff |-> Cardinality({k \in 1..indexOfChild(x) : nodeName[childNodes[k]] = nodeName[x]})]
        /\ elemCache' = elemCache /\ outerCache' = outerCache
    BY <1>7 DEF Tell
  <2>2. PlaceIsTold' BY <1>2, <1>4, <2>1 DEF PlaceIsTold
  <2>3. OuterIsRight' BY <1>3, <1>4, <2>1 DEF PlaceInv, OuterIsRight
  <2>4. ElemsAreRight' BY <1>2, <1>3, <1>4, <2>1 DEF PlaceInv, ElemsAreRight
  <2> QED BY <1>4, <2>1, <2>2, <2>3, <2>4 DEF PlaceInv
<1> QED BY <1>5, <1>6, <1>7 DEF Types

LEMMA PlaceStep == PlaceInv /\ [ChildIndexNext]_childVars => PlaceInv'
<1> SUFFICES ASSUME PlaceInv, [ChildIndexNext]_childVars PROVE PlaceInv'
  OBVIOUS
<1>1. CASE Ask BY <1>1, AskKeeps
<1>2. CASE NextRun
  <2>1. /\ run' = run + 1 /\ told' = NotTold /\ UNCHANGED <<outerCache, elemCache>>
        /\ childNodes' \in Arrangements
    BY <1>2 DEF NextRun, PlaceInv
  <2>2. OuterIsRight' BY <2>1 DEF PlaceInv, OuterIsRight
  <2>3. ElemsAreRight' BY <2>1 DEF PlaceInv, ElemsAreRight
  <2>4. PlaceIsTold' BY <2>1 DEF PlaceIsTold, NotTold
  <2> QED BY <2>1, <2>2, <2>3, <2>4 DEF PlaceInv
<1>3. CASE UNCHANGED childVars
  <2>1. UNCHANGED <<childNodes, run, outerCache, elemCache, told>> BY <1>3 DEF childVars
  <2>2. \A y : indexOfChild(y)' = indexOfChild(y) BY <2>1 DEF indexOfChild
  <2>3. \A i, j : Between(i, j)' = Between(i, j) BY <2>1 DEF Between, isElement
  <2>4. OuterIsRight' BY <2>1, <2>3 DEF PlaceInv, OuterIsRight
  <2>5. ElemsAreRight' BY <2>1, <2>2, <2>3 DEF PlaceInv, ElemsAreRight
  <2>6. PlaceIsTold' BY <2>1, <2>2 DEF PlaceInv, PlaceIsTold
  <2> QED BY <2>1, <2>4, <2>5, <2>6 DEF PlaceInv
<1> QED BY <1>1, <1>2, <1>3 DEF ChildIndexNext

LEMMA PlaceStart == ChildIndexInit => PlaceInv
BY DEF ChildIndexInit, ChildIndexStart, PlaceInv, OuterIsRight, ElemsAreRight, PlaceIsTold, NotTold

\* What is told of an element is its place among the elements of its parent, whatever was
\* kept of earlier questions and of other arrangements (the filter of CHILD in Sizzle).
THEOREM PlaceIsToldHolds == ChildIndexSpec => []PlaceIsTold
<1>1. PlaceInv => PlaceIsTold BY DEF PlaceInv
<1> QED BY <1>1, PlaceStart, PlaceStep, PTL DEF ChildIndexSpec
----------------------------------------------------------------------------
LEMMA LeastNat ==
    ASSUME NEW S \in SUBSET Nat, S # {}
    PROVE  \E x \in S : \A y \in S : x <= y
<1> DEFINE R == OpToRel(<, Nat)
<1>1. IsWellFoundedOn(R, Nat)
  BY NatLessThanWellFounded
<1>2. R = {ss \in Nat \X Nat : ss[1] < ss[2]}
  BY DEF OpToRel
<1> HIDE DEF R
<1>3. PICK x \in S : \A y \in S : <<y, x>> \notin R
  BY <1>1, WFMin
<1>4. \A y \in S : x <= y
  <2> SUFFICES ASSUME NEW y \in S PROVE x <= y
    OBVIOUS
  <2>1. <<y, x>> \in R <=> y < x
    BY <1>2
  <2> QED
    BY <1>3, <2>1
<1> QED
  BY <1>3, <1>4
----------------------------------------------------------------------------
(* Callback lists: everyone is called once by each fire, and the fires in turn *)

\* g is what is left of the first of s, up to each, without fn.
LeavesFirst(g, s, fn, k) ==
    g = [n \in 0..k |-> IF n = 0 THEN <<>>
                        ELSE IF s[n] = fn THEN g[n - 1] ELSE Append(g[n - 1], s[n])]

LEMMA LeavesExists ==
    ASSUME NEW s, NEW fn, NEW k \in Nat
    PROVE  \E g : LeavesFirst(g, s, fn, k)
<1> DEFINE bad == {n \in Nat : ~\E g : LeavesFirst(g, s, fn, n)}
<1> SUFFICES ASSUME bad # {} PROVE FALSE
  OBVIOUS
<1>1. PICK n \in bad : \A y \in bad : n <= y
  BY LeastNat
<1>2. n # 0
  <2> DEFINE z == [i \in 0..0 |-> <<>>]
  <2>1. z = [i \in 0..0 |-> IF i = 0 THEN <<>>
                            ELSE IF s[i] = fn THEN z[i - 1] ELSE Append(z[i - 1], s[i])]
    OBVIOUS
  <2> HIDE DEF z
  <2>2. LeavesFirst(z, s, fn, 0)
    BY <2>1 DEF LeavesFirst
  <2> QED
    BY <2>2
<1>3. n - 1 \in Nat /\ n - 1 \notin bad
  BY <1>1, <1>2
<1>4. PICK f : LeavesFirst(f, s, fn, n - 1)
  BY <1>3
<1> DEFINE g == [i \in 0..n |-> IF i = n THEN IF s[n] = fn THEN f[n - 1] ELSE Append(f[n - 1], s[n])
                                ELSE f[i]]
<1>5. ASSUME NEW i \in 0..n
      PROVE  g[i] = IF i = 0 THEN <<>>
                    ELSE IF s[i] = fn THEN g[i - 1] ELSE Append(g[i - 1], s[i])
  <2>1. CASE i = n
    BY <1>2, <2>1
  <2>2. CASE i # n
    <3>1. i \in 0..(n - 1)
      BY <1>2, <2>2
    <3>2. f[i] = IF i = 0 THEN <<>>
                 ELSE IF s[i] = fn THEN f[i - 1] ELSE Append(f[i - 1], s[i])
      BY <1>4, <3>1 DEF LeavesFirst
    <3>3. g[i] = f[i] /\ (i # 0 => g[i - 1] = f[i - 1])
      BY <2>2, <3>1
    <3> QED
      BY <3>2, <3>3
  <2> QED
    BY <2>1, <2>2
<1>6. g = [i \in 0..n |-> g[i]]
  OBVIOUS
<1> HIDE DEF g
<1>7. LeavesFirst(g, s, fn, n)
  BY <1>5, <1>6 DEF LeavesFirst
<1> QED
  BY <1>1, <1>7

LEMMA OthersIs ==
    ASSUME NEW s, NEW fn, Len(s) \in Nat
    PROVE  LeavesFirst(others(s, fn), s, fn, Len(s))
<1> DEFINE f == CHOOSE g : g = [n \in 0..Len(s) |-> IF n = 0 THEN <<>>
                            ELSE IF s[n] = fn THEN g[n - 1] ELSE Append(g[n - 1], s[n])]
<1>1. \E g : g = [n \in 0..Len(s) |-> IF n = 0 THEN <<>>
                            ELSE IF s[n] = fn THEN g[n - 1] ELSE Append(g[n - 1], s[n])]
  <2>1. \E g : LeavesFirst(g, s, fn, Len(s))
    BY LeavesExists
  <2> QED
    BY <2>1 DEF LeavesFirst
<1>2. f = [n \in 0..Len(s) |-> IF n = 0 THEN <<>>
                            ELSE IF s[n] = fn THEN f[n - 1] ELSE Append(f[n - 1], s[n])]
  BY <1>1
<1>3. others(s, fn) = f
  BY DEF others
<1> HIDE DEF f
<1> QED
  BY <1>2, <1>3 DEF LeavesFirst

\* Where the n-th is when fn is gone.
Place(s, fn, n) == Len(others(s, fn)[n])

\* What is left of the first n: each that is not fn, at its place, and no other.
LeftOfFirst(T, s, fn, n) ==
    /\ others(s, fn)[n] \in Seq(T) /\ Place(s, fn, n) \in 0..n
    /\ \A j \in 1..n : s[j] # fn => /\ Place(s, fn, j) \in 1..Place(s, fn, n)
                                    /\ others(s, fn)[n][Place(s, fn, j)] = s[j]
    /\ \A k \in 1..Place(s, fn, n) : \E j \in 1..n : s[j] # fn /\ k = Place(s, fn, j)

LEMMA OthersStep ==
    ASSUME NEW T, NEW s \in Seq(T), NEW fn, NEW n \in 1..Len(s)
    PROVE  others(s, fn)[n] = IF s[n] = fn THEN others(s, fn)[n - 1]
                              ELSE Append(others(s, fn)[n - 1], s[n])
<1>1. LeavesFirst(others(s, fn), s, fn, Len(s)) /\ n \in 0..Len(s) /\ n # 0
  BY OthersIs
<1> DEFINE o == others(s, fn)
<1>2. o = [i \in 0..Len(s) |-> IF i = 0 THEN <<>>
                         ELSE IF s[i] = fn THEN o[i - 1] ELSE Append(o[i - 1], s[i])]
  BY <1>1 DEF LeavesFirst
<1> HIDE DEF o
<1>3. o[n] = IF s[n] = fn THEN o[n - 1] ELSE Append(o[n - 1], s[n])
  BY <1>1, <1>2
<1> QED
  BY <1>3 DEF o

LEMMA OthersNone ==
    ASSUME NEW T, NEW s \in Seq(T), NEW fn
    PROVE  others(s, fn)[0] = <<>>
<1>1. LeavesFirst(others(s, fn), s, fn, Len(s)) /\ 0 \in 0..Len(s)
  BY OthersIs
<1> DEFINE o == others(s, fn)
<1>2. o = [i \in 0..Len(s) |-> IF i = 0 THEN <<>>
                         ELSE IF s[i] = fn THEN o[i - 1] ELSE Append(o[i - 1], s[i])]
  BY <1>1 DEF LeavesFirst
<1> HIDE DEF o
<1>3. o[0] = <<>>
  BY <1>1, <1>2
<1> QED
  BY <1>3 DEF o

LEMMA LeftStep ==
    ASSUME NEW T, NEW s \in Seq(T), NEW fn, NEW n \in 1..Len(s), LeftOfFirst(T, s, fn, n - 1)
    PROVE  LeftOfFirst(T, s, fn, n)
<1> DEFINE o == others(s, fn)
           before == o[n - 1]
           now == o[n]
<1>1. now = IF s[n] = fn THEN before ELSE Append(before, s[n])
  BY OthersStep
<1>2. /\ before \in Seq(T) /\ Len(before) \in 0..(n - 1)
      /\ \A j \in 1..(n - 1) : s[j] # fn => /\ Len(o[j]) \in 1..Len(before)
                                            /\ before[Len(o[j])] = s[j]
      /\ \A k \in 1..Len(before) : \E j \in 1..(n - 1) : s[j] # fn /\ k = Len(o[j])
  BY DEF LeftOfFirst, Place
<1>3. s[n] \in T /\ n \in Nat \ {0} /\ \A j \in 1..n : j = n \/ j \in 1..(n - 1)
  OBVIOUS
<1>4. o[n] = now
  OBVIOUS
<1> SUFFICES /\ now \in Seq(T) /\ Len(now) \in 0..n
             /\ \A j \in 1..n : s[j] # fn => Len(o[j]) \in 1..Len(now) /\ now[Len(o[j])] = s[j]
             /\ \A k \in 1..Len(now) : \E j \in 1..n : s[j] # fn /\ k = Len(o[j])
  BY DEF LeftOfFirst, Place
<1> HIDE DEF o, before, now
<1>5. CASE s[n] = fn
  <2>1. now = before
    BY <1>1, <1>5
  <2>2. \A k \in 1..Len(now) : \E j \in 1..n : s[j] # fn /\ k = Len(o[j])
    <3>1. \A j \in 1..(n - 1) : j \in 1..n
      BY <1>3
    <3> QED
      BY <1>2, <2>1, <3>1
  <2> QED
    BY <1>2, <1>3, <1>5, <2>1, <2>2
<1>6. CASE s[n] # fn
  <2>1. /\ now \in Seq(T) /\ Len(now) = Len(before) + 1 /\ now[Len(now)] = s[n]
        /\ \A k \in 1..Len(before) : now[k] = before[k]
    BY <1>1, <1>2, <1>3, <1>6
  <2>2. /\ Len(now) \in 0..n /\ Len(before) \in Nat
        /\ \A k \in 1..Len(now) : k = Len(now) \/ k \in 1..Len(before)
    BY <1>2, <1>3, <2>1
  <2>3. ASSUME NEW j \in 1..n, s[j] # fn
        PROVE  Len(o[j]) \in 1..Len(now) /\ now[Len(o[j])] = s[j]
    <3>1. CASE j = n
      BY <1>4, <2>1, <2>2, <3>1
    <3>2. CASE j # n
      <4>1. j \in 1..(n - 1)
        BY <1>3, <3>2
      <4>2. Len(o[j]) \in 1..Len(before) /\ before[Len(o[j])] = s[j]
        BY <1>2, <2>3, <4>1
      <4> QED
        BY <2>1, <2>2, <4>2
    <3> QED
      BY <3>1, <3>2
  <2>4. ASSUME NEW k \in 1..Len(now)
        PROVE  \E j \in 1..n : s[j] # fn /\ k = Len(o[j])
    <3>1. CASE k = Len(now)
      BY <1>3, <1>4, <1>6, <3>1
    <3>2. CASE k # Len(now)
      BY <1>2, <1>3, <2>2, <3>2
    <3> QED
      BY <3>1, <3>2
  <2> QED
    BY <2>1, <2>2, <2>3, <2>4
<1> QED
  BY <1>5, <1>6

LEMMA LeftOf ==
    ASSUME NEW T, NEW s \in Seq(T), NEW fn, NEW m \in 0..Len(s)
    PROVE  LeftOfFirst(T, s, fn, m)
<1> DEFINE bad == {n \in Nat : n <= Len(s) /\ ~LeftOfFirst(T, s, fn, n)}
<1> SUFFICES ASSUME bad # {} PROVE FALSE
  OBVIOUS
<1>1. PICK n \in bad : \A y \in bad : n <= y
  BY LeastNat
<1>2. n # 0
  <2>1. others(s, fn)[0] = <<>>
    BY OthersNone
  <2>2. LeftOfFirst(T, s, fn, 0)
    BY <2>1 DEF LeftOfFirst, Place
  <2> QED
    BY <2>2
<1>3. n \in 1..Len(s) /\ n - 1 \in Nat /\ n - 1 <= Len(s)
  BY <1>2
<1>4. n - 1 \notin bad
  <2> HIDE DEF bad
  <2>1. n - 1 \in bad => n <= n - 1
    BY <1>1
  <2> QED
    BY <1>3, <2>1
<1>5. LeftOfFirst(T, s, fn, n - 1)
  BY <1>3, <1>4
<1>6. LeftOfFirst(T, s, fn, n)
  BY <1>3, <1>5, LeftStep
<1> QED
  BY <1>6

\* Those that stay keep their order.
LEMMA PlacesGrow ==
    ASSUME NEW T, NEW s \in Seq(T), NEW fn, NEW i \in 0..Len(s), NEW j \in 0..Len(s), i <= j
    PROVE  /\ Place(s, fn, i) <= Place(s, fn, j) /\ Place(s, fn, j) - Place(s, fn, i) <= j - i
           /\ Place(s, fn, i) \in Nat /\ Place(s, fn, j) \in Nat
           /\ i < j /\ s[j] # fn => Place(s, fn, i) < Place(s, fn, j)
<1>1. \A n \in 0..Len(s) : Place(s, fn, n) \in Nat
  BY LeftOf DEF LeftOfFirst
<1>2. ASSUME NEW n \in 1..Len(s)
      PROVE  Place(s, fn, n) = IF s[n] = fn THEN Place(s, fn, n - 1) ELSE Place(s, fn, n - 1) + 1
  <2>1. others(s, fn)[n - 1] \in Seq(T) /\ n - 1 \in 0..Len(s)
    <3>1. n - 1 \in 0..Len(s)
      OBVIOUS
    <3> QED
      BY <3>1, LeftOf DEF LeftOfFirst
  <2>2. s[n] \in T
    OBVIOUS
  <2>3. others(s, fn)[n] = IF s[n] = fn THEN others(s, fn)[n - 1]
                           ELSE Append(others(s, fn)[n - 1], s[n])
    BY OthersStep
  <2> DEFINE now == others(s, fn)[n]
             before == others(s, fn)[n - 1]
  <2>4. /\ before \in Seq(T) /\ now = IF s[n] = fn THEN before ELSE Append(before, s[n])
        /\ Place(s, fn, n) = Len(now) /\ Place(s, fn, n - 1) = Len(before)
    BY <2>1, <2>3 DEF Place
  <2> HIDE DEF now, before
  <2> QED
    BY <2>2, <2>4
<1> DEFINE at(n) == Place(s, fn, n)
           bad == {n \in Nat : /\ i + n <= Len(s)
                               /\ ~(at(i) <= at(i + n) /\ at(i + n) - at(i) <= n)}
<1>3. bad = {}
  <2> SUFFICES ASSUME bad # {} PROVE FALSE
    OBVIOUS
  <2>1. PICK n \in bad : \A y \in bad : n <= y
    BY LeastNat
  <2>2. n # 0
    BY <1>1
  <2>3. n - 1 \in Nat /\ n - 1 \notin bad /\ i + n \in 1..Len(s) /\ i + n - 1 = i + (n - 1)
    <3>1. n - 1 \in Nat
      BY <2>2
    <3>2. n - 1 \in bad => n <= n - 1
      <4> HIDE DEF bad
      <4> QED
        BY <2>1
    <3> QED
      BY <2>2, <3>1, <3>2
  <2>4. at(i + n) = IF s[i + n] = fn THEN at(i + (n - 1)) ELSE at(i + (n - 1)) + 1
    BY <1>2, <2>3
  <2>5. at(i) \in Nat /\ at(i + n) \in Nat /\ at(i + (n - 1)) \in Nat
    <3>1. i + n \in 0..Len(s) /\ i + (n - 1) \in 0..Len(s)
      BY <2>3
    <3> QED
      BY <1>1, <3>1
  <2>6. i + (n - 1) <= Len(s)
    BY <2>3
  <2>7. at(i) <= at(i + (n - 1)) /\ at(i + (n - 1)) - at(i) <= n - 1
    BY <2>3, <2>6
  <2> HIDE DEF at
  <2>8. at(i) <= at(i + n) /\ at(i + n) - at(i) <= n
    BY <2>4, <2>5, <2>7
  <2> QED
    BY <2>8
<1>4. ASSUME NEW k \in i..Len(s)
      PROVE  at(i) <= at(k) /\ at(k) - at(i) <= k - i
  <2>1. k - i \in Nat /\ i + (k - i) = k /\ i + (k - i) <= Len(s)
    OBVIOUS
  <2> QED
    BY <1>3, <2>1
<1>5. at(i) <= at(j) /\ at(j) - at(i) <= j - i
  BY <1>4
<1>6. ASSUME i < j, s[j] # fn PROVE at(i) < at(j)
  <2>1. j \in 1..Len(s) /\ j - 1 \in i..Len(s) /\ j - 1 \in 0..Len(s)
    BY <1>6
  <2>2. at(i) <= at(j - 1) /\ at(j) = at(j - 1) + 1
    BY <1>2, <1>4, <1>6, <2>1
  <2>3. at(i) \in Nat /\ at(j - 1) \in Nat
    BY <1>1, <2>1
  <2> HIDE DEF at
  <2> QED
    BY <2>2, <2>3
<1> QED
  BY <1>1, <1>5, <1>6

(* What the operations do to a list *)

LEMMA FieldsOf ==
    ASSUME NEW F, NEW V, NEW L \in CallbackLists(F, V)
    PROVE  /\ L.options \in SUBSET Options /\ L.list \in Seq(F) /\ L.disabled \in BOOLEAN
           /\ L.memory \in V \cup {Nothing} /\ L.fired \in BOOLEAN /\ L.firing \in BOOLEAN
           /\ L.running \in BOOLEAN /\ L.data \in V \cup {Nothing} /\ L.firingIndex \in Nat
           /\ L.firingLength \in Nat /\ L.stack \in Seq(V) /\ L.open \in BOOLEAN
  BY DEF CallbackLists

FireSet(F, V, L, M, m, d, i, n) ==
    /\ L \in CallbackLists(F, V)
    /\ m \in V \cup {Nothing} /\ d \in V \cup {Nothing} /\ i \in Nat /\ n \in Nat
    /\ M = [L EXCEPT !.memory = m, !.fired = TRUE, !.firing = TRUE, !.running = FALSE,
                    !.data = d, !.firingIndex = i, !.firingLength = n]

LEMMA FireSets ==
    ASSUME NEW F, NEW V, NEW L, NEW M, NEW m, NEW d, NEW i, NEW n, FireSet(F, V, L, M, m, d, i, n)
    PROVE  /\ M \in CallbackLists(F, V)
           /\ M.options = L.options /\ M.list = L.list /\ M.disabled = L.disabled
           /\ M.memory = m /\ M.fired /\ M.firing /\ ~M.running /\ M.data = d
           /\ M.firingIndex = i /\ M.firingLength = n /\ M.stack = L.stack /\ M.open = L.open
<1>1. FALSE \in BOOLEAN /\ TRUE \in BOOLEAN
  OBVIOUS
<1> QED
  BY <1>1 DEF CallbackLists, FireSet

ListSet(F, V, L, M, l) ==
    /\ L \in CallbackLists(F, V)
    /\ l \in Seq(F)
    /\ M = [L EXCEPT !.list = l]

LEMMA ListSets ==
    ASSUME NEW F, NEW V, NEW L, NEW M, NEW l, ListSet(F, V, L, M, l)
    PROVE  /\ M \in CallbackLists(F, V)
           /\ M.options = L.options /\ M.list = l /\ M.disabled = L.disabled
           /\ M.memory = L.memory /\ M.fired = L.fired /\ M.firing = L.firing
           /\ M.running = L.running /\ M.data = L.data /\ M.firingIndex = L.firingIndex
           /\ M.firingLength = L.firingLength /\ M.stack = L.stack /\ M.open = L.open
  BY DEF CallbackLists, ListSet

LengthSet(F, V, L, M, n) ==
    /\ L \in CallbackLists(F, V)
    /\ n \in Nat
    /\ M = [L EXCEPT !.firingLength = n]

LEMMA LengthSets ==
    ASSUME NEW F, NEW V, NEW L, NEW M, NEW n, LengthSet(F, V, L, M, n)
    PROVE  /\ M \in CallbackLists(F, V)
           /\ M.options = L.options /\ M.list = L.list /\ M.disabled = L.disabled
           /\ M.memory = L.memory /\ M.fired = L.fired /\ M.firing = L.firing
           /\ M.running = L.running /\ M.data = L.data /\ M.firingIndex = L.firingIndex
           /\ M.firingLength = n /\ M.stack = L.stack /\ M.open = L.open
  BY DEF CallbackLists, LengthSet

RemoveSet(F, V, L, M, l, n, i) ==
    /\ L \in CallbackLists(F, V)
    /\ l \in Seq(F) /\ n \in Nat /\ i \in Nat
    /\ M = [L EXCEPT !.list = l, !.firingLength = n, !.firingIndex = i]

LEMMA RemoveSets ==
    ASSUME NEW F, NEW V, NEW L, NEW M, NEW l, NEW n, NEW i, RemoveSet(F, V, L, M, l, n, i)
    PROVE  /\ M \in CallbackLists(F, V)
           /\ M.options = L.options /\ M.list = l /\ M.disabled = L.disabled
           /\ M.memory = L.memory /\ M.fired = L.fired /\ M.firing = L.firing
           /\ M.running = L.running /\ M.data = L.data /\ M.firingIndex = i
           /\ M.firingLength = n /\ M.stack = L.stack /\ M.open = L.open
  BY DEF CallbackLists, RemoveSet

EmptySet(F, V, L, M) ==
    /\ L \in CallbackLists(F, V)
    /\ M = [L EXCEPT !.list = <<>>, !.disabled = FALSE, !.firingLength = 0]

LEMMA EmptySets ==
    ASSUME NEW F, NEW V, NEW L, NEW M, EmptySet(F, V, L, M)
    PROVE  /\ M \in CallbackLists(F, V)
           /\ M.options = L.options /\ M.list = <<>> /\ ~M.disabled /\ M.memory = L.memory
           /\ M.fired = L.fired /\ M.firing = L.firing /\ M.running = L.running
           /\ M.data = L.data /\ M.firingIndex = L.firingIndex /\ M.firingLength = 0
           /\ M.stack = L.stack /\ M.open = L.open
<1>1. FALSE \in BOOLEAN /\ <<>> \in Seq(F) /\ 0 \in Nat
  OBVIOUS
<1> QED
  BY <1>1 DEF CallbackLists, EmptySet

DisableSet(F, V, L, M) ==
    /\ L \in CallbackLists(F, V)
    /\ M = [L EXCEPT !.list = <<>>, !.disabled = TRUE, !.stack = <<>>, !.open = FALSE,
                    !.memory = Nothing]

LEMMA DisableSets ==
    ASSUME NEW F, NEW V, NEW L, NEW M, DisableSet(F, V, L, M)
    PROVE  /\ M \in CallbackLists(F, V)
           /\ M.options = L.options /\ M.list = <<>> /\ M.disabled /\ M.memory = Nothing
           /\ M.fired = L.fired /\ M.firing = L.firing /\ M.running = L.running
           /\ M.data = L.data /\ M.firingIndex = L.firingIndex
           /\ M.firingLength = L.firingLength /\ M.stack = <<>> /\ ~M.open
<1>1. FALSE \in BOOLEAN /\ TRUE \in BOOLEAN /\ <<>> \in Seq(F) /\ <<>> \in Seq(V)
  OBVIOUS
<1> QED
  BY <1>1 DEF CallbackLists, DisableSet

LockSet(F, V, L, M) ==
    /\ L \in CallbackLists(F, V)
    /\ M = [L EXCEPT !.stack = <<>>, !.open = FALSE]

LEMMA LockSets ==
    ASSUME NEW F, NEW V, NEW L, NEW M, LockSet(F, V, L, M)
    PROVE  /\ M \in CallbackLists(F, V)
           /\ M.options = L.options /\ M.list = L.list /\ M.disabled = L.disabled
           /\ M.memory = L.memory /\ M.fired = L.fired /\ M.firing = L.firing
           /\ M.running = L.running /\ M.data = L.data /\ M.firingIndex = L.firingIndex
           /\ M.firingLength = L.firingLength /\ M.stack = <<>> /\ ~M.open
<1>1. FALSE \in BOOLEAN /\ <<>> \in Seq(V)
  OBVIOUS
<1> QED
  BY <1>1 DEF CallbackLists, LockSet

StackSet(F, V, L, M, s) ==
    /\ L \in CallbackLists(F, V)
    /\ s \in Seq(V)
    /\ M = [L EXCEPT !.stack = s]

LEMMA StackSets ==
    ASSUME NEW F, NEW V, NEW L, NEW M, NEW s, StackSet(F, V, L, M, s)
    PROVE  /\ M \in CallbackLists(F, V)
           /\ M.options = L.options /\ M.list = L.list /\ M.disabled = L.disabled
           /\ M.memory = L.memory /\ M.fired = L.fired /\ M.firing = L.firing
           /\ M.running = L.running /\ M.data = L.data /\ M.firingIndex = L.firingIndex
           /\ M.firingLength = L.firingLength /\ M.stack = s /\ M.open = L.open
  BY DEF CallbackLists, StackSet

RunSet(F, V, L, M) ==
    /\ L \in CallbackLists(F, V)
    /\ M = [L EXCEPT !.running = TRUE]

LEMMA RunSets ==
    ASSUME NEW F, NEW V, NEW L, NEW M, RunSet(F, V, L, M)
    PROVE  /\ M \in CallbackLists(F, V)
           /\ M.options = L.options /\ M.list = L.list /\ M.disabled = L.disabled
           /\ M.memory = L.memory /\ M.fired = L.fired /\ M.firing = L.firing /\ M.running
           /\ M.data = L.data /\ M.firingIndex = L.firingIndex
           /\ M.firingLength = L.firingLength /\ M.stack = L.stack /\ M.open = L.open
<1>1. TRUE \in BOOLEAN
  OBVIOUS
<1> QED
  BY <1>1 DEF CallbackLists, RunSet

ReturnSet(F, V, L, M, i) ==
    /\ L \in CallbackLists(F, V)
    /\ i \in Nat
    /\ M = [L EXCEPT !.running = FALSE, !.firingIndex = i]

LEMMA ReturnSets ==
    ASSUME NEW F, NEW V, NEW L, NEW M, NEW i, ReturnSet(F, V, L, M, i)
    PROVE  /\ M \in CallbackLists(F, V)
           /\ M.options = L.options /\ M.list = L.list /\ M.disabled = L.disabled
           /\ M.memory = L.memory /\ M.fired = L.fired /\ M.firing = L.firing /\ ~M.running
           /\ M.data = L.data /\ M.firingIndex = i /\ M.firingLength = L.firingLength
           /\ M.stack = L.stack /\ M.open = L.open
<1>1. FALSE \in BOOLEAN
  OBVIOUS
<1> QED
  BY <1>1 DEF CallbackLists, ReturnSet

StopSet(F, V, L, M, i) ==
    /\ L \in CallbackLists(F, V)
    /\ i \in Nat
    /\ M = [L EXCEPT !.running = FALSE, !.memory = Nothing, !.firingIndex = i]

LEMMA StopSets ==
    ASSUME NEW F, NEW V, NEW L, NEW M, NEW i, StopSet(F, V, L, M, i)
    PROVE  /\ M \in CallbackLists(F, V)
           /\ M.options = L.options /\ M.list = L.list /\ M.disabled = L.disabled
           /\ M.memory = Nothing /\ M.fired = L.fired /\ M.firing = L.firing /\ ~M.running
           /\ M.data = L.data /\ M.firingIndex = i /\ M.firingLength = L.firingLength
           /\ M.stack = L.stack /\ M.open = L.open
<1>1. FALSE \in BOOLEAN
  OBVIOUS
<1> QED
  BY <1>1 DEF CallbackLists, StopSet

OverSet(F, V, L, M) ==
    /\ L \in CallbackLists(F, V)
    /\ M = [L EXCEPT !.firing = FALSE]

LEMMA OverSets ==
    ASSUME NEW F, NEW V, NEW L, NEW M, OverSet(F, V, L, M)
    PROVE  /\ M \in CallbackLists(F, V)
           /\ M.options = L.options /\ M.list = L.list /\ M.disabled = L.disabled
           /\ M.memory = L.memory /\ M.fired = L.fired /\ ~M.firing /\ M.running = L.running
           /\ M.data = L.data /\ M.firingIndex = L.firingIndex
           /\ M.firingLength = L.firingLength /\ M.stack = L.stack /\ M.open = L.open
<1>1. FALSE \in BOOLEAN
  OBVIOUS
<1> QED
  BY <1>1 DEF CallbackLists, OverSet

\* What holds of a list whatever is done to it.
Shape(F, V, L) ==
    /\ L \in CallbackLists(F, V)
    /\ L.firing /\ ~L.disabled => L.firingLength = Len(L.list)
    /\ L.firing => L.fired /\ L.data \in V
    /\ L.running => L.firing
    /\ L.disabled => L.list = <<>> /\ L.memory = Nothing /\ ~L.open
    /\ ~L.open => L.stack = <<>>
    /\ L.stack # <<>> => L.firing

\* No fire starts and none ends; some may be given up.
Quiet(L, M) ==
    /\ M.options = L.options /\ M.fired = L.fired /\ M.firing = L.firing /\ M.running = L.running
    /\ M.data = L.data /\ M.memory \in {L.memory, Nothing} /\ M.stack \in {L.stack, <<>>}
    /\ M.open => L.open

\* The last fire is repeated, for one who comes late.
Repeats(L, M) ==
    /\ ~L.firing /\ L.memory # Nothing
    /\ M.firing /\ ~M.running /\ M.fired /\ M.data = L.memory /\ M.memory \in {L.memory, Nothing}
    /\ M.options = L.options /\ M.stack = L.stack /\ M.open = L.open

LEMMA AddIs ==
    ASSUME NEW F, NEW V, NEW L, Shape(F, V, L), NEW fn \in F, NEW M, M = add(L, fn)
    PROVE  /\ Shape(F, V, M) /\ M.disabled = L.disabled
           /\ Quiet(L, M) \/ Repeats(L, M)
           /\ \/ M.list = L.list
              \/ /\ M.list = Append(L.list, fn)
                 /\ "unique" \in L.options => ~has(L, fn)
           /\ Quiet(L, M) => M.firingIndex = L.firingIndex
           /\ Repeats(L, M) => M.firingIndex = Len(L.list) + 1
           /\ ~L.disabled /\ ~L.firing /\ L.memory # Nothing => Repeats(L, M)
           /\ ~L.disabled /\ "unique" \notin L.options => M.list = Append(L.list, fn)
           /\ "memory" \in L.options => M.memory = L.memory
           /\ L.disabled => M = L
           /\ M.stack = L.stack /\ M.open = L.open
<1> DEFINE longer == IF "unique" \in L.options /\ has(L, fn) THEN L
                    ELSE [L EXCEPT !.list = Append(@, fn)]
<1>0. L \in CallbackLists(F, V)
  BY DEF Shape
<1>1. /\ L.options \in SUBSET Options /\ L.list \in Seq(F) /\ L.disabled \in BOOLEAN
      /\ L.memory \in V \cup {Nothing} /\ L.fired \in BOOLEAN /\ L.firing \in BOOLEAN
      /\ L.running \in BOOLEAN /\ L.data \in V \cup {Nothing} /\ L.firingIndex \in Nat
      /\ L.firingLength \in Nat /\ L.stack \in Seq(V) /\ L.open \in BOOLEAN
  BY <1>0, FieldsOf
<1>2. /\ longer \in CallbackLists(F, V)
      /\ \/ longer.list = L.list
         \/ longer.list = Append(L.list, fn) /\ ("unique" \in L.options => ~has(L, fn))
      /\ "unique" \notin L.options => longer.list = Append(L.list, fn)
      /\ longer.options = L.options /\ longer.disabled = L.disabled /\ longer.memory = L.memory
      /\ longer.fired = L.fired /\ longer.firing = L.firing /\ longer.running = L.running
      /\ longer.data = L.data /\ longer.firingIndex = L.firingIndex
      /\ longer.firingLength = L.firingLength /\ longer.stack = L.stack /\ longer.open = L.open
  <2>1. CASE "unique" \in L.options /\ has(L, fn)
    BY <1>0, <2>1
  <2>2. CASE ~("unique" \in L.options /\ has(L, fn))
    <3> DEFINE l == Append(L.list, fn)
    <3>1. longer = [L EXCEPT !.list = l] /\ l \in Seq(F)
      BY <1>1, <2>2
    <3> HIDE DEF longer, l
    <3>2. /\ longer \in CallbackLists(F, V) /\ longer.list = l
          /\ longer.options = L.options /\ longer.disabled = L.disabled /\ longer.memory = L.memory
          /\ longer.fired = L.fired /\ longer.firing = L.firing /\ longer.running = L.running
          /\ longer.data = L.data /\ longer.firingIndex = L.firingIndex
          /\ longer.firingLength = L.firingLength /\ longer.stack = L.stack /\ longer.open = L.open
      <4>1. ListSet(F, V, L, longer, l)
        BY <1>0, <3>1 DEF ListSet
      <4> QED
        BY <4>1, ListSets
    <3> QED
      BY <2>2, <3>2 DEF l
  <2> QED
    BY <2>1, <2>2
<1>3. M = IF L.disabled THEN L
          ELSE IF L.firing THEN [longer EXCEPT !.firingLength = Len(longer.list)]
          ELSE IF L.memory # Nothing THEN fire(longer, L.memory, Len(L.list) + 1)
          ELSE longer
  BY DEF add
<1> HIDE DEF longer
<1>4. Len(longer.list) \in Nat /\ longer.list \in Seq(F) /\ Len(L.list) + 1 \in Nat
  <2>1. longer.list \in Seq(F)
    BY <1>2, FieldsOf
  <2> QED
    BY <1>1, <2>1
<1>5. CASE L.disabled
  <2>1. M = L
    BY <1>3, <1>5
  <2>2. Quiet(L, M) /\ ~Repeats(L, M)
    BY <1>1, <1>5, <2>1 DEF Quiet, Repeats, Shape
  <2> QED
    BY <1>5, <2>1, <2>2
<1>6. CASE ~L.disabled /\ L.firing
  <2> DEFINE n == Len(longer.list)
  <2>1. M = [longer EXCEPT !.firingLength = n] /\ n \in Nat
    BY <1>3, <1>4, <1>6
  <2> HIDE DEF n
  <2>2. /\ M \in CallbackLists(F, V)
        /\ M.options = longer.options /\ M.list = longer.list /\ M.disabled = longer.disabled
        /\ M.memory = longer.memory /\ M.fired = longer.fired /\ M.firing = longer.firing
        /\ M.running = longer.running /\ M.data = longer.data /\ M.firingIndex = longer.firingIndex
        /\ M.firingLength = n /\ M.stack = longer.stack /\ M.open = longer.open
    <3>1. LengthSet(F, V, longer, M, n)
      BY <1>2, <2>1 DEF LengthSet
    <3> QED
      BY <3>1, LengthSets
  <2>3. Shape(F, V, M)
    BY <1>2, <1>6, <2>2 DEF Shape, n
  <2>4. Quiet(L, M) /\ ~Repeats(L, M)
    BY <1>2, <1>6, <2>2 DEF Quiet, Repeats
  <2> QED
    BY <1>2, <1>6, <2>2, <2>3, <2>4
<1>7. CASE ~L.disabled /\ ~L.firing /\ L.memory # Nothing
  <2>1. M = fire(longer, L.memory, Len(L.list) + 1) /\ L.memory \in V
    BY <1>1, <1>3, <1>7
  <2> DEFINE m == IF "memory" \in longer.options THEN L.memory ELSE Nothing
             d == L.memory
             i == Len(L.list) + 1
             n == Len(longer.list)
  <2>2. M = [longer EXCEPT !.memory = m, !.fired = TRUE, !.firing = TRUE, !.running = FALSE,
                          !.data = d, !.firingIndex = i, !.firingLength = n]
    BY <2>1 DEF fire
  <2>3. /\ m \in V \cup {Nothing} /\ m \in {L.memory, Nothing} /\ d \in V \cup {Nothing}
        /\ i \in Nat /\ n \in Nat /\ TRUE \in BOOLEAN /\ FALSE \in BOOLEAN
    BY <1>4, <2>1
  <2> HIDE DEF m, d, i, n
  <2>4. /\ M \in CallbackLists(F, V)
        /\ M.options = longer.options /\ M.list = longer.list /\ M.disabled = longer.disabled
        /\ M.memory = m /\ M.fired /\ M.firing /\ ~M.running /\ M.data = d
        /\ M.firingIndex = i /\ M.firingLength = n /\ M.stack = longer.stack /\ M.open = longer.open
    <3>1. FireSet(F, V, longer, M, m, d, i, n)
      BY <1>2, <2>2, <2>3 DEF FireSet
    <3> QED
      BY <3>1, FireSets
  <2>5. Shape(F, V, M)
    BY <1>2, <1>7, <2>1, <2>4 DEF Shape, n, d
  <2>6. Repeats(L, M) /\ ~Quiet(L, M)
    BY <1>2, <1>7, <2>3, <2>4 DEF Quiet, Repeats, d
  <2>7. "memory" \in L.options => M.memory = L.memory
    BY <1>2, <2>4 DEF m
  <2> QED
    BY <1>2, <1>7, <2>4, <2>5, <2>6, <2>7 DEF i
<1>8. CASE ~L.disabled /\ ~L.firing /\ L.memory = Nothing
  <2>1. M = longer
    BY <1>3, <1>8
  <2>2. Shape(F, V, M)
    BY <1>2, <1>8, <2>1 DEF Shape
  <2>3. Quiet(L, M) /\ ~Repeats(L, M)
    BY <1>2, <1>8, <2>1 DEF Quiet, Repeats
  <2> QED
    BY <1>2, <1>8, <2>1, <2>2, <2>3
<1> QED
  BY <1>1, <1>5, <1>6, <1>7, <1>8

\* How remove() moves the others: n is how many there are up to the callback that runs.
Moves(L, M, fn) ==
    LET s == L.list
        done == IF L.firingIndex <= Len(s) THEN L.firingIndex ELSE Len(s)
    IN  /\ M.list = others(s, fn)[Len(s)]
        /\ L.firing => M.firingIndex = L.firingIndex - (done - Place(s, fn, done))

LEMMA RemoveIs ==
    ASSUME NEW F, NEW V, NEW L, Shape(F, V, L), NEW fn \in F, NEW M, M = remove(L, fn)
    PROVE  /\ Shape(F, V, M) /\ M.disabled = L.disabled
           /\ Quiet(L, M)
           /\ ~L.disabled => Moves(L, M, fn)
<1> DEFINE s == L.list
           kept == others(s, fn)
           done == IF L.firingIndex <= Len(s) THEN L.firingIndex ELSE Len(s)
           l == kept[Len(s)]
           n == IF L.firing THEN Len(l) ELSE L.firingLength
           i == IF L.firing THEN L.firingIndex - (done - Len(kept[done])) ELSE L.firingIndex
<1>0. L \in CallbackLists(F, V)
  BY DEF Shape
<1>1. /\ L.options \in SUBSET Options /\ L.list \in Seq(F) /\ L.disabled \in BOOLEAN
      /\ L.memory \in V \cup {Nothing} /\ L.fired \in BOOLEAN /\ L.firing \in BOOLEAN
      /\ L.running \in BOOLEAN /\ L.data \in V \cup {Nothing} /\ L.firingIndex \in Nat
      /\ L.firingLength \in Nat /\ L.stack \in Seq(V) /\ L.open \in BOOLEAN
  BY <1>0, FieldsOf
<1>2. CASE L.disabled
  <2>1. M = L
    BY <1>2 DEF remove
  <2> QED
    BY <1>1, <1>2, <2>1 DEF Quiet, Shape
<1>3. CASE ~L.disabled
  <2>1. M = [L EXCEPT !.list = l, !.firingLength = n, !.firingIndex = i]
    BY <1>3 DEF remove
  <2>2. /\ l \in Seq(F) /\ Len(l) \in Nat
    <3>1. Len(s) \in 0..Len(s)
      BY <1>1
    <3>2. others(s, fn)[Len(s)] \in Seq(F) /\ Place(s, fn, Len(s)) \in 0..Len(s)
      BY <1>1, <3>1, LeftOf DEF LeftOfFirst
    <3> QED
      BY <3>2
  <2>3. /\ done \in 0..Len(s) /\ done <= L.firingIndex
    BY <1>1
  <2>4. Len(kept[done]) \in 0..done
    <3>1. Place(s, fn, done) \in 0..done
      <4> HIDE DEF done
      <4> QED
        BY <1>1, <2>3, LeftOf DEF LeftOfFirst
    <3> QED
      BY <3>1 DEF Place
  <2>5. i \in Nat /\ n \in Nat
    <3> DEFINE p == Len(kept[done])
    <3>1. p \in Nat /\ p <= done /\ done \in Nat /\ done <= L.firingIndex /\ L.firingIndex \in Nat
      BY <1>1, <2>3, <2>4
    <3>2. i = IF L.firing THEN L.firingIndex - (done - p) ELSE L.firingIndex
      OBVIOUS
    <3> HIDE DEF p, done, i, l
    <3>3. i \in Nat
      BY <3>1, <3>2
    <3> QED
      BY <1>1, <2>2, <3>3
  <2>6. L.firing => i = L.firingIndex - (done - Place(s, fn, done)) /\ n = Len(l)
    BY DEF Place
  <2> HIDE DEF l, n, i, done
  <2>7. /\ M \in CallbackLists(F, V)
        /\ M.options = L.options /\ M.list = l /\ M.disabled = L.disabled
        /\ M.memory = L.memory /\ M.fired = L.fired /\ M.firing = L.firing
        /\ M.running = L.running /\ M.data = L.data /\ M.firingIndex = i
        /\ M.firingLength = n /\ M.stack = L.stack /\ M.open = L.open
    <3>1. RemoveSet(F, V, L, M, l, n, i)
      BY <1>0, <2>1, <2>2, <2>5 DEF RemoveSet
    <3> QED
      BY <3>1, RemoveSets
  <2>8. Shape(F, V, M)
    BY <1>3, <2>6, <2>7 DEF Shape
  <2>9. Quiet(L, M)
    BY <2>7 DEF Quiet
  <2>10. Moves(L, M, fn)
    BY <2>6, <2>7 DEF Moves, l, done
  <2> QED
    BY <2>7, <2>8, <2>9, <2>10
<1> QED
  BY <1>1, <1>2, <1>3

LEMMA EmptyIs ==
    ASSUME NEW F, NEW V, NEW L, Shape(F, V, L), NEW M, M = empty(L)
    PROVE  Shape(F, V, M) /\ Quiet(L, M) /\ M.list = <<>>
<1>0. L \in CallbackLists(F, V)
  BY DEF Shape
<1>1. <<>> \in Seq(F) /\ 0 \in Nat /\ FALSE \in BOOLEAN /\ Len(<<>>) = 0
  OBVIOUS
<1>2. M = [L EXCEPT !.list = <<>>, !.disabled = FALSE, !.firingLength = 0]
  BY DEF empty
<1>3. /\ M \in CallbackLists(F, V)
      /\ M.options = L.options /\ M.list = <<>> /\ ~M.disabled
      /\ M.memory = L.memory /\ M.fired = L.fired /\ M.firing = L.firing
      /\ M.running = L.running /\ M.data = L.data /\ M.firingIndex = L.firingIndex
      /\ M.firingLength = 0 /\ M.stack = L.stack /\ M.open = L.open
  <2>1. EmptySet(F, V, L, M)
    BY <1>0, <1>1, <1>2 DEF EmptySet
  <2> QED
    BY <2>1, EmptySets
<1> QED
  BY <1>1, <1>3 DEF Shape, Quiet

LEMMA DisableIs ==
    ASSUME NEW F, NEW V, NEW L, Shape(F, V, L), NEW M, M = disable(L)
    PROVE  /\ Shape(F, V, M) /\ Quiet(L, M) /\ M.list = <<>> /\ M.disabled /\ M.memory = Nothing
           /\ M.stack = <<>>
<1>0. L \in CallbackLists(F, V)
  BY DEF Shape
<1>1. <<>> \in Seq(F) /\ <<>> \in Seq(V) /\ FALSE \in BOOLEAN /\ TRUE \in BOOLEAN
      /\ Nothing \in V \cup {Nothing}
  OBVIOUS
<1>2. M = [L EXCEPT !.list = <<>>, !.disabled = TRUE, !.stack = <<>>, !.open = FALSE,
                    !.memory = Nothing]
  BY DEF disable
<1>3. /\ M \in CallbackLists(F, V)
      /\ M.options = L.options /\ M.list = <<>> /\ M.disabled
      /\ M.memory = Nothing /\ M.fired = L.fired /\ M.firing = L.firing
      /\ M.running = L.running /\ M.data = L.data /\ M.firingIndex = L.firingIndex
      /\ M.firingLength = L.firingLength /\ M.stack = <<>> /\ ~M.open
  <2>1. DisableSet(F, V, L, M)
    BY <1>0, <1>1, <1>2 DEF DisableSet
  <2> QED
    BY <2>1, DisableSets
<1> QED
  BY <1>1, <1>3 DEF Shape, Quiet

LEMMA LockIs ==
    ASSUME NEW F, NEW V, NEW L, Shape(F, V, L), NEW M, M = lock(L)
    PROVE  /\ Shape(F, V, M) /\ Quiet(L, M) /\ M.stack = <<>> /\ ~M.open
           /\ \/ M.list = <<>> /\ M.disabled
              \/ /\ M.list = L.list /\ M.firingIndex = L.firingIndex /\ M.disabled = L.disabled
                 /\ M.memory = L.memory
           /\ L.memory = Nothing => M.disabled
           /\ L.memory # Nothing => M.memory = L.memory /\ ~M.disabled
<1>0. L \in CallbackLists(F, V)
  BY DEF Shape
<1>1. CASE L.memory = Nothing
  <2>1. M = disable(L)
    BY <1>1 DEF lock
  <2>2. /\ Shape(F, V, M) /\ Quiet(L, M) /\ M.list = <<>> /\ M.disabled /\ M.stack = <<>>
    BY <2>1, DisableIs
  <2>3. ~M.open
    BY <1>0, <2>1 DEF disable, CallbackLists
  <2> QED
    BY <1>1, <2>2, <2>3
<1>2. CASE L.memory # Nothing
  <2>1. M = [L EXCEPT !.stack = <<>>, !.open = FALSE]
    BY <1>2 DEF lock
  <2>2. <<>> \in Seq(V) /\ FALSE \in BOOLEAN
    OBVIOUS
  <2>3. /\ M \in CallbackLists(F, V)
        /\ M.options = L.options /\ M.list = L.list /\ M.disabled = L.disabled
        /\ M.memory = L.memory /\ M.fired = L.fired /\ M.firing = L.firing
        /\ M.running = L.running /\ M.data = L.data /\ M.firingIndex = L.firingIndex
        /\ M.firingLength = L.firingLength /\ M.stack = <<>> /\ ~M.open
    <3>1. LockSet(F, V, L, M)
      BY <1>0, <2>1, <2>2 DEF LockSet
    <3> QED
      BY <3>1, LockSets
  <2>4. ~L.disabled
    BY <1>2 DEF Shape
  <2> QED
    BY <1>2, <2>3, <2>4 DEF Shape, Quiet
<1> QED
  BY <1>1, <1>2

\* A fire starts, with all that there is.
Starts(L, M, v) ==
    /\ M.firing /\ ~M.running /\ M.fired /\ M.data = v /\ M.memory \in {v, Nothing}
    /\ "memory" \in L.options => M.memory = v
    /\ M.options = L.options /\ M.open = L.open /\ M.disabled = L.disabled
    /\ M.list = L.list /\ M.firingIndex = 1

Queues(L, M, v) ==
    /\ L.firing /\ L.open /\ ~L.disabled
    /\ M.options = L.options /\ M.list = L.list /\ M.disabled = L.disabled /\ M.memory = L.memory
    /\ M.fired = L.fired /\ M.firing = L.firing /\ M.running = L.running /\ M.data = L.data
    /\ M.firingIndex = L.firingIndex /\ M.open = L.open
    /\ M.stack = Append(L.stack, v)

LEMMA StartIs ==
    ASSUME NEW F, NEW V, NEW L \in CallbackLists(F, V), ~L.disabled, ~L.running,
           ~L.open => L.stack = <<>>, NEW v \in V, NEW M, M = fire(L, v, 1)
    PROVE  Shape(F, V, M) /\ Starts(L, M, v) /\ M.stack = L.stack
<1> DEFINE m == IF "memory" \in L.options THEN v ELSE Nothing
           n == Len(L.list)
<1>1. m \in V \cup {Nothing} /\ m \in {v, Nothing} /\ v \in V \cup {Nothing} /\ 1 \in Nat /\ n \in Nat
  <2>1. L.list \in Seq(F)
    BY FieldsOf
  <2> QED
    BY <2>1
<1>2. M = [L EXCEPT !.memory = m, !.fired = TRUE, !.firing = TRUE, !.running = FALSE,
                    !.data = v, !.firingIndex = 1, !.firingLength = n]
  BY DEF fire
<1> HIDE DEF m, n
<1>3. FireSet(F, V, L, M, m, v, 1, n)
  BY <1>1, <1>2 DEF FireSet
<1>4. /\ M \in CallbackLists(F, V)
      /\ M.options = L.options /\ M.list = L.list /\ M.disabled = L.disabled
      /\ M.memory = m /\ M.fired /\ M.firing /\ ~M.running /\ M.data = v
      /\ M.firingIndex = 1 /\ M.firingLength = n /\ M.stack = L.stack /\ M.open = L.open
  BY <1>3, FireSets
<1> QED
  BY <1>1, <1>4 DEF Shape, Starts, m, n

LEMMA FireWithIs ==
    ASSUME NEW F, NEW V, NEW L, Shape(F, V, L), NEW v \in V, NEW M, M = fireWith(L, v)
    PROVE  /\ Shape(F, V, M)
           /\ \/ M = L
              \/ Queues(L, M, v)
              \/ ~L.firing /\ (L.fired => L.open) /\ Starts(L, M, v) /\ M.stack = L.stack
           /\ L.disabled \/ (L.fired /\ ~L.open) => M = L
           /\ ~L.disabled /\ ~L.fired => Starts(L, M, v)
<1>0. L \in CallbackLists(F, V) /\ L.stack \in Seq(V)
  <2>1. L \in CallbackLists(F, V)
    BY DEF Shape
  <2> QED
    BY <2>1, FieldsOf
<1>1. M = IF L.disabled \/ (L.fired /\ ~L.open) THEN L
          ELSE IF L.firing THEN [L EXCEPT !.stack = Append(@, v)]
          ELSE fire(L, v, 1)
  BY DEF fireWith
<1>2. CASE L.disabled \/ (L.fired /\ ~L.open)
  BY <1>1, <1>2
<1>3. CASE ~L.disabled /\ ~(L.fired /\ ~L.open) /\ L.firing
  <2> DEFINE s == Append(L.stack, v)
  <2>1. M = [L EXCEPT !.stack = s] /\ s \in Seq(V)
    BY <1>0, <1>1, <1>3
  <2> HIDE DEF s
  <2>2. StackSet(F, V, L, M, s)
    BY <1>0, <2>1 DEF StackSet
  <2>3. /\ M \in CallbackLists(F, V)
        /\ M.options = L.options /\ M.list = L.list /\ M.disabled = L.disabled
        /\ M.memory = L.memory /\ M.fired = L.fired /\ M.firing = L.firing
        /\ M.running = L.running /\ M.data = L.data /\ M.firingIndex = L.firingIndex
        /\ M.firingLength = L.firingLength /\ M.stack = s /\ M.open = L.open
    BY <2>2, StackSets
  <2>4. L.open
    BY <1>3 DEF Shape
  <2>5. Shape(F, V, M)
    BY <1>3, <2>3, <2>4 DEF Shape
  <2>6. Queues(L, M, v)
    BY <1>3, <2>3, <2>4 DEF Queues, s
  <2>7. L.fired
    BY <1>3 DEF Shape
  <2> QED
    BY <1>3, <2>5, <2>6, <2>7
<1>4. CASE ~L.disabled /\ ~(L.fired /\ ~L.open) /\ ~L.firing
  <2>1. M = fire(L, v, 1)
    BY <1>1, <1>4
  <2>2. ~L.running /\ (~L.open => L.stack = <<>>)
    BY <1>4 DEF Shape
  <2>3. Shape(F, V, M) /\ Starts(L, M, v) /\ M.stack = L.stack
    BY <1>0, <1>4, <2>1, <2>2, StartIs
  <2> QED
    BY <1>4, <2>3
<1> QED
  BY <1>2, <1>3, <1>4

LEMMA CallIs ==
    ASSUME NEW F, NEW V, NEW L, Shape(F, V, L), canCall(L), NEW M, M = call(L)
    PROVE  /\ Shape(F, V, M) /\ M.running
           /\ M.options = L.options /\ M.list = L.list /\ M.disabled = L.disabled
           /\ M.memory = L.memory /\ M.fired = L.fired /\ M.firing = L.firing
           /\ M.data = L.data /\ M.firingIndex = L.firingIndex
           /\ M.stack = L.stack /\ M.open = L.open
           /\ L.firingIndex \in Nat /\ L.firingIndex <= Len(L.list)
<1>0. L \in CallbackLists(F, V) /\ L.firing /\ ~L.disabled
  BY DEF Shape, canCall
<1>1. RunSet(F, V, L, M)
  BY <1>0 DEF RunSet, call
<1>2. /\ M \in CallbackLists(F, V)
      /\ M.options = L.options /\ M.list = L.list /\ M.disabled = L.disabled
      /\ M.memory = L.memory /\ M.fired = L.fired /\ M.firing = L.firing
      /\ M.running /\ M.data = L.data /\ M.firingIndex = L.firingIndex
      /\ M.firingLength = L.firingLength /\ M.stack = L.stack /\ M.open = L.open
  BY <1>1, RunSets
<1>3. Shape(F, V, M)
  BY <1>0, <1>2 DEF Shape
<1>4. L.firingIndex \in Nat
  BY <1>0, FieldsOf
<1>5. L.firingIndex <= Len(L.list)
  BY <1>0 DEF canCall, Shape
<1> QED
  BY <1>2, <1>3, <1>4, <1>5

\* The callback returns; one that does not interrupt the fire lets it go on.
ListReturns(L, M, stops) ==
    /\ ~M.running /\ M.options = L.options /\ M.list = L.list /\ M.disabled = L.disabled
    /\ M.fired = L.fired /\ M.firing = L.firing /\ M.data = L.data
    /\ M.stack = L.stack /\ M.open = L.open /\ M.memory \in {L.memory, Nothing}
    /\ M.firingIndex \in Nat \ {0}
    /\ stops \/ (M.firingIndex = L.firingIndex + 1 /\ M.memory = L.memory)

LEMMA ReturnIs ==
    ASSUME NEW F, NEW V, NEW L, Shape(F, V, L), NEW result, NEW M, M = returned(L, result)
    PROVE  Shape(F, V, M) /\ ListReturns(L, M, result = FALSE /\ "stopOnFalse" \in L.options)
<1>0. L \in CallbackLists(F, V) /\ L.firingIndex \in Nat /\ L.firingLength \in Nat
  <2>1. L \in CallbackLists(F, V)
    BY DEF Shape
  <2> QED
    BY <2>1, FieldsOf
<1>1. CASE result = FALSE /\ "stopOnFalse" \in L.options
  <2> DEFINE i == L.firingLength + 1
  <2>1. M = [L EXCEPT !.running = FALSE, !.memory = Nothing, !.firingIndex = i] /\ i \in Nat
    BY <1>0, <1>1 DEF returned
  <2> HIDE DEF i
  <2>2. StopSet(F, V, L, M, i)
    BY <1>0, <2>1 DEF StopSet
  <2>3. /\ M \in CallbackLists(F, V)
        /\ M.options = L.options /\ M.list = L.list /\ M.disabled = L.disabled
        /\ M.memory = Nothing /\ M.fired = L.fired /\ M.firing = L.firing
        /\ ~M.running /\ M.data = L.data /\ M.firingIndex = i
        /\ M.firingLength = L.firingLength /\ M.stack = L.stack /\ M.open = L.open
    BY <2>2, StopSets
  <2>4. Shape(F, V, M)
    BY <2>3 DEF Shape
  <2> QED
    BY <1>0, <1>1, <2>3, <2>4 DEF i, ListReturns
<1>2. CASE ~(result = FALSE /\ "stopOnFalse" \in L.options)
  <2> DEFINE i == L.firingIndex + 1
  <2>1. M = [L EXCEPT !.running = FALSE, !.firingIndex = i] /\ i \in Nat
    BY <1>0, <1>2 DEF returned
  <2> HIDE DEF i
  <2>2. ReturnSet(F, V, L, M, i)
    BY <1>0, <2>1 DEF ReturnSet
  <2>3. /\ M \in CallbackLists(F, V)
        /\ M.options = L.options /\ M.list = L.list /\ M.disabled = L.disabled
        /\ M.memory = L.memory /\ M.fired = L.fired /\ M.firing = L.firing
        /\ ~M.running /\ M.data = L.data /\ M.firingIndex = i
        /\ M.firingLength = L.firingLength /\ M.stack = L.stack /\ M.open = L.open
    BY <2>2, ReturnSets
  <2>4. Shape(F, V, M)
    BY <2>3 DEF Shape
  <2> QED
    BY <1>0, <1>2, <2>3, <2>4 DEF i, ListReturns
<1> QED
  BY <1>1, <1>2

\* The fire is over and none comes after it.
Ends(L, M) ==
    /\ ~M.firing /\ ~M.running /\ M.options = L.options /\ M.fired = L.fired
    /\ M.memory \in {L.memory, Nothing} /\ (M.open => L.open) /\ M.list \in {L.list, <<>>}

\* It may be repeated.
Stays(L, M) ==
    /\ M.options = L.options /\ M.fired = L.fired /\ M.open = L.open /\ ~M.disabled
    /\ M.firing \/ (M.memory = L.memory /\ M.data = L.data)
    /\ L.open => M.list = L.list
    /\ ~L.open => ~M.firing /\ M.list = <<>>

LEMMA FinishIs ==
    ASSUME NEW F, NEW V, NEW L, Shape(F, V, L), canFinish(L), NEW M, M = finished(L)
    PROVE  /\ Shape(F, V, M)
           /\ \/ Ends(L, M)
              \/ /\ L.open /\ ~L.disabled /\ L.stack # <<>>
                 /\ Starts(L, M, Head(L.stack)) /\ M.stack = Tail(L.stack)
           /\ ~L.disabled /\ L.memory # Nothing => Stays(L, M)
<1> DEFINE over == [L EXCEPT !.firing = FALSE]
<1>0. L \in CallbackLists(F, V) /\ L.firing /\ ~L.running /\ L.stack \in Seq(V)
  <2>1. L \in CallbackLists(F, V) /\ L.firing /\ ~L.running
    BY DEF Shape, canFinish
  <2> QED
    BY <2>1, FieldsOf
<1>1. /\ over \in CallbackLists(F, V)
      /\ over.options = L.options /\ over.list = L.list /\ over.disabled = L.disabled
      /\ over.memory = L.memory /\ over.fired = L.fired /\ ~over.firing
      /\ over.running = L.running /\ over.data = L.data /\ over.firingIndex = L.firingIndex
      /\ over.firingLength = L.firingLength /\ over.stack = L.stack /\ over.open = L.open
  <2>1. OverSet(F, V, L, over)
    BY <1>0 DEF OverSet
  <2> HIDE DEF over
  <2> QED
    BY <2>1, OverSets
<1>2. M = IF L.disabled THEN over
          ELSE IF L.open
          THEN IF L.stack = <<>> THEN over
               ELSE fire([over EXCEPT !.stack = Tail(@)], Head(L.stack), 1)
          ELSE IF L.memory # Nothing THEN [over EXCEPT !.list = <<>>] ELSE disable(over)
  BY DEF finished
<1> HIDE DEF over
<1>3. CASE L.disabled \/ (L.open /\ L.stack = <<>>)
  <2>1. M = over
    BY <1>2, <1>3
  <2>2. L.stack = <<>>
    BY <1>3 DEF Shape
  <2>3. Shape(F, V, M)
    BY <1>0, <1>1, <2>1, <2>2 DEF Shape
  <2> QED
    BY <1>0, <1>1, <1>3, <2>1, <2>3 DEF Ends, Stays
<1>4. CASE ~L.disabled /\ L.open /\ L.stack # <<>>
  <2> DEFINE s == Tail(L.stack)
             v == Head(L.stack)
             waits == [over EXCEPT !.stack = s]
  <2>1. s \in Seq(V) /\ v \in V /\ over.stack = L.stack
    BY <1>0, <1>1, <1>4
  <2>2. M = fire(waits, v, 1)
    BY <1>2, <1>4, <2>1
  <2>3. StackSet(F, V, over, waits, s)
    BY <1>1, <2>1 DEF StackSet
  <2> HIDE DEF s, v, waits
  <2>4. /\ waits \in CallbackLists(F, V)
        /\ waits.options = over.options /\ waits.list = over.list /\ waits.disabled = over.disabled
        /\ waits.memory = over.memory /\ waits.fired = over.fired /\ waits.firing = over.firing
        /\ waits.running = over.running /\ waits.data = over.data /\ waits.firingIndex = over.firingIndex
        /\ waits.firingLength = over.firingLength /\ waits.stack = s /\ waits.open = over.open
    BY <2>3, StackSets
  <2>5. ~waits.disabled /\ ~waits.running /\ waits.open
    BY <1>0, <1>1, <1>4, <2>4
  <2>6. Shape(F, V, M) /\ Starts(waits, M, v) /\ M.stack = waits.stack
    BY <2>1, <2>2, <2>4, <2>5, StartIs
  <2>7. Starts(L, M, v)
    BY <1>1, <2>4, <2>6 DEF Starts
  <2>8. L.fired
    BY <1>0 DEF Shape
  <2>9. Stays(L, M)
    BY <1>0, <1>4, <2>7, <2>8 DEF Starts, Stays
  <2> QED
    BY <1>4, <2>4, <2>6, <2>7, <2>9 DEF s, v
<1>5. CASE ~L.disabled /\ ~L.open /\ L.memory # Nothing
  <2>1. M = [over EXCEPT !.list = <<>>] /\ <<>> \in Seq(F)
    BY <1>2, <1>5
  <2> DEFINE l == <<>>
  <2>2. ListSet(F, V, over, M, l)
    BY <1>1, <2>1 DEF ListSet
  <2> HIDE DEF l
  <2>3. /\ M \in CallbackLists(F, V)
        /\ M.options = over.options /\ M.list = l /\ M.disabled = over.disabled
        /\ M.memory = over.memory /\ M.fired = over.fired /\ M.firing = over.firing
        /\ M.running = over.running /\ M.data = over.data /\ M.firingIndex = over.firingIndex
        /\ M.firingLength = over.firingLength /\ M.stack = over.stack /\ M.open = over.open
    BY <2>2, ListSets
  <2>4. L.stack = <<>>
    BY <1>5 DEF Shape
  <2>5. Shape(F, V, M)
    BY <1>0, <1>1, <1>5, <2>3, <2>4 DEF Shape
  <2> QED
    BY <1>0, <1>1, <1>5, <2>3, <2>5 DEF Ends, Stays, l
<1>6. CASE ~L.disabled /\ ~L.open /\ L.memory = Nothing
  <2>1. M = disable(over)
    BY <1>2, <1>6
  <2>2. L.stack = <<>>
    BY <1>6 DEF Shape
  <2>3. Shape(F, V, over)
    BY <1>0, <1>1, <1>6, <2>2 DEF Shape
  <2>4. Shape(F, V, M) /\ Quiet(over, M) /\ M.list = <<>>
    BY <2>1, <2>3, DisableIs
  <2> QED
    BY <1>0, <1>1, <1>6, <2>4 DEF Ends, Quiet
<1> QED
  BY <1>3, <1>4, <1>5, <1>6

LEMMA NewIs ==
    ASSUME NEW F, NEW V, NEW o \in SUBSET Options, NEW M, M = NewList(o)
    PROVE  /\ Shape(F, V, M) /\ M.options = o /\ M.list = <<>> /\ M.memory = Nothing /\ ~M.fired
           /\ ~M.firing /\ ~M.running /\ ~M.disabled /\ M.stack = <<>>
           /\ ("once" \in o => ~M.open)
<1> DEFINE y == "once" \notin o
<1>1. y \in BOOLEAN /\ (y <=> "once" \notin o)
  OBVIOUS
<1>2. M = [options |-> o, list |-> <<>>, disabled |-> FALSE,
           memory |-> Nothing, fired |-> FALSE, firing |-> FALSE, running |-> FALSE,
           data |-> Nothing, firingIndex |-> 1, firingLength |-> 0,
           stack |-> <<>>, open |-> y]
  BY DEF NewList
<1> HIDE DEF y
<1>3. /\ <<>> \in Seq(F) /\ <<>> \in Seq(V) /\ FALSE \in BOOLEAN /\ 1 \in Nat /\ 0 \in Nat
      /\ Nothing \in V \cup {Nothing}
  OBVIOUS
<1>4. /\ M \in CallbackLists(F, V) /\ M.options = o /\ M.list = <<>> /\ M.memory = Nothing
      /\ ~M.fired /\ ~M.firing /\ ~M.running /\ M.stack = <<>> /\ M.open = y /\ ~M.disabled
  BY <1>1, <1>2, <1>3 DEF CallbackLists
<1> QED
  BY <1>1, <1>4 DEF Shape

(* The fires of a list come one after the other *)

\* n fires were asked for, last is the one that called last: what the list remembers, what it
\* fires and what waits are later ones, in this order.
OneAfterOther(L, n, last) ==
    /\ n \in Nat /\ last \in Nat /\ last <= n
    /\ L.memory # Nothing => last <= L.memory /\ L.memory <= n
    /\ L.firing => last <= L.data /\ L.data <= n /\ (L.memory # Nothing => L.memory = L.data)
    /\ \A i \in DOMAIN L.stack : L.data < L.stack[i] /\ L.stack[i] <= n
    /\ \A i, j \in DOMAIN L.stack : i < j => L.stack[i] < L.stack[j]

\* A list that is to be fired once has one fire that calls.
OnlyOnce(L, last) ==
    "once" \in L.options =>
      /\ ~L.open
      /\ last # 0 => /\ L.fired
                     /\ L.memory # Nothing => L.memory = last
                     /\ L.firing => L.data = last

LEMMA ChangedInTurn ==
    ASSUME NEW F, NEW L, NEW M, Shape(F, Nat, L), Shape(F, Nat, M), Quiet(L, M) \/ Repeats(L, M),
           NEW n, NEW last, OneAfterOther(L, n, last), OnlyOnce(L, last)
    PROVE  OneAfterOther(M, n, last) /\ OnlyOnce(M, last)
<1>1. L \in CallbackLists(F, Nat) /\ L.stack \in Seq(Nat) /\ (L.stack # <<>> => L.firing)
  <2>1. L \in CallbackLists(F, Nat)
    BY DEF Shape
  <2> QED
    BY <2>1, FieldsOf DEF Shape
<1>2. CASE Quiet(L, M)
  <2>1. OneAfterOther(M, n, last)
    <3>1. M.stack = L.stack \/ DOMAIN M.stack = {}
      BY <1>2 DEF Quiet
    <3> QED
      BY <1>2, <3>1 DEF Quiet, OneAfterOther
  <2>2. OnlyOnce(M, last)
    BY <1>2 DEF Quiet, OnlyOnce
  <2> QED
    BY <2>1, <2>2
<1>3. CASE Repeats(L, M)
  <2>1. DOMAIN M.stack = {}
    BY <1>1, <1>3 DEF Repeats
  <2>2. OneAfterOther(M, n, last)
    BY <1>3, <2>1 DEF Repeats, OneAfterOther
  <2>3. OnlyOnce(M, last)
    BY <1>3 DEF Repeats, OnlyOnce
  <2> QED
    BY <2>2, <2>3
<1> QED
  BY <1>2, <1>3

LEMMA FiredInTurn ==
    ASSUME NEW F, NEW L, NEW M, Shape(F, Nat, L), NEW n, NEW last,
           OneAfterOther(L, n, last), OnlyOnce(L, last), M = fireWith(L, n + 1)
    PROVE  OneAfterOther(M, n + 1, last) /\ OnlyOnce(M, last)
<1> DEFINE v == n + 1
<1>1. /\ v \in Nat /\ n \in Nat /\ last \in Nat /\ n < v /\ last <= n
  BY DEF OneAfterOther
<1>2. L \in CallbackLists(F, Nat)
  BY DEF Shape
<1>3. /\ L.stack \in Seq(Nat) /\ (L.stack # <<>> => L.firing)
      /\ L.memory \in Nat \cup {Nothing} /\ (L.firing => L.data \in Nat)
  BY <1>2, FieldsOf DEF Shape
<1>4. \/ M = L
      \/ Queues(L, M, v)
      \/ ~L.firing /\ (L.fired => L.open) /\ Starts(L, M, v) /\ M.stack = L.stack
  BY <1>1, FireWithIs
<1>5. \A i \in DOMAIN L.stack : L.stack[i] \in Nat
  BY <1>3
<1> HIDE DEF v
<1>6. CASE M = L
  <2>1. OneAfterOther(M, v, last)
    BY <1>1, <1>3, <1>5, <1>6 DEF OneAfterOther
  <2> QED
    BY <1>6, <2>1 DEF v
<1>7. CASE Queues(L, M, v)
  <2>1. /\ M.stack = Append(L.stack, v) /\ L.firing /\ M.firing /\ M.data = L.data
        /\ M.memory = L.memory /\ M.options = L.options /\ M.open = L.open /\ M.fired = L.fired
    BY <1>7 DEF Queues
  <2>2. /\ \A i \in DOMAIN M.stack : \/ i \in DOMAIN L.stack /\ M.stack[i] = L.stack[i]
                                     \/ i = Len(L.stack) + 1 /\ M.stack[i] = v
        /\ \A i \in DOMAIN L.stack : i \in 1..Len(L.stack)
        /\ \A i \in DOMAIN M.stack : i \in Nat
        /\ Len(L.stack) \in Nat
    <3> DEFINE s == L.stack
               a == Append(s, v)
    <3>1. s \in Seq(Nat) /\ v \in Nat
      BY <1>1, <1>3
    <3> HIDE DEF s
    <3>2. /\ Len(s) \in Nat /\ DOMAIN s = 1..Len(s) /\ DOMAIN a = 1..(Len(s) + 1)
          /\ a[Len(s) + 1] = v /\ \A i \in 1..Len(s) : a[i] = s[i]
      BY <3>1
    <3>3. \A i \in 1..(Len(s) + 1) : i = Len(s) + 1 \/ i \in 1..Len(s)
      BY <3>2
    <3>4. M.stack = a
      BY <2>1 DEF s
    <3> HIDE DEF a
    <3>5. ASSUME NEW i \in DOMAIN a
          PROVE  (i \in DOMAIN s /\ a[i] = s[i]) \/ (i = Len(s) + 1 /\ a[i] = v)
      <4>1. i = Len(s) + 1 \/ i \in 1..Len(s)
        BY <3>2, <3>3
      <4>2. CASE i = Len(s) + 1
        BY <3>2, <4>2
      <4>3. CASE i \in 1..Len(s)
        BY <3>2, <4>3
      <4> QED
        BY <4>1, <4>2, <4>3
    <3>6. (\A i \in DOMAIN s : i \in 1..Len(s)) /\ \A i \in DOMAIN a : i \in Nat
      BY <3>2
    <3> QED
      BY <3>2, <3>4, <3>5, <3>6 DEF s
  <2>3. \A i \in DOMAIN M.stack : M.data < M.stack[i] /\ M.stack[i] <= v
    <3> SUFFICES ASSUME NEW i \in DOMAIN M.stack PROVE M.data < M.stack[i] /\ M.stack[i] <= v
      OBVIOUS
    <3>1. L.data \in Nat /\ L.data <= n
      BY <1>3, <2>1 DEF OneAfterOther
    <3>2. CASE i = Len(L.stack) + 1 /\ M.stack[i] = v
      BY <1>1, <2>1, <3>1, <3>2
    <3>3. CASE i \in DOMAIN L.stack /\ M.stack[i] = L.stack[i]
      <4>1. L.data < L.stack[i] /\ L.stack[i] <= n /\ L.stack[i] \in Nat
        BY <1>5, <3>3 DEF OneAfterOther
      <4> QED
        BY <1>1, <2>1, <3>1, <3>3, <4>1
    <3> QED
      BY <2>2, <3>2, <3>3
  <2>4. \A i, j \in DOMAIN M.stack : i < j => M.stack[i] < M.stack[j]
    <3> SUFFICES ASSUME NEW i \in DOMAIN M.stack, NEW j \in DOMAIN M.stack, i < j
                 PROVE  M.stack[i] < M.stack[j]
      OBVIOUS
    <3>1. i \in DOMAIN L.stack /\ M.stack[i] = L.stack[i]
      BY <2>2
    <3>2. CASE j = Len(L.stack) + 1 /\ M.stack[j] = v
      BY <1>1, <1>5, <3>1, <3>2 DEF OneAfterOther
    <3>3. CASE j \in DOMAIN L.stack /\ M.stack[j] = L.stack[j]
      BY <3>1, <3>3 DEF OneAfterOther
    <3> QED
      BY <2>2, <3>2, <3>3
  <2>5. OneAfterOther(M, v, last)
    BY <1>1, <1>3, <2>1, <2>3, <2>4 DEF OneAfterOther
  <2>6. OnlyOnce(M, last)
    BY <2>1 DEF OnlyOnce
  <2> QED
    BY <2>5, <2>6 DEF v
<1>8. CASE ~L.firing /\ (L.fired => L.open) /\ Starts(L, M, v) /\ M.stack = L.stack
  <2>1. /\ M.data = v /\ M.memory \in {v, Nothing} /\ DOMAIN M.stack = {}
        /\ M.options = L.options /\ M.open = L.open /\ M.firing
    BY <1>3, <1>8 DEF Starts
  <2>2. OneAfterOther(M, v, last)
    BY <1>1, <2>1 DEF OneAfterOther
  <2>3. OnlyOnce(M, last)
    BY <1>8, <2>1 DEF OnlyOnce
  <2> QED
    BY <2>2, <2>3 DEF v
<1> QED
  BY <1>4, <1>6, <1>7, <1>8

LEMMA FinishedInTurn ==
    ASSUME NEW F, NEW L, NEW M, Shape(F, Nat, L), NEW n, NEW last,
           OneAfterOther(L, n, last), OnlyOnce(L, last), canFinish(L), M = finished(L)
    PROVE  OneAfterOther(M, n, last) /\ OnlyOnce(M, last)
<1>1. L \in CallbackLists(F, Nat) /\ L.firing
  BY DEF Shape, canFinish
<1>2. L.stack \in Seq(Nat) /\ L.data \in Nat /\ n \in Nat /\ last \in Nat
  BY <1>1, FieldsOf DEF Shape, OneAfterOther
<1>3. /\ Shape(F, Nat, M)
      /\ \/ Ends(L, M)
         \/ /\ L.open /\ ~L.disabled /\ L.stack # <<>>
            /\ Starts(L, M, Head(L.stack)) /\ M.stack = Tail(L.stack)
  BY FinishIs
<1>4. CASE Ends(L, M)
  <2>1. DOMAIN M.stack = {}
    BY <1>3, <1>4 DEF Ends, Shape
  <2>2. OneAfterOther(M, n, last)
    BY <1>4, <2>1 DEF Ends, OneAfterOther
  <2>3. OnlyOnce(M, last)
    BY <1>4 DEF Ends, OnlyOnce
  <2> QED
    BY <2>2, <2>3
<1>5. CASE /\ L.open /\ ~L.disabled /\ L.stack # <<>>
           /\ Starts(L, M, Head(L.stack)) /\ M.stack = Tail(L.stack)
  <2> DEFINE v == Head(L.stack)
  <2>1. /\ 1 \in DOMAIN L.stack /\ v = L.stack[1] /\ v \in Nat
        /\ \A i \in DOMAIN M.stack : /\ i + 1 \in DOMAIN L.stack /\ M.stack[i] = L.stack[i + 1]
                                     /\ 1 < i + 1 /\ i \in Nat /\ M.stack[i] \in Nat
    <3> DEFINE s == L.stack
               r == Tail(s)
    <3>1. s \in Seq(Nat) /\ s # <<>> /\ M.stack = r /\ v = Head(s)
      BY <1>2, <1>5
    <3> HIDE DEF s
    <3>2. /\ Len(s) \in Nat \ {0} /\ DOMAIN s = 1..Len(s) /\ Len(r) = Len(s) - 1
          /\ r \in Seq(Nat) /\ \A i \in 1..Len(r) : r[i] = s[i + 1]
      BY <3>1
    <3>3. DOMAIN r = 1..Len(r) /\ \A i \in DOMAIN r : i \in Nat /\ i + 1 \in 1..Len(s) /\ 1 < i + 1
      BY <3>2
    <3>4. 1 \in DOMAIN s /\ v = s[1] /\ v \in Nat
      BY <3>1, <3>2
    <3> HIDE DEF r, v
    <3>5. \A i \in DOMAIN r : r[i] = s[i + 1] /\ r[i] \in Nat
      BY <3>2, <3>3
    <3> QED
      BY <3>1, <3>2, <3>3, <3>4, <3>5 DEF s
  <2>2. M.data = v /\ M.memory \in {v, Nothing} /\ M.options = L.options /\ M.open = L.open
    BY <1>5 DEF Starts
  <2> HIDE DEF v
  <2>3. last <= v /\ v <= n
    BY <1>1, <1>2, <2>1 DEF OneAfterOther
  <2>4. \A i \in DOMAIN M.stack : M.data < M.stack[i] /\ M.stack[i] <= n
    BY <2>1, <2>2 DEF OneAfterOther
  <2>5. \A i, j \in DOMAIN M.stack : i < j => M.stack[i] < M.stack[j]
    <3> SUFFICES ASSUME NEW i \in DOMAIN M.stack, NEW j \in DOMAIN M.stack, i < j
                 PROVE  M.stack[i] < M.stack[j]
      OBVIOUS
    <3>1. i + 1 < j + 1
      BY <2>1
    <3> QED
      BY <2>1, <3>1 DEF OneAfterOther
  <2>6. OneAfterOther(M, n, last)
    BY <1>2, <2>1, <2>2, <2>3, <2>4, <2>5 DEF OneAfterOther
  <2>7. OnlyOnce(M, last)
    BY <1>5, <2>2 DEF OnlyOnce
  <2> QED
    BY <2>6, <2>7
<1> QED
  BY <1>3, <1>4, <1>5

(* Who hears a fire *)

LEMMA TimesNone ==
    ASSUME NEW fn
    PROVE  times(fn, <<>>) = 0
<1>1. {i \in DOMAIN <<>> : <<>>[i] = fn} = {}
  OBVIOUS
<1> QED
  BY <1>1, FS_EmptySet DEF times

LEMMA TimesNat ==
    ASSUME NEW T, NEW h \in Seq(T), NEW fn
    PROVE  IsFiniteSet({i \in DOMAIN h : h[i] = fn}) /\ times(fn, h) \in Nat
<1> DEFINE A == {i \in DOMAIN h : h[i] = fn}
<1>1. IsFiniteSet(1..Len(h)) /\ A \subseteq 1..Len(h)
  BY FS_Interval
<1> HIDE DEF A
<1>2. IsFiniteSet(A)
  BY <1>1, FS_Subset
<1>3. Cardinality(A) \in Nat
  BY <1>2, FS_CardinalityType
<1> QED
  BY <1>2, <1>3 DEF A, times

LEMMA TimesOneMore ==
    ASSUME NEW T, NEW h \in Seq(T), NEW fn, NEW g \in T
    PROVE  times(fn, Append(h, g)) = IF g = fn THEN times(fn, h) + 1 ELSE times(fn, h)
<1> DEFINE a == Append(h, g)
           A == {i \in DOMAIN h : h[i] = fn}
           B == {i \in DOMAIN a : a[i] = fn}
           k == Len(h) + 1
<1>1. /\ DOMAIN h = 1..Len(h) /\ DOMAIN a = 1..k /\ Len(h) \in Nat /\ a[k] = g
      /\ \A i \in 1..Len(h) : a[i] = h[i]
  OBVIOUS
<1>2. IsFiniteSet(A) /\ k \notin A
  <2>1. IsFiniteSet({i \in DOMAIN h : h[i] = fn})
    BY TimesNat
  <2>2. k \notin DOMAIN h
    BY <1>1
  <2> QED
    BY <2>1, <2>2
<1>3. \A i : i \in 1..k <=> i \in 1..Len(h) \/ i = k
  BY <1>1
<1> HIDE DEF a, k
<1>4. B = IF g = fn THEN A \cup {k} ELSE A
  BY <1>1, <1>3
<1>5. times(fn, h) = Cardinality(A) /\ times(fn, a) = Cardinality(B)
  BY DEF times
<1> HIDE DEF A, B
<1>6. Cardinality(A \cup {k}) = Cardinality(A) + 1
  BY <1>2, FS_AddElement
<1> QED
  BY <1>4, <1>5, <1>6 DEF a

isCalled(L, j) == j < L.firingIndex \/ (L.running /\ j = L.firingIndex)

\* fn is in the list, and was called by this fire if its turn has come.
HearsOnce(L, h, fn) ==
    \E j \in DOMAIN L.list : /\ L.list[j] = fn
                             /\ times(fn, h) = IF isCalled(L, j) THEN 1 ELSE 0

NoDuplicates(s) == \A i, j \in DOMAIN s : s[i] = s[j] => i = j

AllHear(L, A, h) ==
    "unique" \in L.options =>
      /\ NoDuplicates(L.list)
      /\ L.firing /\ ~L.disabled => \A fn \in A : HearsOnce(L, h, fn)

LEMMA AudienceHears ==
    ASSUME NEW F, NEW V, NEW L, Shape(F, V, L), ~L.running, L.firingIndex \in Nat \ {0},
           NEW fn \in audience(L), NEW h, h = <<>>
    PROVE  fn \in F /\ HearsOnce(L, h, fn)
<1>1. L \in CallbackLists(F, V)
  BY DEF Shape
<1>2. L.list \in Seq(F)
  BY <1>1, FieldsOf
<1>3. PICK i \in L.firingIndex..Len(L.list) : fn = L.list[i]
  BY DEF audience
<1>4. i \in DOMAIN L.list /\ ~isCalled(L, i)
  BY <1>2, <1>3 DEF isCalled
<1>5. times(fn, h) = 0
  BY TimesNone
<1> QED
  BY <1>2, <1>3, <1>4, <1>5 DEF HearsOnce

LEMMA AppendNoDuplicates ==
    ASSUME NEW T, NEW s \in Seq(T), NEW fn \in T, NoDuplicates(s), \A i \in DOMAIN s : s[i] # fn
    PROVE  NoDuplicates(Append(s, fn))
<1> DEFINE a == Append(s, fn)
<1>1. /\ DOMAIN s = 1..Len(s) /\ DOMAIN a = 1..(Len(s) + 1) /\ Len(s) \in Nat
      /\ a[Len(s) + 1] = fn /\ \A i \in 1..Len(s) : a[i] = s[i]
  OBVIOUS
<1>2. \A i \in 1..(Len(s) + 1) : i = Len(s) + 1 \/ i \in 1..Len(s)
  BY <1>1
<1> HIDE DEF a
<1>3. NoDuplicates(a)
  BY <1>1, <1>2 DEF NoDuplicates
<1> QED
  BY <1>3 DEF a

Without(T, s, fn, l) == s \in Seq(T) /\ NoDuplicates(s) /\ l = others(s, fn)[Len(s)]

LEMMA OthersNoDuplicates ==
    ASSUME NEW T, NEW s, NEW fn, NEW l, Without(T, s, fn, l)
    PROVE  /\ NoDuplicates(l) /\ l \in Seq(T)
           /\ \A k \in DOMAIN l : \E j \in DOMAIN s : /\ s[j] # fn /\ l[k] = s[j]
                                                      /\ k = Place(s, fn, j)
<1>0. s \in Seq(T) /\ NoDuplicates(s) /\ l = others(s, fn)[Len(s)]
  BY DEF Without
<1>1. Len(s) \in 0..Len(s) /\ DOMAIN s = 1..Len(s)
  BY <1>0
<1>2. LeftOfFirst(T, s, fn, Len(s))
  BY <1>0, <1>1, LeftOf
<1>3. l \in Seq(T) /\ DOMAIN l = 1..Place(s, fn, Len(s))
  BY <1>0, <1>2 DEF LeftOfFirst, Place
<1>4. \A k \in DOMAIN l : \E j \in DOMAIN s : s[j] # fn /\ l[k] = s[j] /\ k = Place(s, fn, j)
  BY <1>0, <1>1, <1>2, <1>3 DEF LeftOfFirst
<1>5. NoDuplicates(l)
  BY <1>0, <1>4 DEF NoDuplicates
<1> QED
  BY <1>3, <1>4, <1>5

\* What becomes of those who hear: B and g after M replaced L.
Follows(L, M, A, h, B, g) ==
    IF M.firing /\ ~L.firing THEN B = audience(M) /\ g = <<>>
    ELSE B = A \cap {M.list[i] : i \in DOMAIN M.list} /\ g = h

LEMMA StartedHear ==
    ASSUME NEW F, NEW V, NEW M, Shape(F, V, M), ~M.running, M.firingIndex \in Nat \ {0},
           "unique" \in M.options => NoDuplicates(M.list), NEW B, NEW g, B = audience(M), g = <<>>
    PROVE  AllHear(M, B, g) /\ B \subseteq F /\ g \in Seq(F)
<1>1. \A fn \in B : fn \in F /\ HearsOnce(M, g, fn)
  BY AudienceHears
<1> QED
  BY <1>1 DEF AllHear

LEMMA SameHear ==
    ASSUME NEW L, NEW M, NEW A, NEW h, NEW B, AllHear(L, A, h), B \subseteq A,
           M.options = L.options, M.list = L.list, M.firing = L.firing, M.running = L.running,
           M.firingIndex = L.firingIndex, M.disabled = L.disabled
    PROVE  AllHear(M, B, h)
<1>1. ASSUME "unique" \in M.options, M.firing, ~M.disabled, NEW fn \in B
      PROVE  HearsOnce(M, h, fn)
  <2>1. HearsOnce(L, h, fn)
    BY <1>1 DEF AllHear
  <2> QED
    BY <2>1 DEF HearsOnce, isCalled
<1> QED
  BY <1>1 DEF AllHear

LEMMA AppendedHear ==
    ASSUME NEW F, NEW L, NEW M, NEW A, NEW h, NEW B, AllHear(L, A, h), B \subseteq A,
           L.list \in Seq(F), NEW fn \in F, M.list = Append(L.list, fn),
           "unique" \in L.options => ~has(L, fn),
           M.options = L.options, M.firing = L.firing, M.running = L.running,
           M.firingIndex = L.firingIndex, M.disabled = L.disabled
    PROVE  AllHear(M, B, h)
<1>1. \A i \in DOMAIN L.list : i \in DOMAIN M.list /\ M.list[i] = L.list[i]
  OBVIOUS
<1>2. ASSUME "unique" \in M.options, M.firing, ~M.disabled, NEW f \in B
      PROVE  HearsOnce(M, h, f)
  <2>1. HearsOnce(L, h, f)
    BY <1>2 DEF AllHear
  <2> QED
    BY <1>1, <2>1 DEF HearsOnce, isCalled
<1>3. "unique" \in M.options => NoDuplicates(M.list)
  <2>1. "unique" \in L.options => NoDuplicates(L.list) /\ \A i \in DOMAIN L.list : L.list[i] # fn
    BY DEF AllHear, has
  <2> DEFINE s == L.list
  <2>2. s \in Seq(F) /\ ("unique" \in L.options => NoDuplicates(s) /\ \A i \in DOMAIN s : s[i] # fn)
    BY <2>1
  <2> HIDE DEF s
  <2>3. "unique" \in L.options => NoDuplicates(Append(s, fn))
    BY <2>2, AppendNoDuplicates
  <2> QED
    BY <2>3 DEF s
<1> QED
  BY <1>2, <1>3 DEF AllHear

\* One that leaves moves the turns of the others with their places.
Moved(F, L, M, A, h, B, fn) ==
    /\ AllHear(L, A, h) /\ B \subseteq A /\ B \subseteq {M.list[i] : i \in DOMAIN M.list}
    /\ L.list \in Seq(F) /\ L.firingIndex \in Nat /\ Moves(L, M, fn)
    /\ L.firing => L.running
    /\ M.options = L.options /\ M.firing = L.firing /\ M.running = L.running
    /\ M.disabled = L.disabled

LEMMA MovedHear ==
    ASSUME NEW F, NEW L, NEW M, NEW A, NEW h, NEW B, NEW fn, Moved(F, L, M, A, h, B, fn)
    PROVE  AllHear(M, B, h)
<1>0. /\ AllHear(L, A, h) /\ B \subseteq A /\ B \subseteq {M.list[i] : i \in DOMAIN M.list}
      /\ L.list \in Seq(F) /\ L.firingIndex \in Nat /\ Moves(L, M, fn)
      /\ L.firing => L.running
      /\ M.options = L.options /\ M.firing = L.firing /\ M.running = L.running
      /\ M.disabled = L.disabled
  BY DEF Moved
<1> DEFINE s == L.list
           l == M.list
           i == L.firingIndex
           done == IF i <= Len(s) THEN i ELSE Len(s)
<1>1. s \in Seq(F) /\ l = others(s, fn)[Len(s)] /\ done \in 0..Len(s) /\ done <= i /\ i \in Nat
  BY <1>0 DEF Moves
<1>2. L.firing => M.firingIndex = i - (done - Place(s, fn, done))
  BY <1>0 DEF Moves
<1> SUFFICES ASSUME "unique" \in L.options
             PROVE  /\ NoDuplicates(l)
                    /\ M.firing /\ ~M.disabled => \A f \in B : HearsOnce(M, h, f)
  BY <1>0 DEF AllHear
<1>4. NoDuplicates(s)
  BY <1>0 DEF AllHear
<1> HIDE DEF s, l, done
<1>5. /\ NoDuplicates(l)
      /\ \A k \in DOMAIN l : \E j \in DOMAIN s : /\ s[j] # fn /\ l[k] = s[j]
                                                 /\ k = Place(s, fn, j)
  <2>1. Without(F, s, fn, l)
    BY <1>1, <1>4 DEF Without
  <2> QED
    BY <2>1, OthersNoDuplicates
<1>6. ASSUME M.firing, ~M.disabled, NEW f \in B
      PROVE  HearsOnce(M, h, f)
  <2>1. PICK k \in DOMAIN l : l[k] = f
    BY <1>0 DEF l
  <2>2. PICK j \in DOMAIN s : s[j] # fn /\ l[k] = s[j] /\ k = Place(s, fn, j)
    BY <1>5
  <2>3. PICK j2 \in DOMAIN s : s[j2] = f /\ times(f, h) = IF isCalled(L, j2) THEN 1 ELSE 0
    BY <1>0, <1>6 DEF AllHear, HearsOnce, s
  <2>4. j2 = j
    BY <1>4, <2>1, <2>2, <2>3 DEF NoDuplicates
  <2>5. isCalled(M, k) <=> isCalled(L, j)
    <3>1. /\ j \in 1..Len(s) /\ j \in 0..Len(s) /\ Len(s) \in Nat
          /\ M.running /\ L.running /\ M.firingIndex = i - (done - Place(s, fn, done))
      BY <1>0, <1>1, <1>2, <1>6
    <3>2. (isCalled(M, k) <=> k <= M.firingIndex) /\ (isCalled(L, j) <=> j <= i)
      <4>1. k \in Nat /\ Place(s, fn, done) \in Nat
        BY <1>1, <2>2, <3>1, PlacesGrow
      <4>2. M.firingIndex \in Int
        BY <1>1, <3>1, <4>1
      <4>3. isCalled(M, k) <=> k <= M.firingIndex
        BY <3>1, <4>1, <4>2 DEF isCalled
      <4>4. isCalled(L, j) <=> j <= i
        BY <1>1, <3>1 DEF isCalled
      <4> QED
        BY <4>3, <4>4
    <3>3. CASE i <= Len(s)
      <4>1. done = i /\ M.firingIndex = Place(s, fn, i) /\ i \in 0..Len(s)
        <5>1. done = i /\ i \in 0..Len(s)
          BY <1>1, <3>3 DEF done
        <5>2. Place(s, fn, i) \in Nat
          BY <1>1, <5>1, PlacesGrow
        <5> QED
          BY <1>1, <3>1, <5>1, <5>2
      <4>2. CASE j <= i
        <5>1. Place(s, fn, j) <= Place(s, fn, i)
          BY <1>1, <3>1, <4>1, <4>2, PlacesGrow
        <5> QED
          BY <2>2, <3>2, <4>1, <4>2, <5>1
      <4>3. CASE i < j
        <5>1. /\ Place(s, fn, i) < Place(s, fn, j)
              /\ Place(s, fn, i) \in Nat /\ Place(s, fn, j) \in Nat
          BY <1>1, <2>2, <3>1, <4>1, <4>3, PlacesGrow
        <5> QED
          BY <1>1, <2>2, <3>1, <3>2, <4>1, <4>3, <5>1
      <4> QED
        BY <1>1, <3>1, <4>2, <4>3
    <3>4. CASE Len(s) < i
      <4>1. done = Len(s)
        BY <1>1, <3>1, <3>4 DEF done
      <4>2. Place(s, fn, j) <= Place(s, fn, Len(s)) /\ Place(s, fn, Len(s)) \in Nat
            /\ Place(s, fn, j) \in Nat
        BY <1>1, <3>1, PlacesGrow
      <4> QED
        BY <1>1, <2>2, <3>1, <3>2, <3>4, <4>1, <4>2
    <3> QED
      BY <1>1, <3>1, <3>3, <3>4
  <2>6. times(f, h) = IF isCalled(M, k) THEN 1 ELSE 0
    BY <2>3, <2>4, <2>5
  <2> QED
    BY <2>1, <2>6 DEF HearsOnce, l
<1> QED
  BY <1>5, <1>6

\* A callback that comes next has a place (the one that runs may have lost its own).
HasPlace(L) == L.firing /\ ~L.running => L.firingIndex # 0

Operated(F, L, M, A, h, B, g) ==
    /\ Shape(F, Nat, L) /\ HasPlace(L) /\ (L.firing => L.running)
    /\ AllHear(L, A, h) /\ A \subseteq F /\ h \in Seq(F)
    /\ Follows(L, M, A, h, B, g)

OperatedWell(F, L, M, B, g) ==
    /\ Shape(F, Nat, M) /\ HasPlace(M) /\ M.options = L.options
    /\ AllHear(M, B, g) /\ B \subseteq F /\ g \in Seq(F)

\* The history of an operation that starts no fire.
LEMMA QuietFollows ==
    ASSUME NEW F, NEW L, NEW M, NEW A, NEW h, NEW B, NEW g, Operated(F, L, M, A, h, B, g),
           Quiet(L, M)
    PROVE  /\ HasPlace(M) /\ M.options = L.options /\ B \subseteq A /\ B \subseteq F /\ g = h
           /\ g \in Seq(F) /\ B \subseteq {M.list[i] : i \in DOMAIN M.list}
           /\ M.firing = L.firing /\ M.running = L.running
           /\ L.list \in Seq(F) /\ L.firingIndex \in Nat
<1>1. L \in CallbackLists(F, Nat)
  BY DEF Operated, Shape
<1>2. L.list \in Seq(F) /\ L.firingIndex \in Nat
  BY <1>1, FieldsOf
<1> QED
  BY <1>2 DEF Operated, Quiet, Follows, HasPlace

LEMMA EmptiedHear ==
    ASSUME NEW F, NEW L, NEW M, NEW A, NEW h, NEW B, NEW g, Operated(F, L, M, A, h, B, g),
           Quiet(L, M), Shape(F, Nat, M), M.list = <<>>
    PROVE  OperatedWell(F, L, M, B, g)
<1>1. /\ HasPlace(M) /\ M.options = L.options /\ B \subseteq F /\ g \in Seq(F)
      /\ B \subseteq {M.list[i] : i \in DOMAIN M.list}
  BY QuietFollows
<1>2. DOMAIN M.list = {}
  OBVIOUS
<1>3. AllHear(M, B, g)
  BY <1>1, <1>2 DEF AllHear, NoDuplicates
<1> QED
  BY <1>1, <1>3 DEF OperatedWell

LEMMA AddedHear ==
    ASSUME NEW F, NEW L, NEW M, NEW A, NEW h, NEW B, NEW g, Operated(F, L, M, A, h, B, g),
           NEW fn \in F, M = add(L, fn)
    PROVE  OperatedWell(F, L, M, B, g) /\ (Quiet(L, M) \/ Repeats(L, M))
<1>0. Shape(F, Nat, L)
  BY DEF Operated
<1>1. /\ Shape(F, Nat, M) /\ M.disabled = L.disabled
      /\ Quiet(L, M) \/ Repeats(L, M)
      /\ \/ M.list = L.list
         \/ /\ M.list = Append(L.list, fn)
            /\ "unique" \in L.options => ~has(L, fn)
      /\ Quiet(L, M) => M.firingIndex = L.firingIndex
      /\ Repeats(L, M) => M.firingIndex = Len(L.list) + 1
  BY <1>0, AddIs
<1>2. CASE Quiet(L, M)
  <2>1. /\ HasPlace(M) /\ M.options = L.options /\ B \subseteq A /\ B \subseteq F /\ g = h
        /\ g \in Seq(F) /\ M.firing = L.firing /\ M.running = L.running
        /\ L.list \in Seq(F) /\ L.firingIndex \in Nat
    BY <1>2, QuietFollows
  <2>2. AllHear(L, A, h)
    BY DEF Operated
  <2>3. CASE M.list = L.list
    <3>1. AllHear(M, B, h)
      BY <1>1, <1>2, <2>1, <2>2, <2>3, SameHear
    <3> QED
      BY <1>1, <1>2, <2>1, <3>1 DEF OperatedWell
  <2>4. CASE M.list = Append(L.list, fn) /\ ("unique" \in L.options => ~has(L, fn))
    <3>1. AllHear(M, B, h)
      BY <1>1, <1>2, <2>1, <2>2, <2>4, AppendedHear
    <3> QED
      BY <1>1, <1>2, <2>1, <3>1 DEF OperatedWell
  <2> QED
    BY <1>1, <2>3, <2>4
<1>3. CASE Repeats(L, M)
  <2>1. L \in CallbackLists(F, Nat)
    BY <1>0 DEF Shape
  <2>2. L.list \in Seq(F)
    BY <2>1, FieldsOf
  <2>3. M.firing /\ ~L.firing /\ ~M.running /\ M.options = L.options
    BY <1>3 DEF Repeats
  <2>4. M.firingIndex \in Nat \ {0} /\ B = audience(M) /\ g = <<>>
    BY <1>1, <1>3, <2>2, <2>3 DEF Operated, Follows
  <2>5. "unique" \in M.options => NoDuplicates(M.list)
    <3> SUFFICES ASSUME "unique" \in M.options PROVE NoDuplicates(M.list)
      OBVIOUS
    <3>1. NoDuplicates(L.list)
      BY <2>3 DEF Operated, AllHear
    <3>2. CASE M.list = Append(L.list, fn) /\ ~has(L, fn)
      <4> DEFINE s == L.list
      <4>1. s \in Seq(F) /\ NoDuplicates(s) /\ \A i \in DOMAIN s : s[i] # fn
        BY <2>2, <3>1, <3>2 DEF has
      <4> HIDE DEF s
      <4>2. NoDuplicates(Append(s, fn))
        BY <4>1, AppendNoDuplicates
      <4> QED
        BY <3>2, <4>2 DEF s
    <3> QED
      BY <1>1, <2>3, <3>1, <3>2
  <2>6. AllHear(M, B, g) /\ B \subseteq F /\ g \in Seq(F)
    BY <1>1, <2>3, <2>4, <2>5, StartedHear
  <2> QED
    BY <1>1, <1>3, <2>3, <2>4, <2>6 DEF OperatedWell, HasPlace
<1> QED
  BY <1>1, <1>2, <1>3

LEMMA RemovedHear ==
    ASSUME NEW F, NEW L, NEW M, NEW A, NEW h, NEW B, NEW g, Operated(F, L, M, A, h, B, g),
           NEW fn \in F, M = remove(L, fn)
    PROVE  OperatedWell(F, L, M, B, g) /\ Quiet(L, M)
<1>0. Shape(F, Nat, L) /\ (L.firing => L.running) /\ AllHear(L, A, h)
  BY DEF Operated
<1>1. /\ Shape(F, Nat, M) /\ M.disabled = L.disabled /\ Quiet(L, M)
      /\ ~L.disabled => Moves(L, M, fn)
  BY <1>0, RemoveIs
<1>2. /\ HasPlace(M) /\ M.options = L.options /\ B \subseteq A /\ B \subseteq F /\ g = h
      /\ g \in Seq(F) /\ B \subseteq {M.list[i] : i \in DOMAIN M.list}
      /\ M.firing = L.firing /\ M.running = L.running
      /\ L.list \in Seq(F) /\ L.firingIndex \in Nat
  BY <1>1, QuietFollows
<1>3. AllHear(M, B, h)
  <2>1. CASE L.disabled
    <3>1. M.list = <<>>
      BY <1>1, <2>1 DEF Shape
    <3>2. DOMAIN M.list = {}
      BY <3>1
    <3> QED
      BY <1>2, <3>2 DEF AllHear, NoDuplicates
  <2>2. CASE ~L.disabled
    <3>1. Moved(F, L, M, A, h, B, fn)
      BY <1>0, <1>1, <1>2, <2>2 DEF Moved
    <3> QED
      BY <3>1, MovedHear
  <2> QED
    BY <2>1, <2>2
<1> QED
  BY <1>1, <1>2, <1>3 DEF OperatedWell

LEMMA LockedHear ==
    ASSUME NEW F, NEW L, NEW M, NEW A, NEW h, NEW B, NEW g, Operated(F, L, M, A, h, B, g),
           M = lock(L)
    PROVE  OperatedWell(F, L, M, B, g) /\ Quiet(L, M)
<1>0. Shape(F, Nat, L) /\ AllHear(L, A, h)
  BY DEF Operated
<1>1. /\ Shape(F, Nat, M) /\ Quiet(L, M)
      /\ \/ M.list = <<>>
         \/ M.list = L.list /\ M.firingIndex = L.firingIndex /\ M.disabled = L.disabled
  BY <1>0, LockIs
<1>2. CASE M.list = <<>>
  BY <1>1, <1>2, EmptiedHear
<1>3. CASE M.list = L.list /\ M.firingIndex = L.firingIndex /\ M.disabled = L.disabled
  <2>1. /\ HasPlace(M) /\ M.options = L.options /\ B \subseteq A /\ B \subseteq F /\ g = h
        /\ g \in Seq(F) /\ M.firing = L.firing /\ M.running = L.running
    BY <1>1, QuietFollows
  <2>2. AllHear(M, B, h)
    BY <1>0, <1>3, <2>1, SameHear
  <2> QED
    BY <1>1, <2>1, <2>2 DEF OperatedWell
<1> QED
  BY <1>1, <1>2, <1>3

LEMMA FiredHear ==
    ASSUME NEW F, NEW L, NEW M, NEW A, NEW h, NEW B, NEW g, Operated(F, L, M, A, h, B, g),
           NEW v \in Nat, M = fireWith(L, v)
    PROVE  OperatedWell(F, L, M, B, g)
<1>0. Shape(F, Nat, L) /\ AllHear(L, A, h) /\ A \subseteq F /\ h \in Seq(F) /\ HasPlace(L)
  BY DEF Operated
<1>1. /\ Shape(F, Nat, M)
      /\ \/ M = L
         \/ Queues(L, M, v)
         \/ ~L.firing /\ Starts(L, M, v)
  BY <1>0, FireWithIs
<1>2. CASE M = L \/ Queues(L, M, v)
  <2>1. /\ M.options = L.options /\ M.list = L.list /\ M.disabled = L.disabled
        /\ M.firing = L.firing /\ M.running = L.running /\ M.firingIndex = L.firingIndex
    BY <1>2 DEF Queues
  <2>2. B \subseteq A /\ g = h
    BY <2>1 DEF Operated, Follows
  <2>3. AllHear(M, B, h)
    BY <1>0, <2>1, <2>2, SameHear
  <2> QED
    BY <1>0, <1>1, <2>1, <2>2, <2>3 DEF OperatedWell, HasPlace
<1>3. CASE ~L.firing /\ Starts(L, M, v)
  <2>1. /\ M.options = L.options /\ M.list = L.list /\ M.firing /\ ~M.running
        /\ M.firingIndex = 1
    BY <1>3 DEF Starts
  <2>2. B = audience(M) /\ g = <<>> /\ M.firingIndex \in Nat \ {0}
    BY <1>3, <2>1 DEF Operated, Follows
  <2>3. "unique" \in M.options => NoDuplicates(M.list)
    BY <1>0, <2>1 DEF AllHear
  <2>4. AllHear(M, B, g) /\ B \subseteq F /\ g \in Seq(F)
    BY <1>1, <2>1, <2>2, <2>3, StartedHear
  <2> QED
    BY <1>1, <2>1, <2>2, <2>4 DEF OperatedWell, HasPlace
<1> QED
  BY <1>1, <1>2, <1>3

CallInv ==
    /\ Shape(Fns, Nat, cb) /\ HasPlace(cb) /\ here \subseteq Fns /\ heard \in Seq(Fns)
    /\ OneAfterOther(cb, fires, lastFire) /\ ~mixed
    /\ OnlyOnce(cb, lastFire)
    /\ AllHear(cb, here, heard) /\ ("unique" \in cb.options => ~missed)

LEMMA CallInvInit == CallbackInit => CallInv
<1> SUFFICES ASSUME CallbackInit PROVE CallInv
  OBVIOUS
<1>1. PICK o \in OptionSets : cb = NewList(o)
  BY DEF CallbackInit
<1>2. /\ Shape(Fns, Nat, cb) /\ cb.options = o /\ cb.list = <<>> /\ cb.memory = Nothing
      /\ ~cb.fired /\ ~cb.firing /\ ~cb.running /\ cb.stack = <<>> /\ ("once" \in o => ~cb.open)
  BY <1>1, ListsAssumption, NewIs
<1>3. DOMAIN cb.list = {} /\ DOMAIN cb.stack = {}
  BY <1>2
<1>4. fires = 0 /\ here = {} /\ heard = <<>> /\ lastFire = 0 /\ missed = FALSE /\ mixed = FALSE
  BY DEF CallbackInit
<1>5. OneAfterOther(cb, fires, lastFire) /\ OnlyOnce(cb, lastFire)
  BY <1>2, <1>3, <1>4 DEF OneAfterOther, OnlyOnce
<1>6. AllHear(cb, here, heard) /\ heard \in Seq(Fns)
  BY <1>2, <1>3, <1>4 DEF AllHear, NoDuplicates
<1> QED
  BY <1>2, <1>4, <1>5, <1>6 DEF CallInv, HasPlace

LEMMA CbOperationKeeps ==
    ASSUME CallInv, CbOperation
    PROVE  CallInv'
<1>1. (cb.firing => cb.running) /\ Shape(Fns, Nat, cb)
  BY DEF CbOperation, turn, CallInv
<1>2. Follows(cb, cb', here, heard, here', heard')
  BY DEF CbOperation, follow, startsIn, Follows
<1>3. Operated(Fns, cb, cb', here, heard, here', heard')
  BY <1>1, <1>2 DEF Operated, CallInv
<1>4. OperatedWell(Fns, cb, cb', here', heard') /\ (Quiet(cb, cb') \/ Repeats(cb, cb'))
  <2>1. CASE \E fn \in Fns : cb' = add(cb, fn)
    <3>1. PICK fn \in Fns : cb' = add(cb, fn)
      BY <2>1
    <3> QED
      BY <1>3, <3>1, AddedHear
  <2>2. CASE \E fn \in Fns : cb' = remove(cb, fn)
    <3>1. PICK fn \in Fns : cb' = remove(cb, fn)
      BY <2>2
    <3> QED
      BY <1>3, <3>1, RemovedHear
  <2>3. CASE cb' = empty(cb)
    <3>1. Shape(Fns, Nat, cb') /\ Quiet(cb, cb') /\ cb'.list = <<>>
      BY <1>1, <2>3, EmptyIs
    <3> QED
      BY <1>3, <3>1, EmptiedHear
  <2>4. CASE cb' = disable(cb)
    <3>1. Shape(Fns, Nat, cb') /\ Quiet(cb, cb') /\ cb'.list = <<>>
      BY <1>1, <2>4, DisableIs
    <3> QED
      BY <1>3, <3>1, EmptiedHear
  <2>5. CASE cb' = lock(cb)
    BY <1>3, <2>5, LockedHear
  <2> QED
    BY <2>1, <2>2, <2>3, <2>4, <2>5 DEF CbOperation
<1>5. Shape(Fns, Nat, cb')
  BY <1>4 DEF OperatedWell
<1>6. OneAfterOther(cb', fires, lastFire) /\ OnlyOnce(cb', lastFire)
  BY <1>1, <1>4, <1>5, ChangedInTurn DEF CallInv
<1>7. fires' = fires /\ lastFire' = lastFire /\ missed' = missed /\ mixed' = mixed
  BY DEF CbOperation
<1> QED
  BY <1>4, <1>6, <1>7 DEF CallInv, OperatedWell

LEMMA CbFireKeeps ==
    ASSUME CallInv, CbFire
    PROVE  CallInv'
<1>1. /\ (cb.firing => cb.running) /\ Shape(Fns, Nat, cb)
      /\ OneAfterOther(cb, fires, lastFire) /\ OnlyOnce(cb, lastFire)
      /\ fires \in Nat /\ fires' = fires + 1 /\ cb' = fireWith(cb, fires + 1)
      /\ lastFire' = lastFire /\ missed' = missed /\ mixed' = mixed
  BY DEF CbFire, turn, CallInv, OneAfterOther
<1>2. Follows(cb, cb', here, heard, here', heard')
  BY DEF CbFire, follow, startsIn, Follows
<1>3. Operated(Fns, cb, cb', here, heard, here', heard')
  BY <1>1, <1>2 DEF Operated, CallInv
<1>4. OperatedWell(Fns, cb, cb', here', heard')
  <2> DEFINE v == fires + 1
  <2>1. v \in Nat /\ cb' = fireWith(cb, v)
    BY <1>1
  <2> HIDE DEF v
  <2> QED
    BY <1>3, <2>1, FiredHear
<1>5. OneAfterOther(cb', fires + 1, lastFire) /\ OnlyOnce(cb', lastFire)
  BY <1>1, FiredInTurn
<1> QED
  BY <1>1, <1>4, <1>5 DEF CallInv, OperatedWell

LEMMA CbCallKeeps ==
    ASSUME CallInv, CbCall
    PROVE  CallInv'
<1>1. /\ Shape(Fns, Nat, cb) /\ canCall(cb) /\ cb' = call(cb)
      /\ fires' = fires /\ missed' = missed /\ here' = here /\ lastFire' = cb.data
      /\ mixed' = (mixed \/ cb.data < lastFire)
      /\ heard' = Append(heard, cb.list[cb.firingIndex])
  BY DEF CbCall, CallInv
<1>2. /\ Shape(Fns, Nat, cb') /\ cb'.running
      /\ cb'.options = cb.options /\ cb'.list = cb.list /\ cb'.disabled = cb.disabled
      /\ cb'.memory = cb.memory /\ cb'.fired = cb.fired /\ cb'.firing = cb.firing
      /\ cb'.data = cb.data /\ cb'.firingIndex = cb.firingIndex
      /\ cb'.stack = cb.stack /\ cb'.open = cb.open
      /\ cb.firingIndex \in Nat /\ cb.firingIndex <= Len(cb.list)
  <2> DEFINE L == cb
             M == cb'
  <2>1. Shape(Fns, Nat, L) /\ canCall(L) /\ M = call(L)
    BY <1>1
  <2> HIDE DEF L, M
  <2>2. /\ Shape(Fns, Nat, M) /\ M.running
        /\ M.options = L.options /\ M.list = L.list /\ M.disabled = L.disabled
        /\ M.memory = L.memory /\ M.fired = L.fired /\ M.firing = L.firing
        /\ M.data = L.data /\ M.firingIndex = L.firingIndex
        /\ M.stack = L.stack /\ M.open = L.open
        /\ L.firingIndex \in Nat /\ L.firingIndex <= Len(L.list)
    BY <2>1, CallIs
  <2> QED
    BY <2>2 DEF L, M
<1>3. cb \in CallbackLists(Fns, Nat) /\ cb.firing /\ ~cb.running /\ ~cb.disabled
  BY <1>1 DEF Shape, canCall
<1>4. /\ cb.data \in Nat /\ cb.fired /\ cb.list \in Seq(Fns) /\ cb.firingIndex # 0
      /\ lastFire \in Nat /\ fires \in Nat /\ lastFire <= cb.data /\ cb.data <= fires
  BY <1>1, <1>3, FieldsOf DEF Shape, CallInv, HasPlace, OneAfterOther
<1> DEFINE i == cb.firingIndex
           g == cb.list[i]
<1>5. i \in DOMAIN cb.list /\ g \in Fns /\ i \in Nat
  BY <1>2, <1>4
<1>6. heard \in Seq(Fns) /\ heard' = Append(heard, g) /\ heard' \in Seq(Fns)
  <2>1. heard \in Seq(Fns) /\ heard' = Append(heard, g)
    BY <1>1 DEF CallInv
  <2> HIDE DEF g
  <2> QED
    BY <1>5, <2>1
<1>7. ~mixed'
  <2>1. ~(cb.data < lastFire) /\ ~mixed
    BY <1>4 DEF CallInv
  <2> QED
    BY <1>1, <2>1
<1>8. OneAfterOther(cb', fires, cb.data)
  BY <1>2, <1>3, <1>4 DEF CallInv, OneAfterOther
<1>9. OnlyOnce(cb', cb.data)
  BY <1>2, <1>3, <1>4 DEF CallInv, OneAfterOther, OnlyOnce
<1>10. AllHear(cb', here, heard')
  <2>1. AllHear(cb, here, heard)
    BY DEF CallInv
  <2>2. ASSUME "unique" \in cb.options, NEW fn \in here
        PROVE  HearsOnce(cb', heard', fn)
    <3>1. NoDuplicates(cb.list) /\ HearsOnce(cb, heard, fn)
      BY <1>3, <2>1, <2>2 DEF AllHear
    <3>2. PICK j \in DOMAIN cb.list : /\ cb.list[j] = fn
                                      /\ times(fn, heard) = IF isCalled(cb, j) THEN 1 ELSE 0
      BY <3>1 DEF HearsOnce
    <3>3. j \in Nat
      BY <1>4, <3>2
    <3>4. times(fn, heard') = IF g = fn THEN times(fn, heard) + 1 ELSE times(fn, heard)
      <4> HIDE DEF g
      <4> QED
        BY <1>5, <1>6, TimesOneMore
    <3>5. g = fn <=> j = i
      BY <1>5, <3>1, <3>2 DEF NoDuplicates
    <3>6. (isCalled(cb, j) <=> j < i) /\ (isCalled(cb', j) <=> j < i \/ j = i)
      BY <1>2, <1>3 DEF isCalled
    <3>7. times(fn, heard') = IF isCalled(cb', j) THEN 1 ELSE 0
      <4> HIDE DEF g, i
      <4>1. CASE j = i
        <5>1. ~(j < i) /\ isCalled(cb', j) /\ g = fn
          BY <1>5, <3>5, <3>6, <4>1
        <5>2. times(fn, heard) = 0
          BY <3>2, <3>6, <5>1
        <5> QED
          BY <3>4, <5>1, <5>2
      <4>2. CASE j # i
        BY <3>2, <3>4, <3>5, <3>6, <4>2
      <4> QED
        BY <4>1, <4>2
    <3> QED
      BY <1>2, <3>2, <3>7 DEF HearsOnce
  <2> QED
    BY <1>2, <2>1, <2>2 DEF AllHear
<1> QED
  BY <1>1, <1>2, <1>6, <1>7, <1>8, <1>9, <1>10 DEF CallInv, HasPlace

LEMMA CbReturnKeeps ==
    ASSUME CallInv, CbReturn
    PROVE  CallInv'
<1>1. PICK result \in BOOLEAN :
        /\ cb' = returned(cb, result)
        /\ here' = IF result = FALSE /\ "stopOnFalse" \in cb.options THEN {} ELSE here
  BY DEF CbReturn
<1>2. /\ Shape(Fns, Nat, cb) /\ cb.running /\ fires' = fires /\ heard' = heard
      /\ lastFire' = lastFire /\ missed' = missed /\ mixed' = mixed
  BY DEF CbReturn, CallInv
<1>3. /\ Shape(Fns, Nat, cb') /\ ~cb'.running
      /\ cb'.options = cb.options /\ cb'.list = cb.list /\ cb'.disabled = cb.disabled
      /\ cb'.fired = cb.fired /\ cb'.firing = cb.firing /\ cb'.data = cb.data
      /\ cb'.stack = cb.stack /\ cb'.open = cb.open /\ cb'.memory \in {cb.memory, Nothing}
      /\ ~(result = FALSE /\ "stopOnFalse" \in cb.options) =>
           cb'.firingIndex = cb.firingIndex + 1 /\ cb'.memory = cb.memory
      /\ cb'.firingIndex \in Nat \ {0}
  <2> DEFINE L == cb
             M == cb'
  <2>1. Shape(Fns, Nat, L) /\ L.running /\ M = returned(L, result)
    BY <1>1, <1>2
  <2> HIDE DEF L, M
  <2>2. Shape(Fns, Nat, M) /\ ListReturns(L, M, result = FALSE /\ "stopOnFalse" \in L.options)
    BY <2>1, ReturnIs
  <2> QED
    BY <2>2 DEF L, M, ListReturns
<1>4. OneAfterOther(cb', fires, lastFire)
  BY <1>3 DEF CallInv, OneAfterOther
<1>5. OnlyOnce(cb', lastFire)
  BY <1>3 DEF CallInv, OnlyOnce
<1>6. AllHear(cb', here', heard)
  <2>1. AllHear(cb, here, heard)
    BY DEF CallInv
  <2>2. CASE result = FALSE /\ "stopOnFalse" \in cb.options
    BY <1>1, <1>3, <2>1, <2>2 DEF AllHear
  <2>3. CASE ~(result = FALSE /\ "stopOnFalse" \in cb.options)
    <3>1. cb.list \in Seq(Fns) /\ cb.firingIndex \in Nat
      <4>1. cb \in CallbackLists(Fns, Nat)
        BY <1>2 DEF Shape
      <4> QED
        BY <4>1, FieldsOf
    <3>2. ASSUME NEW j \in DOMAIN cb.list
          PROVE  isCalled(cb', j) <=> isCalled(cb, j)
      BY <1>2, <1>3, <2>3, <3>1 DEF isCalled
    <3>3. ASSUME "unique" \in cb.options, cb.firing, ~cb.disabled, NEW fn \in here
          PROVE  HearsOnce(cb', heard, fn)
      <4>1. HearsOnce(cb, heard, fn)
        BY <2>1, <3>3 DEF AllHear
      <4> QED
        BY <1>3, <3>2, <4>1 DEF HearsOnce
    <3> QED
      BY <1>1, <1>3, <2>1, <2>3, <3>3 DEF AllHear
  <2> QED
    BY <2>2, <2>3
<1> QED
  BY <1>1, <1>2, <1>3, <1>4, <1>5, <1>6 DEF CallInv, HasPlace

LEMMA CbFinishKeeps ==
    ASSUME CallInv, CbFinish
    PROVE  CallInv'
<1>1. /\ Shape(Fns, Nat, cb) /\ canFinish(cb) /\ cb' = finished(cb)
      /\ missed' = (missed \/ (~cb.disabled /\ \E fn \in here : times(fn, heard) # 1))
      /\ here' = (IF cb'.firing THEN audience(cb') ELSE {}) /\ heard' = <<>>
      /\ fires' = fires /\ lastFire' = lastFire /\ mixed' = mixed
  BY DEF CbFinish, CallInv
<1>2. cb \in CallbackLists(Fns, Nat) /\ cb.firing /\ ~cb.running
  BY <1>1 DEF Shape, canFinish
<1>3. /\ Shape(Fns, Nat, cb')
      /\ \/ Ends(cb, cb')
         \/ Starts(cb, cb', Head(cb.stack))
  BY <1>1, FinishIs
<1>4. OneAfterOther(cb', fires, lastFire) /\ OnlyOnce(cb', lastFire)
  BY <1>1, FinishedInTurn DEF CallInv
<1>5. "unique" \in cb.options => ~missed'
  <2> SUFFICES ASSUME "unique" \in cb.options, ~cb.disabled, NEW fn \in here
               PROVE  times(fn, heard) = 1
    BY <1>1 DEF CallInv
  <2>1. HearsOnce(cb, heard, fn)
    BY <1>2 DEF CallInv, AllHear
  <2>2. PICK j \in DOMAIN cb.list : times(fn, heard) = IF isCalled(cb, j) THEN 1 ELSE 0
    BY <2>1 DEF HearsOnce
  <2>3. /\ cb.list \in Seq(Fns) /\ cb.firingIndex \in Nat
        /\ cb.firingIndex > cb.firingLength /\ cb.firingLength = Len(cb.list)
    BY <1>1, <1>2, FieldsOf DEF Shape, canFinish
  <2>4. j < cb.firingIndex
    BY <2>3
  <2> QED
    BY <2>2, <2>4 DEF isCalled
<1>6. heard' \in Seq(Fns) /\ cb'.options = cb.options
  BY <1>1, <1>3 DEF Ends, Starts
<1>7. "unique" \in cb.options => NoDuplicates(cb.list)
  BY DEF CallInv, AllHear
<1>8. AllHear(cb', here', heard') /\ here' \subseteq Fns /\ HasPlace(cb')
  <2>1. CASE Ends(cb, cb')
    <3>1. here' = {} /\ ~cb'.firing
      BY <1>1, <2>1 DEF Ends
    <3>2. "unique" \in cb'.options => NoDuplicates(cb'.list)
      <4>1. CASE cb'.list = cb.list
        BY <1>6, <1>7, <4>1
      <4>2. CASE cb'.list = <<>>
        <5>1. DOMAIN cb'.list = {}
          BY <4>2
        <5> QED
          BY <5>1 DEF NoDuplicates
      <4> QED
        BY <2>1, <4>1, <4>2 DEF Ends
    <3> QED
      BY <3>1, <3>2 DEF AllHear, HasPlace
  <2>2. CASE Starts(cb, cb', Head(cb.stack))
    <3>1. /\ cb'.list = cb.list /\ cb'.firing /\ ~cb'.running /\ cb'.firingIndex = 1
          /\ here' = audience(cb')
      BY <1>1, <2>2 DEF Starts
    <3>2. cb'.firingIndex \in Nat \ {0} /\ ("unique" \in cb'.options => NoDuplicates(cb'.list))
      BY <1>6, <1>7, <3>1
    <3>3. AllHear(cb', here', heard') /\ here' \subseteq Fns
      BY <1>1, <1>3, <3>1, <3>2, StartedHear
    <3> QED
      BY <3>2, <3>3 DEF HasPlace
  <2> QED
    BY <1>3, <2>1, <2>2
<1> QED
  BY <1>1, <1>3, <1>4, <1>5, <1>6, <1>8 DEF CallInv

LEMMA CallInvStep == CallInv /\ [CallbackNext]_cbVars => CallInv'
<1> SUFFICES ASSUME CallInv, [CallbackNext]_cbVars PROVE CallInv'
  OBVIOUS
<1>1. CASE CbOperation
  BY <1>1, CbOperationKeeps
<1>2. CASE CbFire
  BY <1>2, CbFireKeeps
<1>3. CASE CbCall
  BY <1>3, CbCallKeeps
<1>4. CASE CbReturn
  BY <1>4, CbReturnKeeps
<1>5. CASE CbFinish
  BY <1>5, CbFinishKeeps
<1>6. CASE UNCHANGED cbVars
  BY <1>6 DEF CallInv, cbVars, fireVars
<1> QED
  BY <1>1, <1>2, <1>3, <1>4, <1>5, <1>6 DEF CallbackNext

\* Whatever a list is for and whatever its callbacks do to it: in one without duplicates each
\* callback that stays is called once by each fire, the fires come one after the other, and a
\* list that is to be fired once calls with one fire (jQuery.Callbacks()).
THEOREM EveryoneInTurnHolds == CallbackSpec => EveryoneInTurn
<1>1. CallInv => CallbackTypeOK /\ EveryoneHears /\ FiresInTurn
  <2> SUFFICES ASSUME CallInv PROVE CallbackTypeOK /\ EveryoneHears /\ FiresInTurn
    OBVIOUS
  <2>1. cb \in CallbackLists(Fns, Nat)
    BY DEF CallInv, Shape
  <2>2. cb.firingLength \in Nat
    BY <2>1, FieldsOf
  <2> QED
    BY <2>1, <2>2 DEF CallInv, Shape, OneAfterOther, CallbackTypeOK, EveryoneHears, FiresInTurn
<1>2. CallInv /\ [CallbackNext]_cbVars =>
        [("once" \in cb.options /\ lastFire # 0) => lastFire' = lastFire]_cbVars
  <2> SUFFICES ASSUME CallInv, [CallbackNext]_cbVars, "once" \in cb.options, lastFire # 0
               PROVE  lastFire' = lastFire
    OBVIOUS
  <2>1. CASE CbCall
    <3>1. lastFire' = cb.data /\ cb.firing
      BY <2>1 DEF CbCall, canCall
    <3> QED
      BY <3>1 DEF CallInv, OnlyOnce
  <2>2. CASE CbOperation \/ CbFire \/ CbReturn \/ CbFinish \/ UNCHANGED cbVars
    BY <2>2 DEF CbOperation, CbFire, CbReturn, CbFinish, cbVars, fireVars
  <2> QED
    BY <2>1, <2>2 DEF CallbackNext
<1>3. CallbackSpec => []CallInv
  BY CallInvInit, CallInvStep, PTL DEF CallbackSpec
<1> QED
  BY <1>1, <1>2, <1>3, PTL DEF CallbackSpec, EveryoneInTurn, OnceIsOnce
----------------------------------------------------------------------------
(* Deferreds *)

AllFns == Handlers \cup {"state", "disable", "lock"}
Own == <<"state", "disable", "lock">>

\* What holds of each of the three lists of a deferred: it remembers its latest fire.
Well(L) ==
    /\ Shape(AllFns, Values, L)
    /\ "memory" \in L.options /\ "unique" \notin L.options /\ "stopOnFalse" \notin L.options
    /\ L.firing => L.firingIndex # 0
    /\ L.disabled => ~L.firing
    /\ ~L.disabled => (L.fired <=> L.memory # Nothing)
    /\ L.memory # Nothing => L.memory = L.data

\* What the list of one of the two ends may be, for what was added and who heard.
OwnList(L, a) ==
    /\ Len(L.list) = Len(a) + 3
    /\ \A i \in 1..3 : L.list[i] = Own[i]
    /\ \A i \in DOMAIN a : L.list[i + 3] = a[i]

Fresh(L, a, h) == ~L.fired /\ ~L.disabled /\ OwnList(L, a) /\ h = <<>>

ShutOff(L, h) == L.disabled /\ h = <<>>

\* The place of the next handler that is called.
NextOf(L) == L.firingIndex + (IF L.running THEN 1 ELSE 0)

Telling(L, a, h) ==
    /\ L.firing /\ ~L.disabled
    /\ NextOf(L) <= Len(L.list) + 1
    /\ Len(h) + (Len(L.list) + 1 - NextOf(L)) = Len(a)
    /\ \A i \in DOMAIN L.list :
         i >= NextOf(L) => L.list[i] = a[Len(h) + 1 + (i - NextOf(L))]

Rested(L, a, h) == L.fired /\ ~L.firing /\ ~L.disabled /\ L.list = <<>> /\ Len(h) = Len(a)

Heard(a, h, v) == \A i \in DOMAIN h : h[i] = <<a[i], v>>

\* Nothing new comes.
Locked(L) == L.disabled \/ (L.fired /\ ~L.open)

\* The phases of a deferred: it is pending, its own callbacks run, and it is settled.
Unsettled ==
    /\ state = Nothing /\ settledWith = Nothing
    /\ \A t \in Finals : Fresh(lists[t], added[t], heardBy[t])

Settling(u) ==
    /\ lists[u].firing /\ ~lists[u].running /\ ~lists[u].disabled
    /\ OwnList(lists[u], added[u]) /\ heardBy[u] = <<>> /\ settledWith = lists[u].data
    /\ lists[u].firingIndex \in 1..3 /\ active # <<>> /\ inner = u
    /\ state = IF lists[u].firingIndex = 1 THEN Nothing ELSE u
    /\ IF lists[u].firingIndex = 3 THEN ShutOff(lists[otherOf(u)], heardBy[otherOf(u)])
       ELSE Fresh(lists[otherOf(u)], added[otherOf(u)], heardBy[otherOf(u)])

Settled(u) ==
    /\ state = u /\ settledWith = lists[u].data
    /\ Telling(lists[u], added[u], heardBy[u]) \/ Rested(lists[u], added[u], heardBy[u])
    /\ Heard(added[u], heardBy[u], settledWith)
    /\ ShutOff(lists[otherOf(u)], heardBy[otherOf(u)])
    /\ Locked(lists["progress"])

\* The lists that fire are nested in each other.
Nested ==
    /\ active \in Seq(Tuples)
    /\ \A i, j \in DOMAIN active : active[i] = active[j] => i = j
    /\ \A t \in Tuples : lists[t].firing <=> \E i \in DOMAIN active : active[i] = t

DeferredShape ==
    /\ settles \in Nat
    /\ lists \in [Tuples -> CallbackLists(AllFns, Values)]
    /\ \A t \in Tuples : Well(lists[t])
    /\ \A t \in Finals : ~lists[t].open
    /\ lists["progress"].list \in Seq(Handlers)
    /\ added \in [Tuples -> Seq(Handlers)]
    /\ heardBy \in [Tuples -> Seq(Handlers \X Values)]

DeferredInv ==
    /\ DeferredShape /\ Nested
    /\ Unsettled \/ \E u \in Finals : Settling(u) \/ Settled(u)

LEMMA WellShape ==
    ASSUME NEW L, Well(L)
    PROVE  /\ L \in CallbackLists(AllFns, Values) /\ L.list \in Seq(AllFns) /\ L.stack \in Seq(Values)
           /\ L.disabled \in BOOLEAN /\ L.fired \in BOOLEAN /\ L.firing \in BOOLEAN
           /\ L.running \in BOOLEAN /\ L.open \in BOOLEAN
           /\ L.firingIndex \in Nat /\ L.firingLength \in Nat /\ Len(L.list) \in Nat
           /\ L.firing => L.fired /\ ~L.disabled /\ L.firingLength = Len(L.list) /\ L.data \in Values
           /\ L.running => L.firing
           /\ L.fired /\ ~L.disabled => L.data \in Values
           /\ ~L.open => L.stack = <<>>
<1>1. L \in CallbackLists(AllFns, Values)
  BY DEF Well, Shape
<1>2. /\ L.list \in Seq(AllFns) /\ L.stack \in Seq(Values)
      /\ L.disabled \in BOOLEAN /\ L.fired \in BOOLEAN /\ L.firing \in BOOLEAN
      /\ L.running \in BOOLEAN /\ L.open \in BOOLEAN /\ L.memory \in Values \cup {Nothing}
      /\ L.firingIndex \in Nat /\ L.firingLength \in Nat
  BY <1>1, FieldsOf
<1>3. L.fired /\ ~L.disabled => L.data \in Values
  BY <1>2 DEF Well
<1>4. Len(L.list) \in Nat
  BY <1>2
<1> QED
  BY <1>1, <1>2, <1>3, <1>4 DEF Well, Shape

\* One more handler: it waits for its turn, or it is called at once with what is remembered.
Longer(L, M, fn) ==
    /\ M.open = L.open /\ M.disabled = L.disabled /\ M.fired = L.fired /\ M.data = L.data
    /\ M.running = L.running
    /\ IF L.disabled THEN M = L
       ELSE /\ M.list = Append(L.list, fn)
            /\ M.firing = (L.firing \/ L.fired)
            /\ L.firing => M.firingIndex = L.firingIndex
            /\ L.fired /\ ~L.firing => M.firingIndex = Len(L.list) + 1

LEMMA WellAdd ==
    ASSUME NEW L, Well(L), NEW fn \in AllFns, NEW M, M = add(L, fn)
    PROVE  Well(M) /\ Longer(L, M, fn)
<1>0. Shape(AllFns, Values, L)
  BY DEF Well
<1>1. /\ Shape(AllFns, Values, M) /\ M.disabled = L.disabled
      /\ Quiet(L, M) \/ Repeats(L, M)
      /\ Quiet(L, M) => M.firingIndex = L.firingIndex
      /\ Repeats(L, M) => M.firingIndex = Len(L.list) + 1
      /\ ~L.disabled /\ ~L.firing /\ L.memory # Nothing => Repeats(L, M)
      /\ ~L.disabled /\ "unique" \notin L.options => M.list = Append(L.list, fn)
      /\ "memory" \in L.options => M.memory = L.memory
      /\ L.disabled => M = L
      /\ M.stack = L.stack /\ M.open = L.open
  BY <1>0, AddIs
<1>2. CASE L.disabled
  BY <1>1, <1>2 DEF Longer
<1>3. CASE ~L.disabled /\ Quiet(L, M)
  BY <1>1, <1>3, WellShape DEF Well, Longer, Quiet, Repeats
<1>4. CASE ~L.disabled /\ Repeats(L, M)
  <2>1. Len(L.list) + 1 # 0 /\ L.running = FALSE /\ M.running = FALSE /\ L.fired = TRUE
    <3>1. M \in CallbackLists(AllFns, Values)
      BY <1>1 DEF Shape
    <3>2. M.running \in BOOLEAN
      BY <3>1, FieldsOf
    <3> QED
      BY <1>4, <3>2, WellShape DEF Repeats, Well
  <2>2. M.fired = TRUE /\ M.firing = TRUE /\ L.firing = FALSE
    <3>1. M \in CallbackLists(AllFns, Values)
      BY <1>1 DEF Shape
    <3>2. M.fired \in BOOLEAN /\ M.firing \in BOOLEAN
      BY <3>1, FieldsOf
    <3> QED
      BY <1>4, <3>2, WellShape DEF Repeats
  <2>3. M.options = L.options /\ M.data = L.data /\ M.memory = L.memory
    BY <1>1, <1>4 DEF Repeats, Well
  <2>4. Well(M)
    BY <1>1, <1>4, <2>1, <2>2, <2>3 DEF Well, Repeats
  <2>5. M.list = Append(L.list, fn)
    BY <1>1, <1>4 DEF Well
  <2> QED
    BY <1>1, <1>4, <2>1, <2>2, <2>3, <2>4, <2>5 DEF Longer
<1> QED
  BY <1>1, <1>2, <1>3, <1>4

\* A fire starts, or waits for the one that runs, or is none.
Fired(L, M, v) ==
    /\ M.list = L.list /\ M.open = L.open /\ M.disabled = L.disabled
    /\ L.firing => M.firing
    /\ L.disabled \/ (L.fired /\ ~L.open) => M = L
    /\ ~L.disabled /\ ~L.fired => M.firing /\ ~M.running /\ M.data = v /\ M.firingIndex = 1

LEMMA WellFire ==
    ASSUME NEW L, Well(L), NEW v \in Values, NEW M, M = fireWith(L, v)
    PROVE  Well(M) /\ Fired(L, M, v)
<1>0. Shape(AllFns, Values, L)
  BY DEF Well
<1>1. /\ Shape(AllFns, Values, M)
      /\ \/ M = L
         \/ Queues(L, M, v)
         \/ ~L.firing /\ (L.fired => L.open) /\ Starts(L, M, v) /\ M.stack = L.stack
      /\ L.disabled \/ (L.fired /\ ~L.open) => M = L
      /\ ~L.disabled /\ ~L.fired => Starts(L, M, v)
  BY <1>0, FireWithIs
<1>2. CASE M = L
  BY <1>1, <1>2 DEF Fired, Starts
<1>3. CASE Queues(L, M, v)
  BY <1>1, <1>3 DEF Fired, Starts, Queues, Well
<1>4. CASE ~(M = L) /\ ~L.firing /\ (L.fired => L.open) /\ Starts(L, M, v)
  <2>1. v # Nothing /\ ~L.disabled
    BY <1>1, <1>4, DeferredAssumption
  <2>2. Well(M)
    BY <1>1, <1>4, <2>1 DEF Starts, Well
  <2> QED
    BY <1>1, <1>4, <2>1, <2>2 DEF Fired, Starts
<1> QED
  BY <1>1, <1>2, <1>3, <1>4

\* Only the call differs.
Called(L, M) ==
    /\ M.options = L.options /\ M.list = L.list /\ M.disabled = L.disabled
    /\ M.fired = L.fired /\ M.firing = L.firing /\ M.data = L.data /\ M.open = L.open

LEMMA WellCall ==
    ASSUME NEW L, Well(L), canCall(L), NEW M, M = call(L)
    PROVE  /\ Well(M) /\ Called(L, M) /\ M.running /\ M.firingIndex = L.firingIndex
           /\ L.firing /\ ~L.running /\ ~L.disabled /\ L.firingIndex \in DOMAIN L.list
<1>0. Shape(AllFns, Values, L) /\ canCall(L) /\ M = call(L)
  BY DEF Well
<1>1. /\ Shape(AllFns, Values, M) /\ M.running
      /\ M.options = L.options /\ M.list = L.list /\ M.disabled = L.disabled
      /\ M.memory = L.memory /\ M.fired = L.fired /\ M.firing = L.firing
      /\ M.data = L.data /\ M.firingIndex = L.firingIndex
      /\ M.stack = L.stack /\ M.open = L.open
      /\ L.firingIndex \in Nat /\ L.firingIndex <= Len(L.list)
  BY <1>0, CallIs, SMTT(60)
<1>2. L.firing /\ ~L.running /\ ~L.disabled
  BY DEF canCall
<1>3. L.firingIndex # 0 /\ DOMAIN L.list = 1..Len(L.list)
  <2>1. L.list \in Seq(AllFns)
    BY WellShape
  <2> QED
    BY <1>2, <2>1 DEF Well
<1>4. L.firingIndex \in DOMAIN L.list
  <2>1. Len(L.list) \in Nat
    BY WellShape
  <2> QED
    BY <1>1, <1>3, <2>1
<1> QED
  BY <1>1, <1>2, <1>4 DEF Well, Called

LEMMA WellReturn ==
    ASSUME NEW L, Well(L), NEW M, M = returned(L, TRUE)
    PROVE  Well(M) /\ Called(L, M) /\ ~M.running /\ M.firingIndex = L.firingIndex + 1
<1>0. Shape(AllFns, Values, L) /\ TRUE # FALSE
  BY DEF Well
<1> DEFINE r == TRUE
<1>1. r # FALSE /\ M = returned(L, r)
  OBVIOUS
<1> HIDE DEF r
<1>2. Shape(AllFns, Values, M) /\ ListReturns(L, M, r = FALSE /\ "stopOnFalse" \in L.options)
  BY <1>0, <1>1, ReturnIs
<1> QED
  BY <1>1, <1>2 DEF Well, Called, ListReturns

LEMMA WellFinish ==
    ASSUME NEW L, Well(L), canFinish(L), NEW M, M = finished(L)
    PROVE  /\ Well(M) /\ M.fired = L.fired /\ M.open = L.open /\ ~M.disabled /\ ~M.running
           /\ L.firing /\ ~L.running /\ ~L.disabled /\ L.firingIndex > Len(L.list)
           /\ L.open => M.list = L.list
           /\ ~L.open => ~M.firing /\ M.list = <<>> /\ M.data = L.data
<1>0. Shape(AllFns, Values, L)
  BY DEF Well
<1>1. L.firing /\ ~L.running /\ ~L.disabled
  BY DEF canFinish, Well
<1>2. L.memory # Nothing /\ L.firingLength = Len(L.list) /\ L.fired
  BY <1>1 DEF Well, Shape
<1>3. L.firingIndex > Len(L.list)
  BY <1>1, <1>2 DEF canFinish
<1>4. /\ Shape(AllFns, Values, M)
      /\ \/ Ends(L, M)
         \/ /\ L.open /\ ~L.disabled /\ L.stack # <<>>
            /\ Starts(L, M, Head(L.stack)) /\ M.stack = Tail(L.stack)
      /\ ~L.disabled /\ L.memory # Nothing => Stays(L, M)
  BY <1>0, FinishIs
<1>5. Stays(L, M)
  BY <1>1, <1>2, <1>4
<1>6. CASE Ends(L, M)
  BY <1>1, <1>2, <1>3, <1>4, <1>5, <1>6 DEF Ends, Stays, Well
<1>7. CASE L.open /\ L.stack # <<>> /\ Starts(L, M, Head(L.stack))
  <2>1. Head(L.stack) \in Values
    BY <1>7, WellShape
  <2> DEFINE v == Head(L.stack)
  <2>2. v # Nothing /\ Starts(L, M, v)
    BY <1>7, <2>1, DeferredAssumption
  <2> HIDE DEF v
  <2> QED
    BY <1>1, <1>2, <1>3, <1>4, <1>5, <1>7, <2>2 DEF Starts, Stays, Well
<1> QED
  BY <1>4, <1>6, <1>7

LEMMA WellDisable ==
    ASSUME NEW L, Well(L), ~L.firing, NEW M, M = disable(L)
    PROVE  Well(M) /\ M.disabled /\ ~M.firing /\ ~M.open /\ M.data = L.data /\ M.list = <<>>
<1>0. Shape(AllFns, Values, L)
  BY DEF Well
<1>1. /\ Shape(AllFns, Values, M) /\ Quiet(L, M) /\ M.list = <<>> /\ M.disabled /\ M.memory = Nothing
  BY <1>0, DisableIs
<1> QED
  BY <1>1 DEF Well, Shape, Quiet

LEMMA WellLock ==
    ASSUME NEW L, Well(L), NEW M, M = lock(L)
    PROVE  /\ Well(M) /\ Locked(M) /\ M.firing = L.firing /\ M.data = L.data
           /\ M.list \in {L.list, <<>>}
<1>0. Shape(AllFns, Values, L)
  BY DEF Well
<1>1. /\ Shape(AllFns, Values, M) /\ Quiet(L, M) /\ M.stack = <<>> /\ ~M.open
      /\ \/ M.list = <<>> /\ M.disabled
         \/ /\ M.list = L.list /\ M.firingIndex = L.firingIndex /\ M.disabled = L.disabled
            /\ M.memory = L.memory
      /\ L.memory = Nothing => M.disabled
      /\ L.memory # Nothing => M.memory = L.memory /\ ~M.disabled
  BY <1>0, LockIs
<1>2. CASE L.memory = Nothing
  <2>1. ~L.firing
    BY <1>2 DEF Well, Shape
  <2> QED
    BY <1>1, <1>2, <2>1 DEF Well, Shape, Quiet, Locked
<1>3. CASE L.memory # Nothing
  <2>1. L.fired /\ ~L.disabled
    BY <1>3 DEF Well, Shape
  <2> QED
    BY <1>1, <1>3, <2>1 DEF Well, Shape, Quiet, Locked
<1> QED
  BY <1>2, <1>3

(* The phases of one of the two lists *)

LEMMA NextOfIs ==
    ASSUME NEW L, Well(L)
    PROVE  /\ L.running => NextOf(L) = L.firingIndex + 1
           /\ ~L.running => NextOf(L) = L.firingIndex
           /\ NextOf(L) \in Nat
<1>1. L.firingIndex \in Nat
  BY WellShape
<1>2. CASE L.running
  BY <1>1, <1>2 DEF NextOf
<1>3. CASE ~L.running
  BY <1>1, <1>3 DEF NextOf
<1> QED
  BY <1>2, <1>3

LEMMA FreshLonger ==
    ASSUME NEW L, Well(L), NEW a \in Seq(Handlers), NEW h, Fresh(L, a, h), NEW fn \in Handlers,
           NEW M, Longer(L, M, fn)
    PROVE  Fresh(M, Append(a, fn), h)
<1> DEFINE b == Append(a, fn)
           l == Append(L.list, fn)
<1>1. M.list = l /\ ~M.fired /\ ~M.disabled
  BY DEF Fresh, Longer
<1>2. /\ Len(b) = Len(a) + 1 /\ DOMAIN b = 1..(Len(a) + 1) /\ b[Len(a) + 1] = fn
      /\ \A i \in 1..Len(a) : b[i] = a[i]
      /\ DOMAIN a = 1..Len(a) /\ Len(a) \in Nat
  OBVIOUS
<1>3. L.list \in Seq(AllFns) /\ fn \in AllFns
  BY WellShape DEF AllFns
<1>4. /\ Len(l) = Len(L.list) + 1 /\ l[Len(L.list) + 1] = fn
      /\ \A i \in 1..Len(L.list) : l[i] = L.list[i]
  BY <1>3
<1>5. Len(L.list) = Len(a) + 3
  BY DEF Fresh, OwnList
<1> HIDE DEF b, l
<1>6. \A i \in 1..3 : l[i] = Own[i]
  BY <1>2, <1>4, <1>5 DEF Fresh, OwnList
<1>7. ASSUME NEW i \in DOMAIN b PROVE l[i + 3] = b[i]
  <2>1. CASE i = Len(a) + 1
    BY <1>2, <1>4, <1>5, <2>1
  <2>2. CASE i # Len(a) + 1
    <3>1. i \in 1..Len(a) /\ i + 3 \in 1..Len(L.list)
      BY <1>2, <1>5, <1>7, <2>2
    <3> QED
      BY <1>2, <1>4, <3>1 DEF Fresh, OwnList
  <2> QED
    BY <2>1, <2>2
<1>8. OwnList(M, b)
  BY <1>1, <1>2, <1>4, <1>5, <1>6, <1>7 DEF OwnList
<1> QED
  BY <1>1, <1>8 DEF Fresh, b

LEMMA TellingLonger ==
    ASSUME NEW L, Well(L), NEW a \in Seq(Handlers), NEW T, NEW h \in Seq(T),
           Telling(L, a, h) \/ Rested(L, a, h), NEW fn \in Handlers,
           NEW M, Well(M), Longer(L, M, fn)
    PROVE  Telling(M, Append(a, fn), h)
<1> DEFINE b == Append(a, fn)
           l == Append(L.list, fn)
<1>1. M.list = l /\ M.firing /\ ~M.disabled /\ M.running = L.running
  <2>1. ~L.disabled /\ L.fired
    BY WellShape DEF Telling, Rested
  <2> QED
    BY <2>1 DEF Longer
<1>2. /\ Len(b) = Len(a) + 1 /\ DOMAIN b = 1..(Len(a) + 1) /\ b[Len(a) + 1] = fn
      /\ \A i \in 1..Len(a) : b[i] = a[i]
      /\ DOMAIN a = 1..Len(a) /\ Len(a) \in Nat /\ Len(h) \in Nat
  OBVIOUS
<1>3. L.list \in Seq(AllFns) /\ fn \in AllFns /\ Len(L.list) \in Nat /\ L.firingIndex \in Nat
  BY WellShape DEF AllFns
<1>4. /\ Len(l) = Len(L.list) + 1 /\ l[Len(L.list) + 1] = fn
      /\ \A i \in 1..Len(L.list) : l[i] = L.list[i]
      /\ DOMAIN l = 1..(Len(L.list) + 1) /\ DOMAIN L.list = 1..Len(L.list)
  BY <1>3
<1> HIDE DEF b, l
<1>5. CASE Telling(L, a, h)
  <2>1. NextOf(M) = NextOf(L) /\ NextOf(L) \in Nat
    <3>1. M.firingIndex = L.firingIndex
      BY <1>5 DEF Telling, Longer
    <3> QED
      BY <1>1, <1>3, <3>1 DEF NextOf
  <2>2. /\ NextOf(L) <= Len(L.list) + 1
        /\ Len(h) + (Len(L.list) + 1 - NextOf(L)) = Len(a)
        /\ \A i \in 1..Len(L.list) :
             i >= NextOf(L) => L.list[i] = a[Len(h) + 1 + (i - NextOf(L))]
    BY <1>4, <1>5 DEF Telling
  <2>3. NextOf(M) <= Len(l) + 1 /\ Len(h) + (Len(l) + 1 - NextOf(M)) = Len(b)
    <3> DEFINE n == NextOf(L)
               p == Len(L.list)
               q == Len(a)
               k == Len(h)
    <3>1. /\ n \in Nat /\ p \in Nat /\ q \in Nat /\ k \in Nat
          /\ n <= p + 1 /\ k + (p + 1 - n) = q
      BY <1>2, <1>3, <2>1, <2>2
    <3>2. NextOf(M) = n /\ Len(l) = p + 1 /\ Len(b) = q + 1
      BY <1>2, <1>4, <2>1
    <3> HIDE DEF n, p, q, k
    <3>3. n <= (p + 1) + 1 /\ k + ((p + 1) + 1 - n) = q + 1
      BY <3>1
    <3> QED
      BY <3>2, <3>3 DEF k
  <2>4. ASSUME NEW i \in DOMAIN l, i >= NextOf(M) PROVE l[i] = b[Len(h) + 1 + (i - NextOf(M))]
    <3>1. CASE i = Len(L.list) + 1
      <4>1. Len(h) + 1 + (i - NextOf(M)) = Len(a) + 1
        BY <1>2, <1>3, <2>1, <2>2, <3>1
      <4> QED
        BY <1>2, <1>4, <3>1, <4>1
    <3>2. CASE i # Len(L.list) + 1
      <4>1. i \in 1..Len(L.list)
        BY <1>3, <1>4, <2>4, <3>2
      <4>2. Len(h) + 1 + (i - NextOf(L)) \in 1..Len(a)
        BY <1>2, <1>3, <2>1, <2>2, <2>4, <4>1
      <4>3. L.list[i] = a[Len(h) + 1 + (i - NextOf(L))]
        BY <2>1, <2>2, <2>4, <4>1
      <4> QED
        BY <1>2, <1>4, <2>1, <4>1, <4>2, <4>3
    <3> QED
      BY <3>1, <3>2
  <2> QED
    BY <1>1, <2>3, <2>4 DEF Telling, b
<1>6. CASE Rested(L, a, h)
  <2>1. M.firingIndex = Len(L.list) + 1 /\ L.list = <<>> /\ Len(h) = Len(a) /\ ~L.running
    BY <1>6, WellShape DEF Rested, Longer
  <2>2. Len(L.list) = 0 /\ NextOf(M) = 1
    BY <1>1, <2>1 DEF NextOf
  <2>3. NextOf(M) <= Len(l) + 1 /\ Len(h) + (Len(l) + 1 - NextOf(M)) = Len(b)
    BY <1>2, <1>4, <2>1, <2>2
  <2>4. ASSUME NEW i \in DOMAIN l PROVE l[i] = b[Len(h) + 1 + (i - NextOf(M))]
    <3>1. i = 1
      BY <1>4, <2>2
    <3> QED
      BY <1>2, <1>4, <2>1, <2>2, <3>1
  <2> QED
    BY <1>1, <2>3, <2>4 DEF Telling, b
<1> QED
  BY <1>5, <1>6

LEMMA TellingNext ==
    ASSUME NEW L, Well(L), NEW a \in Seq(Handlers), NEW T, NEW h \in Seq(T), Telling(L, a, h),
           canCall(L)
    PROVE  Len(h) + 1 \in DOMAIN a /\ L.list[L.firingIndex] = a[Len(h) + 1]
<1> DEFINE M == call(L)
<1>0. M = call(L)
  OBVIOUS
<1> HIDE DEF M
<1>1. L.firing /\ ~L.running /\ L.firingIndex \in DOMAIN L.list
  BY <1>0, WellCall
<1>2. /\ L.list \in Seq(AllFns) /\ Len(L.list) \in Nat /\ L.firingIndex \in Nat
      /\ DOMAIN L.list = 1..Len(L.list)
  <2>1. L.list \in Seq(AllFns) /\ Len(L.list) \in Nat /\ L.firingIndex \in Nat
    BY WellShape
  <2> QED
    BY <2>1
<1>3. NextOf(L) = L.firingIndex
  BY <1>1, <1>2 DEF NextOf
<1>4. /\ Len(h) + (Len(L.list) + 1 - L.firingIndex) = Len(a)
      /\ \A i \in DOMAIN L.list :
           i >= L.firingIndex => L.list[i] = a[Len(h) + 1 + (i - L.firingIndex)]
  BY <1>3 DEF Telling
<1>5. Len(h) \in Nat /\ Len(a) \in Nat /\ DOMAIN a = 1..Len(a)
  OBVIOUS
<1>6. L.list[L.firingIndex] = a[Len(h) + 1] /\ Len(h) + 1 \in DOMAIN a
  <2>1. Len(h) + 1 + (L.firingIndex - L.firingIndex) = Len(h) + 1 /\ L.firingIndex >= L.firingIndex
    BY <1>2, <1>5
  <2>2. Len(h) + 1 \in DOMAIN a
    BY <1>1, <1>2, <1>4, <1>5
  <2> QED
    BY <1>1, <1>4, <2>1, <2>2
<1> QED
  BY <1>6

LEMMA TellingCalled ==
    ASSUME NEW L, Well(L), NEW a \in Seq(Handlers), NEW T, NEW h \in Seq(T), Telling(L, a, h),
           canCall(L), NEW x \in T, NEW M, M = call(L)
    PROVE  Telling(M, a, Append(h, x))
<1> DEFINE g == Append(h, x)
<1>1. /\ Called(L, M) /\ M.running /\ M.firingIndex = L.firingIndex
      /\ L.firing /\ ~L.running /\ L.firingIndex \in DOMAIN L.list
  BY WellCall
<1>2. /\ L.list \in Seq(AllFns) /\ Len(L.list) \in Nat /\ L.firingIndex \in Nat
      /\ DOMAIN L.list = 1..Len(L.list)
  <2>1. L.list \in Seq(AllFns) /\ Len(L.list) \in Nat /\ L.firingIndex \in Nat
    BY WellShape
  <2> QED
    BY <2>1
<1>3. NextOf(L) = L.firingIndex /\ NextOf(M) = L.firingIndex + 1
  BY <1>1, <1>2 DEF NextOf
<1>4. /\ Len(h) + (Len(L.list) + 1 - L.firingIndex) = Len(a)
      /\ \A i \in DOMAIN L.list :
           i >= L.firingIndex => L.list[i] = a[Len(h) + 1 + (i - L.firingIndex)]
  BY <1>3 DEF Telling
<1>5. Len(h) \in Nat /\ Len(g) = Len(h) + 1 /\ Len(a) \in Nat /\ DOMAIN a = 1..Len(a)
  OBVIOUS
<1> HIDE DEF g
<1>6. NextOf(M) <= Len(M.list) + 1 /\ Len(g) + (Len(M.list) + 1 - NextOf(M)) = Len(a)
  <2> DEFINE n == L.firingIndex
             p == Len(L.list)
             q == Len(a)
             k == Len(h)
  <2>1. /\ n \in 1..p /\ p \in Nat /\ q \in Nat /\ k \in Nat /\ k + (p + 1 - n) = q
    BY <1>1, <1>2, <1>4, <1>5
  <2>2. NextOf(M) = n + 1 /\ Len(M.list) = p /\ Len(g) = k + 1
    BY <1>1, <1>3, <1>5 DEF Called
  <2> HIDE DEF n, p, q, k
  <2>3. n + 1 <= p + 1 /\ (k + 1) + (p + 1 - (n + 1)) = q
    BY <2>1
  <2> QED
    BY <2>2, <2>3 DEF q
<1>7. ASSUME NEW i \in DOMAIN M.list, i >= NextOf(M)
      PROVE  M.list[i] = a[Len(g) + 1 + (i - NextOf(M))]
  <2>1. i \in DOMAIN L.list /\ i >= L.firingIndex /\ M.list[i] = L.list[i]
    BY <1>1, <1>2, <1>3, <1>7 DEF Called
  <2>2. Len(g) + 1 + (i - NextOf(M)) = Len(h) + 1 + (i - L.firingIndex)
    <3> DEFINE n == L.firingIndex
               k == Len(h)
    <3>1. n \in Nat /\ k \in Nat /\ i \in Nat
      BY <1>2, <1>5, <2>1
    <3>2. NextOf(M) = n + 1 /\ Len(g) = k + 1
      BY <1>3, <1>5
    <3> HIDE DEF n, k
    <3>3. (k + 1) + 1 + (i - (n + 1)) = k + 1 + (i - n)
      BY <3>1
    <3> QED
      BY <3>2, <3>3 DEF n, k
  <2> QED
    BY <1>4, <2>1, <2>2
<1>8. M.firing /\ ~M.disabled
  BY <1>1 DEF Called, Telling
<1> QED
  BY <1>6, <1>7, <1>8 DEF Telling, g

LEMMA TellingReturned ==
    ASSUME NEW L, Well(L), NEW a, NEW h, Telling(L, a, h), L.running,
           NEW M, M = returned(L, TRUE)
    PROVE  Telling(M, a, h)
<1>1. Well(M) /\ Called(L, M) /\ ~M.running /\ M.firingIndex = L.firingIndex + 1
  BY WellReturn
<1>2. NextOf(M) = M.firingIndex
  BY <1>1, NextOfIs
<1>3. NextOf(M) = NextOf(L)
  BY <1>1, <1>2, NextOfIs
<1> QED
  BY <1>1, <1>3 DEF Called, Telling

LEMMA TellingFinished ==
    ASSUME NEW L, Well(L), ~L.open, NEW a \in Seq(Handlers), NEW T, NEW h \in Seq(T),
           Telling(L, a, h), canFinish(L), NEW M, M = finished(L)
    PROVE  Rested(M, a, h)
<1>1. /\ M.fired = L.fired /\ ~M.disabled /\ L.firing /\ ~L.running
      /\ L.firingIndex > Len(L.list) /\ ~M.firing /\ M.list = <<>>
  BY WellFinish
<1>2. L.firingIndex \in Nat /\ Len(L.list) \in Nat /\ L.fired
  BY <1>1, WellShape
<1>3. NextOf(L) = L.firingIndex
  BY <1>1, <1>2 DEF NextOf
<1>4. Len(h) \in Nat /\ Len(a) \in Nat
  OBVIOUS
<1>5. L.firingIndex <= Len(L.list) + 1 /\ Len(h) + (Len(L.list) + 1 - L.firingIndex) = Len(a)
  BY <1>3 DEF Telling
<1>6. Len(h) = Len(a)
  BY <1>1, <1>2, <1>4, <1>5
<1> QED
  BY <1>1, <1>2, <1>6 DEF Rested

\* The last of the deferred's own callbacks has run.
LEMMA OwnReturned ==
    ASSUME NEW L, Well(L), L.firing, ~L.running, NEW a \in Seq(Handlers), OwnList(L, a),
           L.firingIndex = 3, NEW h, h = <<>>, NEW M, M = returned(L, TRUE)
    PROVE  Telling(M, a, h)
<1>1. Well(M) /\ Called(L, M) /\ ~M.running /\ M.firingIndex = 4
  <2>1. Well(M) /\ Called(L, M) /\ ~M.running /\ M.firingIndex = L.firingIndex + 1
    BY WellReturn
  <2>2. 3 + 1 = 4
    OBVIOUS
  <2> QED
    BY <2>1, <2>2
<1>2. L.list \in Seq(AllFns) /\ ~L.disabled
  BY WellShape
<1>3. NextOf(M) = 4 /\ Len(h) = 0 /\ Len(a) \in Nat /\ DOMAIN a = 1..Len(a)
  <2>1. NextOf(M) = M.firingIndex
    BY <1>1, NextOfIs
  <2>2. Len(h) = 0
    OBVIOUS
  <2>3. Len(a) \in Nat /\ DOMAIN a = 1..Len(a)
    OBVIOUS
  <2> QED
    BY <1>1, <2>1, <2>2, <2>3
<1>4. Len(M.list) = Len(a) + 3 /\ DOMAIN M.list = 1..(Len(a) + 3) /\ M.list = L.list
  <2>1. M.list = L.list /\ Len(L.list) = Len(a) + 3
    BY <1>1 DEF Called, OwnList
  <2>2. DOMAIN L.list = 1..Len(L.list)
    BY <1>2
  <2> QED
    BY <2>1, <2>2
<1>5. ASSUME NEW i \in DOMAIN M.list, i >= NextOf(M) PROVE M.list[i] = a[Len(h) + 1 + (i - NextOf(M))]
  <2>1. i - 3 \in DOMAIN a /\ (i - 3) + 3 = i /\ Len(h) + 1 + (i - NextOf(M)) = i - 3
    <3> DEFINE q == Len(a)
    <3>1. q \in Nat /\ i \in 1..(q + 3) /\ i >= 4 /\ DOMAIN a = 1..q
      BY <1>3, <1>4, <1>5
    <3> HIDE DEF q
    <3>2. i - 3 \in 1..q /\ (i - 3) + 3 = i /\ 0 + 1 + (i - 4) = i - 3
      BY <3>1
    <3> QED
      BY <1>3, <3>1, <3>2
  <2> QED
    BY <1>4, <2>1 DEF OwnList
<1>6. NextOf(M) <= Len(M.list) + 1 /\ Len(h) + (Len(M.list) + 1 - NextOf(M)) = Len(a)
  <2> DEFINE q == Len(a)
  <2>1. q \in Nat /\ NextOf(M) = 4 /\ Len(h) = 0 /\ Len(M.list) = q + 3
    BY <1>3, <1>4
  <2> HIDE DEF q
  <2>2. 4 <= (q + 3) + 1 /\ 0 + ((q + 3) + 1 - 4) = q
    BY <2>1
  <2> QED
    BY <2>1, <2>2 DEF q
<1> QED
  BY <1>1, <1>2, <1>5, <1>6 DEF Telling, Called

LEMMA HeardStill ==
    ASSUME NEW a \in Seq(Handlers), NEW T, NEW h \in Seq(T), Len(h) <= Len(a), NEW v,
           Heard(a, h, v), NEW fn
    PROVE  Heard(Append(a, fn), h, v)
<1> SUFFICES ASSUME NEW i \in DOMAIN h PROVE h[i] = <<Append(a, fn)[i], v>>
  BY DEF Heard
<1>1. i \in 1..Len(a)
  OBVIOUS
<1>2. Append(a, fn)[i] = a[i]
  BY <1>1
<1> QED
  BY <1>2 DEF Heard

LEMMA HeardMore ==
    ASSUME NEW a, NEW T, NEW h \in Seq(T), NEW v, Heard(a, h, v),
           NEW x \in T, x = <<a[Len(h) + 1], v>>
    PROVE  Heard(a, Append(h, x), v)
<1> DEFINE g == Append(h, x)
<1>1. /\ DOMAIN g = 1..(Len(h) + 1) /\ g[Len(h) + 1] = x /\ DOMAIN h = 1..Len(h) /\ Len(h) \in Nat
      /\ \A i \in 1..Len(h) : g[i] = h[i]
  OBVIOUS
<1> HIDE DEF g
<1>2. ASSUME NEW i \in DOMAIN g PROVE g[i] = <<a[i], v>>
  <2>1. CASE i = Len(h) + 1
    BY <1>1, <2>1
  <2>2. CASE i # Len(h) + 1
    <3>1. i \in 1..Len(h)
      BY <1>1, <1>2, <2>2
    <3> QED
      BY <1>1, <3>1 DEF Heard
  <2> QED
    BY <2>1, <2>2
<1> QED
  BY <1>2 DEF Heard, g

\* No more have heard than were added.
LEMMA HeardOfAdded ==
    ASSUME NEW L, Well(L), NEW a \in Seq(Handlers), NEW T, NEW h \in Seq(T),
           Telling(L, a, h) \/ Rested(L, a, h)
    PROVE  Len(h) <= Len(a)
<1>1. Len(L.list) \in Nat /\ L.firingIndex \in Nat /\ Len(h) \in Nat /\ Len(a) \in Nat
  BY WellShape
<1>2. NextOf(L) \in Nat
  BY <1>1 DEF NextOf
<1> QED
  BY <1>1, <1>2 DEF Telling, Rested

(* The steps of a deferred *)

LEMMA OtherIs ==
    ASSUME NEW u \in Finals
    PROVE  /\ otherOf(u) \in Finals /\ otherOf(u) # u /\ otherOf(otherOf(u)) = u
           /\ Finals = {u, otherOf(u)} /\ Tuples = {u, otherOf(u), "progress"}
           /\ u # "progress" /\ otherOf(u) # "progress" /\ u \in Tuples /\ u # Nothing
  BY DeferredAssumption DEF otherOf, Finals, Tuples

LEMMA InnerIs ==
    ASSUME Nested, active # <<>>
    PROVE  /\ inner \in Tuples /\ lists[inner].firing
           /\ Len(active) \in Nat \ {0} /\ Len(active) \in DOMAIN active
<1>1. active \in Seq(Tuples)
  BY DEF Nested
<1>2. Len(active) \in Nat \ {0} /\ Len(active) \in DOMAIN active
  BY <1>1
<1>3. inner \in Tuples /\ active[Len(active)] = inner
  BY <1>1, <1>2 DEF inner
<1> QED
  BY <1>2, <1>3 DEF Nested

\* A list that goes on firing stays where it is, one that starts is the innermost.
LEMMA ChangeNests ==
    ASSUME DeferredShape, Nested, NEW t \in Tuples, NEW M, M.firing \in BOOLEAN,
           lists[t].firing => M.firing, change(t, M)
    PROVE  /\ Nested' /\ lists' = [lists EXCEPT ![t] = M]
           /\ M.firing /\ ~lists[t].firing => active' # <<>> /\ inner' = t
<1>1. /\ lists' = [lists EXCEPT ![t] = M]
      /\ active' = IF M.firing /\ ~lists[t].firing THEN Append(active, t) ELSE active
  BY DEF change
<1>2. DOMAIN lists = Tuples /\ active \in Seq(Tuples)
  BY DEF DeferredShape, Nested
<1>3. lists'[t] = M /\ \A s \in Tuples \ {t} : lists'[s] = lists[s]
  BY <1>1, <1>2
<1>4. CASE M.firing /\ ~lists[t].firing
  <2> DEFINE b == Append(active, t)
  <2>1. /\ b \in Seq(Tuples) /\ Len(b) = Len(active) + 1 /\ DOMAIN b = 1..(Len(active) + 1)
        /\ b[Len(active) + 1] = t /\ \A i \in 1..Len(active) : b[i] = active[i]
        /\ DOMAIN active = 1..Len(active) /\ Len(active) \in Nat /\ b # <<>>
    BY <1>2
  <2>2. active' = b
    BY <1>1, <1>4
  <2> HIDE DEF b
  <2>3. \A i \in DOMAIN active : active[i] # t
    BY <1>4 DEF Nested
  <2>4. ASSUME NEW i \in DOMAIN b, NEW j \in DOMAIN b, b[i] = b[j] PROVE i = j
    <3>1. i \in 1..Len(active) \/ i = Len(active) + 1
      BY <2>1
    <3>2. j \in 1..Len(active) \/ j = Len(active) + 1
      BY <2>1
    <3> QED
      BY <2>1, <2>3, <2>4, <3>1, <3>2 DEF Nested
  <2>5. ASSUME NEW s \in Tuples PROVE lists'[s].firing <=> \E i \in DOMAIN b : b[i] = s
    <3>1. CASE s = t
      <4>1. Len(active) + 1 \in DOMAIN b
        BY <2>1
      <4> QED
        BY <1>3, <1>4, <2>1, <3>1, <4>1
    <3>2. CASE s # t
      <4>1. (\E i \in DOMAIN b : b[i] = s) <=> \E i \in DOMAIN active : active[i] = s
        <5>1. ASSUME NEW i \in DOMAIN b, b[i] = s PROVE \E k \in DOMAIN active : active[k] = s
          <6>1. i \in 1..Len(active)
            BY <2>1, <3>2, <5>1
          <6> QED
            BY <2>1, <5>1, <6>1
        <5>2. ASSUME NEW i \in DOMAIN active, active[i] = s PROVE \E k \in DOMAIN b : b[k] = s
          <6>1. i \in DOMAIN b
            BY <2>1
          <6> QED
            BY <2>1, <5>2, <6>1
        <5> QED
          BY <5>1, <5>2
      <4> QED
        BY <1>3, <3>2, <4>1 DEF Nested
    <3> QED
      BY <3>1, <3>2
  <2>6. inner' = t
    BY <2>1, <2>2 DEF inner
  <2> QED
    BY <1>1, <2>1, <2>2, <2>4, <2>5, <2>6 DEF Nested
<1>5. CASE ~(M.firing /\ ~lists[t].firing)
  <2>1. active' = active
    BY <1>1, <1>5
  <2>2. ASSUME NEW s \in Tuples PROVE lists'[s].firing <=> lists[s].firing
    BY <1>3, <1>5
  <2> QED
    BY <1>1, <1>5, <2>1, <2>2 DEF Nested
<1> QED
  BY <1>4, <1>5

\* What the lists are, when one of them changes.
LEMMA ListChanges ==
    ASSUME DeferredShape, NEW t \in Tuples, NEW M, Well(M), t \in Finals => ~M.open,
           t = "progress" => M.list \in Seq(Handlers), lists' = [lists EXCEPT ![t] = M],
           settles' \in Nat, added' \in [Tuples -> Seq(Handlers)],
           heardBy' \in [Tuples -> Seq(Handlers \X Values)]
    PROVE  DeferredShape' /\ lists'[t] = M /\ \A s \in Tuples \ {t} : lists'[s] = lists[s]
<1>1. lists'[t] = M /\ \A s \in Tuples \ {t} : lists'[s] = lists[s]
  BY DEF DeferredShape
<1>2. M \in CallbackLists(AllFns, Values)
  BY WellShape
<1>3. lists' \in [Tuples -> CallbackLists(AllFns, Values)]
  BY <1>2 DEF DeferredShape
<1>4. \A s \in Tuples : Well(lists'[s])
  BY <1>1 DEF DeferredShape
<1>5. (\A s \in Finals : ~lists'[s].open) /\ lists'["progress"].list \in Seq(Handlers)
  BY <1>1 DEF DeferredShape, Finals, Tuples
<1> QED
  BY <1>1, <1>3, <1>4, <1>5 DEF DeferredShape

\* The ends are as they were, and progress locked if it was.
LEMMA ProgressOnly ==
    ASSUME Unsettled \/ \E u \in Finals : Settled(u),
           UNCHANGED <<state, settledWith>>,
           \A s \in Finals : lists'[s] = lists[s] /\ added'[s] = added[s] /\ heardBy'[s] = heardBy[s],
           Locked(lists["progress"]) => Locked(lists'["progress"])
    PROVE  Unsettled' \/ \E u \in Finals : Settled(u)'
<1>1. CASE Unsettled
  BY <1>1 DEF Unsettled
<1>2. ASSUME NEW u \in Finals, Settled(u) PROVE Settled(u)'
  <2>1. otherOf(u) \in Finals /\ otherOf(u)' = otherOf(u)
    BY OtherIs DEF otherOf
  <2> QED
    BY <1>2, <2>1 DEF Settled
<1> QED
  BY <1>1, <1>2

PromiseStep == [P!PromiseNext]_(P!promiseVars)
NewsKept == state # Nothing => lists'["progress"].data = lists["progress"].data

LEMMA PromiseRests ==
    ASSUME UNCHANGED <<state, settledWith>> \/ (state = Nothing /\ state' = Nothing),
           \A s \in Finals : added'[s] = added[s] /\ heardBy'[s] = heardBy[s]
    PROVE  PromiseStep
<1>1. [s \in Finals |-> added[s]]' = [s \in Finals |-> added[s]]
  OBVIOUS
<1>2. [s \in Finals |-> Len(heardBy[s])]' = [s \in Finals |-> Len(heardBy[s])]
  OBVIOUS
<1>3. state' = state /\ (IF state = Nothing THEN Nothing ELSE settledWith)' =
                          (IF state = Nothing THEN Nothing ELSE settledWith)
  OBVIOUS
<1> QED
  BY <1>1, <1>2, <1>3 DEF PromiseStep, P!promiseVars

\* While the deferred's own callbacks run nobody else's code does.
LEMMA OwnTurn ==
    ASSUME NEW u \in Finals, Settling(u)
    PROVE  ~turnOf /\ ~(active # <<>> /\ lists[inner].running)
  BY DEF Settling, turnOf

LEMMA AddKeeps ==
    ASSUME DeferredInv, NEW t \in Tuples, NEW h \in Handlers, Add(t, h)
    PROVE  DeferredInv' /\ PromiseStep /\ NewsKept
<1> DEFINE L == lists[t]
           M == add(L, h)
           b == Append(added[t], h)
<1>0. DeferredShape /\ Nested /\ (Unsettled \/ \E u \in Finals : Settled(u))
  BY OwnTurn DEF DeferredInv, Add
<1>1. /\ added' = [added EXCEPT ![t] = b] /\ change(t, M)
      /\ UNCHANGED <<state, settles, heardBy, settledWith>>
  BY DEF Add
<1>2. Well(L) /\ h \in AllFns /\ added[t] \in Seq(Handlers)
  BY <1>0 DEF DeferredShape, AllFns
<1>3. Well(M) /\ Longer(L, M, h)
  <2> HIDE DEF L
  <2> QED
    BY <1>2, WellAdd
<1>4. b \in Seq(Handlers)
  BY <1>2
<1> HIDE DEF M, b
<1>5. /\ added' \in [Tuples -> Seq(Handlers)] /\ added'[t] = b
      /\ \A s \in Tuples \ {t} : added'[s] = added[s]
      /\ settles' \in Nat /\ heardBy' \in [Tuples -> Seq(Handlers \X Values)]
  BY <1>0, <1>1, <1>4 DEF DeferredShape
<1>6. M.firing \in BOOLEAN /\ (L.firing => M.firing) /\ M.open = L.open /\ M.data = L.data
  <2>1. M.firing \in BOOLEAN /\ L.firing \in BOOLEAN /\ L.fired \in BOOLEAN
    <3> HIDE DEF L
    <3> QED
      BY <1>2, <1>3, WellShape
  <2> HIDE DEF L
  <2>2. CASE L.disabled
    BY <1>3, <2>1, <2>2 DEF Longer
  <2>3. CASE ~L.disabled
    BY <1>3, <2>1, <2>3 DEF Longer
  <2> QED
    BY <2>2, <2>3
<1>7. t \in Finals => ~M.open
  BY <1>0, <1>6 DEF DeferredShape
<1>8. t = "progress" => M.list \in Seq(Handlers)
  <2> SUFFICES ASSUME t = "progress" PROVE M.list \in Seq(Handlers)
    OBVIOUS
  <2>1. L.list \in Seq(Handlers)
    BY <1>0 DEF DeferredShape
  <2>2. Append(L.list, h) \in Seq(Handlers)
    BY <2>1
  <2> HIDE DEF L
  <2> QED
    BY <1>3, <2>1, <2>2 DEF Longer
<1>9. Nested' /\ lists' = [lists EXCEPT ![t] = M]
  BY <1>0, <1>1, <1>6, ChangeNests
<1>10. DeferredShape' /\ lists'[t] = M /\ \A s \in Tuples \ {t} : lists'[s] = lists[s]
  BY <1>0, <1>3, <1>5, <1>7, <1>8, <1>9, ListChanges
<1>11. NewsKept
  <2>1. "progress" \in Tuples
    BY DEF Tuples
  <2> QED
    BY <1>6, <1>10, <2>1 DEF NewsKept
<1>12. CASE t = "progress"
  <2>1. \A s \in Finals : lists'[s] = lists[s] /\ added'[s] = added[s] /\ heardBy'[s] = heardBy[s]
    BY <1>1, <1>5, <1>10, <1>12, OtherIs
  <2>2. Locked(lists["progress"]) => Locked(lists'["progress"])
    <3>1. Locked(L) => Locked(M)
      <4> HIDE DEF L
      <4> QED
        BY <1>3 DEF Longer, Locked
    <3> QED
      BY <1>10, <1>12, <3>1
  <2>3. Unsettled' \/ \E u \in Finals : Settled(u)'
    BY <1>0, <1>1, <2>1, <2>2, ProgressOnly
  <2>4. PromiseStep
    BY <1>1, <2>1, PromiseRests
  <2> QED
    BY <1>9, <1>10, <1>11, <2>3, <2>4 DEF DeferredInv
<1>13. CASE t \in Finals
  <2>1. PromiseStep
    <3>1. [s \in Finals |-> added[s]]' = [[s \in Finals |-> added[s]] EXCEPT ![t] = Append(@, h)]
      <4>1. \A s \in Finals : added'[s] = IF s = t THEN b ELSE added[s]
        BY <1>5, <1>13, OtherIs
      <4>2. [s \in Finals |-> added'[s]] = [s \in Finals |-> IF s = t THEN b ELSE added[s]]
        BY <4>1
      <4>3. [s \in Finals |-> IF s = t THEN b ELSE added[s]] =
              [[s \in Finals |-> added[s]] EXCEPT ![t] = Append(@, h)]
        BY <1>13 DEF b
      <4> QED
        BY <4>2, <4>3
    <3>2. [s \in Finals |-> Len(heardBy[s])]' = [s \in Finals |-> Len(heardBy[s])]
      BY <1>1
    <3>3. state' = state /\ (IF state = Nothing THEN Nothing ELSE settledWith)' =
                              (IF state = Nothing THEN Nothing ELSE settledWith)
      BY <1>1
    <3>4. P!AddHandler(t, h)
      BY <3>1, <3>2, <3>3 DEF P!AddHandler
    <3>5. t \in P!Ways
      BY <1>13 DEF Finals, P!Ways
    <3> QED
      BY <3>4, <3>5 DEF PromiseStep, P!PromiseNext
  <2>2. CASE Unsettled
    <3>1. Fresh(L, added[t], heardBy[t])
      BY <1>13, <2>2 DEF Unsettled
    <3>2. Fresh(M, b, heardBy[t])
      <4> HIDE DEF L
      <4> QED
        BY <1>2, <1>3, <3>1, FreshLonger DEF b
    <3>3. ASSUME NEW s \in Finals PROVE Fresh(lists'[s], added'[s], heardBy'[s])
      <4>1. CASE s = t
        BY <1>1, <1>5, <1>10, <3>2, <4>1
      <4>2. CASE s # t
        BY <1>1, <1>5, <1>10, <2>2, <4>2, OtherIs DEF Unsettled
      <4> QED
        BY <4>1, <4>2
    <3>4. Unsettled'
      BY <1>1, <2>2, <3>3 DEF Unsettled
    <3> QED
      BY <1>9, <1>10, <1>11, <2>1, <3>4 DEF DeferredInv
  <2>3. ASSUME NEW u \in Finals, Settled(u) PROVE Settled(u)'
    <3>1. otherOf(u) \in Finals /\ otherOf(u) # u /\ Finals = {u, otherOf(u)} /\ otherOf(u)' = otherOf(u)
      BY OtherIs DEF otherOf
    <3>2. lists'["progress"] = lists["progress"]
      BY <1>10, <1>13, OtherIs DEF Tuples
    <3>3. CASE t = u
      <4>1. Telling(L, added[t], heardBy[t]) \/ Rested(L, added[t], heardBy[t])
        BY <2>3, <3>3 DEF Settled
      <4>2. heardBy[t] \in Seq(Handlers \X Values)
        BY <1>0 DEF DeferredShape
      <4>3. Telling(M, b, heardBy[t]) /\ Len(heardBy[t]) <= Len(added[t])
        <5> HIDE DEF L
        <5> QED
          BY <1>2, <1>3, <4>1, <4>2, TellingLonger, HeardOfAdded DEF b
      <4>4. Heard(b, heardBy[t], settledWith)
        BY <1>2, <2>3, <3>3, <4>2, <4>3, HeardStill DEF b, Settled
      <4>5. ShutOff(lists'[otherOf(u)], heardBy'[otherOf(u)])
        BY <1>1, <1>10, <2>3, <3>1, <3>3, OtherIs DEF Settled
      <4> QED
        BY <1>1, <1>5, <1>6, <1>10, <2>3, <3>1, <3>2, <3>3, <4>3, <4>4, <4>5 DEF Settled
    <3>4. CASE t # u
      <4>1. t = otherOf(u)
        BY <1>13, <3>1, <3>4
      <4>2. M = L
        <5>1. L.disabled
          BY <2>3, <4>1 DEF Settled, ShutOff
        <5> HIDE DEF L
        <5> QED
          BY <1>3, <5>1 DEF Longer
      <4>3. lists'[u] = lists[u] /\ lists'[otherOf(u)] = lists[otherOf(u)] /\ added'[u] = added[u]
        BY <1>5, <1>10, <3>1, <4>1, <4>2, OtherIs
      <4> QED
        BY <1>1, <2>3, <3>1, <3>2, <4>3 DEF Settled
    <3> QED
      BY <3>3, <3>4
  <2> QED
    BY <1>0, <1>9, <1>10, <1>11, <2>1, <2>2, <2>3 DEF DeferredInv
<1> QED
  BY <1>12, <1>13 DEF Tuples, Finals

LEMMA FireWithKeeps ==
    ASSUME DeferredInv, NEW t \in Tuples, NEW v \in Values, FireWith(t, v)
    PROVE  DeferredInv' /\ PromiseStep /\ NewsKept
<1> DEFINE L == lists[t]
           M == fireWith(L, v)
<1>0. DeferredShape /\ Nested /\ (Unsettled \/ \E u \in Finals : Settled(u))
  BY OwnTurn DEF DeferredInv, FireWith
<1>1. /\ settles' = settles + 1 /\ change(t, M)
      /\ settledWith' = IF t \in Finals /\ settledWith = Nothing THEN v ELSE settledWith
      /\ UNCHANGED <<state, added, heardBy>>
  BY DEF FireWith
<1>2. Well(L) /\ v # Nothing
  BY <1>0, DeferredAssumption DEF DeferredShape
<1>3. Well(M) /\ Fired(L, M, v)
  <2> HIDE DEF L
  <2> QED
    BY <1>2, WellFire
<1> HIDE DEF M
<1>5. /\ added' \in [Tuples -> Seq(Handlers)] /\ settles' \in Nat
      /\ heardBy' \in [Tuples -> Seq(Handlers \X Values)]
  BY <1>0, <1>1 DEF DeferredShape
<1>6. M.firing \in BOOLEAN /\ (L.firing => M.firing) /\ M.open = L.open /\ M.list = L.list
  <2> HIDE DEF L
  <2> QED
    BY <1>3, WellShape DEF Fired
<1>7. t \in Finals => ~M.open
  BY <1>0, <1>6 DEF DeferredShape
<1>8. t = "progress" => M.list \in Seq(Handlers)
  BY <1>0, <1>6 DEF DeferredShape
<1>9. /\ Nested' /\ lists' = [lists EXCEPT ![t] = M]
      /\ M.firing /\ ~lists[t].firing => active' # <<>> /\ inner' = t
  BY <1>0, <1>1, <1>6, ChangeNests
<1>10. DeferredShape' /\ lists'[t] = M /\ \A s \in Tuples \ {t} : lists'[s] = lists[s]
  BY <1>0, <1>3, <1>5, <1>7, <1>8, <1>9, ListChanges
<1>11. Locked(L) => M = L
  <2> HIDE DEF L
  <2> QED
    BY <1>3 DEF Locked, Fired
<1>12. NewsKept
  <2> SUFFICES ASSUME state # Nothing PROVE lists'["progress"].data = lists["progress"].data
    BY DEF NewsKept
  <2>1. Locked(lists["progress"])
    BY <1>0 DEF Unsettled, Settled
  <2> QED
    BY <1>10, <1>11, <2>1 DEF Tuples
<1>13. CASE t = "progress"
  <2>1. \A s \in Finals : lists'[s] = lists[s] /\ added'[s] = added[s] /\ heardBy'[s] = heardBy[s]
    BY <1>1, <1>10, <1>13, OtherIs
  <2>2. Locked(lists["progress"]) => Locked(lists'["progress"])
    BY <1>10, <1>11, <1>13
  <2>3. UNCHANGED <<state, settledWith>>
    BY <1>1, <1>13 DEF Finals
  <2>4. Unsettled' \/ \E u \in Finals : Settled(u)'
    BY <1>0, <2>1, <2>2, <2>3, ProgressOnly
  <2>5. PromiseStep
    BY <2>1, <2>3, PromiseRests
  <2> QED
    BY <1>9, <1>10, <1>12, <2>4, <2>5 DEF DeferredInv
<1>14. CASE t \in Finals /\ Unsettled
  <2>1. Fresh(L, added[t], heardBy[t]) /\ state = Nothing /\ settledWith' = v
    BY <1>1, <1>14 DEF Unsettled
  <2>2. /\ M.firing /\ ~M.running /\ M.data = v /\ M.firingIndex = 1 /\ M.list = L.list
        /\ ~M.disabled /\ ~L.firing
    <3> HIDE DEF L
    <3> QED
      BY <1>2, <1>3, <2>1, WellShape DEF Fired, Fresh
  <2>3. OwnList(M, added[t])
    BY <2>1, <2>2 DEF Fresh, OwnList
  <2>4. otherOf(t) \in Finals /\ otherOf(t) # t /\ otherOf(t)' = otherOf(t)
    BY <1>14, OtherIs DEF otherOf
  <2>5. Fresh(lists'[otherOf(t)], added'[otherOf(t)], heardBy'[otherOf(t)])
    BY <1>1, <1>10, <1>14, <2>4, OtherIs DEF Unsettled
  <2>6. Settling(t)'
    <3>1. active' # <<>> /\ inner' = t
      BY <1>9, <2>2
    <3>2. heardBy'[t] = <<>> /\ added'[t] = added[t]
      BY <1>1, <2>1 DEF Fresh
    <3>3. 1 \in 1..3 /\ 1 # 3
      OBVIOUS
    <3> QED
      BY <1>1, <1>10, <2>1, <2>2, <2>3, <2>4, <2>5, <3>1, <3>2, <3>3 DEF Settling
  <2>7. PromiseStep
    BY <1>1, <2>1, PromiseRests
  <2> QED
    BY <1>9, <1>10, <1>12, <1>14, <2>6, <2>7 DEF DeferredInv
<1>15. ASSUME NEW u \in Finals, Settled(u), t \in Finals
       PROVE  Settled(u)' /\ PromiseStep
  <2>1. M = L
    <3>1. CASE t = u
      <4>1. L.fired /\ ~L.open
        <5>1. Telling(L, added[u], heardBy[u]) \/ Rested(L, added[u], heardBy[u])
          BY <1>15, <3>1 DEF Settled
        <5>2. ~L.open
          BY <1>0, <1>15 DEF DeferredShape
        <5> HIDE DEF L
        <5> QED
          BY <1>2, <5>1, <5>2, WellShape DEF Telling, Rested
      <4> QED
        BY <1>11, <4>1 DEF Locked
    <3>2. CASE t # u
      <4>1. t = otherOf(u)
        BY <1>15, <3>2, OtherIs
      <4>2. L.disabled
        BY <1>15, <4>1 DEF Settled, ShutOff
      <4> QED
        BY <1>11, <4>2 DEF Locked
    <3> QED
      BY <3>1, <3>2
  <2>2. settledWith # Nothing
    <3>1. lists[u].fired /\ ~lists[u].disabled /\ Well(lists[u]) /\ settledWith = lists[u].data
      <4>1. Well(lists[u])
        BY <1>0, <1>15, OtherIs DEF DeferredShape
      <4> QED
        BY <1>15, <4>1, WellShape DEF Settled, Telling, Rested
    <3>2. settledWith \in Values
      BY <3>1, WellShape
    <3> QED
      BY <3>2, DeferredAssumption
  <2>3. UNCHANGED <<state, settledWith>>
    BY <1>1, <2>2
  <2>4. \A s \in Tuples : lists'[s] = lists[s]
    BY <1>10, <2>1
  <2>5. /\ otherOf(u) \in Finals /\ otherOf(u)' = otherOf(u) /\ u \in Tuples /\ otherOf(u) \in Tuples
        /\ "progress" \in Tuples
    BY <1>15, OtherIs DEF otherOf, Tuples
  <2>6. Settled(u)'
    BY <1>1, <1>15, <2>3, <2>4, <2>5 DEF Settled
  <2>7. PromiseStep
    BY <1>1, <2>3, PromiseRests
  <2> QED
    BY <2>6, <2>7
<1> QED
  BY <1>0, <1>9, <1>10, <1>12, <1>13, <1>14, <1>15 DEF DeferredInv, Tuples, Finals

LEMMA NestedStill ==
    ASSUME Nested, active' = active, \A s \in Tuples : lists'[s].firing <=> lists[s].firing
    PROVE  Nested'
  BY DEF Nested

LEMMA DeferredReturnKeeps ==
    ASSUME DeferredInv, DeferredReturn
    PROVE  DeferredInv' /\ PromiseStep /\ NewsKept
<1> DEFINE t == inner
           L == lists[t]
           M == returned(L, TRUE)
<1>0. DeferredShape /\ Nested /\ (Unsettled \/ \E u \in Finals : Settled(u))
  BY OwnTurn DEF DeferredInv, DeferredReturn
<1>1. /\ active # <<>> /\ L.running /\ lists' = [lists EXCEPT ![t] = M]
      /\ UNCHANGED <<state, active, settles, added, heardBy, settledWith>>
  BY DEF DeferredReturn
<1>2. t \in Tuples /\ L.firing
  BY <1>0, <1>1, InnerIs
<1> HIDE DEF t
<1>3. Well(L)
  BY <1>0, <1>2 DEF DeferredShape
<1>4. Well(M) /\ Called(L, M)
  <2> HIDE DEF L
  <2> QED
    BY <1>3, WellReturn
<1> HIDE DEF M
<1>5. /\ added' \in [Tuples -> Seq(Handlers)] /\ settles' \in Nat
      /\ heardBy' \in [Tuples -> Seq(Handlers \X Values)]
  BY <1>0, <1>1 DEF DeferredShape
<1>6. M.firing = L.firing /\ M.open = L.open /\ M.list = L.list /\ M.data = L.data /\ M.fired = L.fired
      /\ M.disabled = L.disabled
  BY <1>4 DEF Called
<1>7. (t \in Finals => ~M.open) /\ (t = "progress" => M.list \in Seq(Handlers))
  BY <1>0, <1>6 DEF DeferredShape
<1>8. DeferredShape' /\ lists'[t] = M /\ \A s \in Tuples \ {t} : lists'[s] = lists[s]
  BY <1>0, <1>1, <1>2, <1>4, <1>5, <1>7, ListChanges
<1>9. Nested'
  <2>1. \A s \in Tuples : lists'[s].firing <=> lists[s].firing
    BY <1>6, <1>8
  <2> QED
    BY <1>0, <1>1, <2>1, NestedStill
<1>10. NewsKept
  BY <1>6, <1>8 DEF NewsKept, Tuples
<1>11. PromiseStep
  BY <1>1, PromiseRests
<1>12. CASE t = "progress"
  <2>1. \A s \in Finals : lists'[s] = lists[s] /\ added'[s] = added[s] /\ heardBy'[s] = heardBy[s]
    BY <1>1, <1>8, <1>12, OtherIs
  <2>2. Locked(lists["progress"]) => Locked(lists'["progress"])
    BY <1>6, <1>8, <1>12 DEF Locked
  <2>3. Unsettled' \/ \E u \in Finals : Settled(u)'
    BY <1>0, <1>1, <2>1, <2>2, ProgressOnly
  <2> QED
    BY <1>8, <1>9, <1>10, <1>11, <2>3 DEF DeferredInv
<1>13. CASE t \in Finals /\ Unsettled
  <2>1. ~L.fired
    BY <1>13 DEF Unsettled, Fresh
  <2> HIDE DEF L
  <2> QED
    BY <1>2, <1>3, <2>1, WellShape
<1>14. ASSUME NEW u \in Finals, Settled(u), t \in Finals PROVE Settled(u)'
  <2>1. /\ otherOf(u) \in Finals /\ otherOf(u)' = otherOf(u) /\ Finals = {u, otherOf(u)}
        /\ otherOf(u) # u /\ t # "progress" /\ otherOf(u) \in Tuples /\ "progress" \in Tuples
    BY <1>14, OtherIs DEF otherOf, Tuples
  <2>2. t = u
    <3> SUFFICES ASSUME t = otherOf(u) PROVE FALSE
      BY <1>14, <2>1
    <3>1. L.disabled
      BY <1>14 DEF Settled, ShutOff
    <3> QED
      BY <1>2, <1>3, <3>1 DEF Well
  <2>3. Telling(L, added[u], heardBy[u])
    BY <1>2, <1>14, <2>2 DEF Settled, Rested
  <2>4. Telling(M, added[u], heardBy[u])
    <3>1. L.running
      BY <1>1
    <3>2. M = returned(L, TRUE)
      BY DEF M
    <3> HIDE DEF L
    <3> QED
      BY <1>3, <2>3, <3>1, <3>2, TellingReturned
  <2>5. lists'[otherOf(u)] = lists[otherOf(u)] /\ lists'["progress"] = lists["progress"]
    BY <1>8, <2>1, <2>2
  <2> QED
    BY <1>1, <1>6, <1>8, <1>14, <2>1, <2>2, <2>4, <2>5 DEF Settled
<1> QED
  BY <1>0, <1>2, <1>8, <1>9, <1>10, <1>11, <1>12, <1>13, <1>14 DEF DeferredInv, Tuples, Finals

\* The innermost list ends its fire, or starts another.
Leaves(M) == lists' = [lists EXCEPT ![inner] = M] /\ active' = left(M)

LEMMA LeaveNests ==
    ASSUME DeferredShape, Nested, active # <<>>, NEW M, M.firing \in BOOLEAN,
           Leaves(M)
    PROVE  Nested'
<1> DEFINE t == inner
           n == Len(active) - 1
           b == SubSeq(active, 1, n)
<1>1. t \in Tuples /\ lists[t].firing /\ Len(active) \in Nat \ {0} /\ Len(active) \in DOMAIN active
  BY InnerIs
<1>2. DOMAIN lists = Tuples /\ active \in Seq(Tuples)
  BY DEF DeferredShape, Nested
<1>3. lists'[t] = M /\ \A s \in Tuples \ {t} : lists'[s] = lists[s]
  BY <1>1, <1>2 DEF Leaves
<1>4. CASE M.firing
  <2>1. active' = active
    BY <1>4 DEF left, Leaves
  <2>2. \A s \in Tuples : lists'[s].firing <=> lists[s].firing
    BY <1>1, <1>3, <1>4
  <2> QED
    BY <2>1, <2>2, NestedStill
<1>5. CASE ~M.firing
  <2>1. active' = b
    BY <1>5 DEF left, Leaves
  <2>2. /\ b \in Seq(Tuples) /\ DOMAIN b = 1..n /\ n \in Nat
        /\ \A i \in 1..n : b[i] = active[i]
        /\ DOMAIN active = 1..(n + 1) /\ active[n + 1] = t
    <3>1. n \in Nat /\ n + 1 = Len(active) /\ n <= Len(active)
      BY <1>1
    <3>2. b \in Seq(Tuples) /\ Len(b) = n /\ \A i \in 1..n : b[i] = active[i]
      BY <1>2, <3>1, SubSeqProperties
    <3>3. DOMAIN b = 1..n /\ DOMAIN active = 1..(n + 1)
      BY <1>2, <3>1, <3>2
    <3> QED
      BY <3>1, <3>2, <3>3 DEF inner
  <2> HIDE DEF b, n
  <2>3. ASSUME NEW i \in DOMAIN b, NEW j \in DOMAIN b, b[i] = b[j] PROVE i = j
    BY <2>2, <2>3 DEF Nested
  <2>4. ASSUME NEW s \in Tuples PROVE lists'[s].firing <=> \E i \in DOMAIN b : b[i] = s
    <3>1. CASE s = t
      <4>1. ASSUME NEW i \in DOMAIN b, b[i] = s PROVE FALSE
        <5>1. i \in DOMAIN active /\ n + 1 \in DOMAIN active /\ active[i] = active[n + 1] /\ i # n + 1
          BY <2>2, <3>1, <4>1
        <5> QED
          BY <5>1 DEF Nested
      <4> QED
        BY <1>3, <1>5, <3>1, <4>1
    <3>2. CASE s # t
      <4>1. ASSUME NEW i \in DOMAIN b, b[i] = s PROVE \E k \in DOMAIN active : active[k] = s
        BY <2>2, <4>1
      <4>2. ASSUME NEW i \in DOMAIN active, active[i] = s PROVE \E k \in DOMAIN b : b[k] = s
        <5>1. i \in 1..n
          BY <2>2, <3>2, <4>2
        <5> QED
          BY <2>2, <4>2, <5>1
      <4> QED
        BY <1>3, <3>2, <4>1, <4>2 DEF Nested
    <3> QED
      BY <3>1, <3>2
  <2> QED
    BY <2>1, <2>2, <2>3, <2>4 DEF Nested
<1> QED
  BY <1>4, <1>5

LEMMA DeferredFinishKeeps ==
    ASSUME DeferredInv, DeferredFinish
    PROVE  DeferredInv' /\ PromiseStep /\ NewsKept
<1> DEFINE t == inner
           L == lists[t]
           M == finished(L)
<1>0. DeferredShape /\ Nested
  BY DEF DeferredInv
<1>1. /\ active # <<>> /\ canFinish(L) /\ lists' = [lists EXCEPT ![t] = M] /\ active' = left(M)
      /\ UNCHANGED <<state, settles, added, heardBy, settledWith>>
  BY DEF DeferredFinish
<1>2. t \in Tuples /\ L.firing
  BY <1>0, <1>1, InnerIs
<1>3. Well(L)
  BY <1>0, <1>2 DEF DeferredShape
<1>4. /\ Well(M) /\ M.fired = L.fired /\ M.open = L.open /\ ~M.disabled
      /\ ~L.disabled /\ L.firingIndex > Len(L.list)
      /\ L.open => M.list = L.list
      /\ ~L.open => ~M.firing /\ M.list = <<>> /\ M.data = L.data
  <2>1. canFinish(L)
    BY <1>1
  <2> HIDE DEF L
  <2> QED
    BY <1>3, <2>1, WellFinish
<1>5. /\ added' \in [Tuples -> Seq(Handlers)] /\ settles' \in Nat
      /\ heardBy' \in [Tuples -> Seq(Handlers \X Values)]
  BY <1>0, <1>1 DEF DeferredShape
<1>6. M.firing \in BOOLEAN
  <2> HIDE DEF M
  <2> QED
    BY <1>4, WellShape
<1>7. Nested'
  <2> DEFINE N == M
  <2>1. /\ DeferredShape /\ Nested /\ active # <<>> /\ N.firing \in BOOLEAN
        /\ Leaves(N)
    BY <1>0, <1>1, <1>6 DEF Leaves
  <2> HIDE DEF N
  <2> QED
    BY <2>1, LeaveNests
<1> HIDE DEF t, M
<1>8. (t \in Finals => ~M.open) /\ (t = "progress" => M.list \in Seq(Handlers))
  <2>1. <<>> \in Seq(Handlers)
    OBVIOUS
  <2>2. t = "progress" => L.list \in Seq(Handlers)
    BY <1>0 DEF DeferredShape
  <2>3. t \in Finals => ~L.open
    BY <1>0 DEF DeferredShape
  <2>4. L.open \in BOOLEAN
    <3> HIDE DEF L
    <3> QED
      BY <1>3, WellShape
  <2> QED
    BY <1>4, <2>1, <2>2, <2>3, <2>4
<1>9. DeferredShape' /\ lists'[t] = M /\ \A s \in Tuples \ {t} : lists'[s] = lists[s]
  BY <1>0, <1>1, <1>2, <1>4, <1>5, <1>8, ListChanges
<1>10. ASSUME NEW u \in Finals, Settling(u) PROVE FALSE
  <2>1. t = u /\ L.firingIndex \in 1..3 /\ OwnList(L, added[u])
    BY <1>10 DEF Settling, t
  <2>2. added[u] \in Seq(Handlers)
    BY <1>0, OtherIs DEF DeferredShape
  <2>3. Len(L.list) = Len(added[u]) + 3 /\ Len(added[u]) \in Nat
    BY <2>1, <2>2 DEF OwnList
  <2> QED
    BY <1>4, <2>1, <2>3
<1>11. Unsettled \/ \E u \in Finals : Settled(u)
  BY <1>10 DEF DeferredInv
<1>12. Locked(L) => Locked(M) /\ M.data = L.data
  <2> HIDE DEF L
  <2> QED
    BY <1>4 DEF Locked
<1>13. NewsKept
  <2> SUFFICES ASSUME state # Nothing PROVE lists'["progress"].data = lists["progress"].data
    BY DEF NewsKept
  <2>1. Locked(lists["progress"])
    BY <1>11 DEF Unsettled, Settled
  <2> QED
    BY <1>9, <1>12, <2>1 DEF Tuples
<1>14. PromiseStep
  BY <1>1, PromiseRests
<1>15. CASE t = "progress"
  <2>1. \A s \in Finals : lists'[s] = lists[s] /\ added'[s] = added[s] /\ heardBy'[s] = heardBy[s]
    BY <1>1, <1>9, <1>15, OtherIs
  <2>2. Locked(lists["progress"]) => Locked(lists'["progress"])
    BY <1>9, <1>12, <1>15
  <2>3. Unsettled' \/ \E u \in Finals : Settled(u)'
    BY <1>1, <1>11, <2>1, <2>2, ProgressOnly
  <2> QED
    BY <1>7, <1>9, <1>13, <1>14, <2>3 DEF DeferredInv
<1>16. CASE t \in Finals /\ Unsettled
  <2>1. ~L.fired
    BY <1>16 DEF Unsettled, Fresh
  <2> HIDE DEF L
  <2> QED
    BY <1>2, <1>3, <2>1, WellShape
<1>17. ASSUME NEW u \in Finals, Settled(u), t \in Finals PROVE Settled(u)'
  <2>1. /\ otherOf(u) \in Finals /\ otherOf(u)' = otherOf(u) /\ Finals = {u, otherOf(u)}
        /\ otherOf(u) # u /\ t # "progress" /\ otherOf(u) \in Tuples /\ "progress" \in Tuples
    BY <1>17, OtherIs DEF otherOf, Tuples
  <2>2. t = u
    <3> SUFFICES ASSUME t = otherOf(u) PROVE FALSE
      BY <1>17, <2>1
    <3> QED
      BY <1>4, <1>17 DEF Settled, ShutOff
  <2>3. Telling(L, added[u], heardBy[u])
    BY <1>2, <1>17, <2>2 DEF Settled, Rested
  <2>4. /\ ~L.open /\ added[u] \in Seq(Handlers) /\ heardBy[u] \in Seq(Handlers \X Values)
        /\ canFinish(L) /\ M = finished(L)
    BY <1>0, <1>1, <2>2, <1>17, OtherIs DEF DeferredShape, M, t
  <2>5. Rested(M, added[u], heardBy[u])
    <3> HIDE DEF L
    <3> QED
      BY <1>3, <2>3, <2>4, TellingFinished
  <2>6. M.data = L.data
    BY <1>4, <2>4
  <2>7. lists'[otherOf(u)] = lists[otherOf(u)] /\ lists'["progress"] = lists["progress"]
    BY <1>9, <2>1, <2>2
  <2> QED
    BY <1>1, <1>9, <1>17, <2>1, <2>2, <2>5, <2>6, <2>7 DEF Settled
<1> QED
  BY <1>2, <1>7, <1>9, <1>11, <1>13, <1>14, <1>15, <1>16, <1>17 DEF DeferredInv, Tuples, Finals

\* The deferred's own callbacks: one after the other they settle it.
LEMMA InternalKeeps ==
    ASSUME DeferredInv, NEW u \in Finals, Settling(u), NEW fn,
           fn = lists[u].list[lists[u].firingIndex], internal(u, fn),
           UNCHANGED <<active, settles, added, heardBy, settledWith>>
    PROVE  DeferredInv' /\ PromiseStep /\ NewsKept
<1> DEFINE L == lists[u]
           R == returned(L, TRUE)
           O == IF fn = "disable" THEN disable(lists[otherOf(u)]) ELSE lists[otherOf(u)]
           G == IF fn = "lock" THEN lock(lists["progress"]) ELSE lists["progress"]
<1>0. DeferredShape /\ Nested
  BY DEF DeferredInv
<1>1. /\ state' = IF fn = "state" THEN u ELSE state
      /\ lists' = [lists EXCEPT ![u] = R, ![otherOf(u)] = O, !["progress"] = G]
  BY <1>0, OtherIs DEF internal, DeferredShape
<1>2. /\ otherOf(u) \in Finals /\ otherOf(u) # u /\ otherOf(u)' = otherOf(u) /\ u # Nothing
      /\ Finals = {u, otherOf(u)} /\ Tuples = {u, otherOf(u), "progress"}
      /\ u # "progress" /\ otherOf(u) # "progress"
  BY OtherIs DEF otherOf
<1>3. lists'[u] = R /\ lists'[otherOf(u)] = O /\ lists'["progress"] = G
  <2> HIDE DEF R, O, G
  <2>1. DOMAIN lists = Tuples
    BY <1>0 DEF DeferredShape
  <2> QED
    BY <1>1, <1>2, <2>1
<1>4. Well(L) /\ Well(lists[otherOf(u)]) /\ Well(lists["progress"])
  BY <1>0, <1>2 DEF DeferredShape
<1>5. Well(R) /\ Called(L, R) /\ ~R.running /\ R.firingIndex = L.firingIndex + 1
  <2> HIDE DEF L
  <2> QED
    BY <1>4, WellReturn
<1>6. /\ L.firingIndex \in 1..3 /\ fn = Own[L.firingIndex] /\ L.firing /\ ~L.running /\ ~L.disabled
      /\ OwnList(L, added[u]) /\ heardBy[u] = <<>> /\ settledWith = L.data
      /\ active # <<>> /\ inner = u
  BY DEF Settling, OwnList
<1>7. /\ L.firingIndex = 1 => fn = "state"
      /\ L.firingIndex = 2 => fn = "disable"
      /\ L.firingIndex = 3 => fn = "lock"
  BY <1>6 DEF Own
<1>8. ~lists[otherOf(u)].firing
  <2>1. lists[otherOf(u)].disabled \/ ~lists[otherOf(u)].fired
    BY DEF Settling, ShutOff, Fresh
  <2> QED
    BY <1>4, <2>1, WellShape
<1>9. /\ Well(O) /\ ~O.firing /\ ~O.open /\ (fn = "disable" => O.disabled)
      /\ fn # "disable" => O = lists[otherOf(u)]
  <2> DEFINE B == lists[otherOf(u)]
             N == disable(B)
  <2>1. Well(B) /\ ~B.firing /\ ~B.open
    BY <1>0, <1>2, <1>4, <1>8 DEF DeferredShape
  <2>2. Well(N) /\ N.disabled /\ ~N.firing /\ ~N.open
    <3> HIDE DEF B
    <3> QED
      BY <2>1, WellDisable
  <2>3. O = IF fn = "disable" THEN N ELSE B
    OBVIOUS
  <2> HIDE DEF O, N, B
  <2>4. CASE fn = "disable"
    BY <2>2, <2>3, <2>4
  <2>5. CASE fn # "disable"
    BY <2>1, <2>3, <2>5 DEF B
  <2> QED
    BY <2>4, <2>5
<1>10. /\ Well(G) /\ (G.firing <=> lists["progress"].firing) /\ G.data = lists["progress"].data
       /\ G.list \in {lists["progress"].list, <<>>} /\ (fn = "lock" => Locked(G))
  <2> DEFINE B == lists["progress"]
             N == lock(B)
  <2>1. Well(B)
    BY <1>4
  <2>2. Well(N) /\ Locked(N) /\ N.firing = B.firing /\ N.data = B.data /\ N.list \in {B.list, <<>>}
    <3> HIDE DEF B
    <3> QED
      BY <2>1, WellLock
  <2>3. G = IF fn = "lock" THEN N ELSE B
    OBVIOUS
  <2> HIDE DEF G, N
  <2>4. CASE fn = "lock"
    BY <2>2, <2>3, <2>4
  <2>5. CASE fn # "lock"
    BY <2>1, <2>3, <2>5
  <2> QED
    BY <2>4, <2>5
<1> HIDE DEF R, O, G
<1>11. DeferredShape'
  <2>1. R \in CallbackLists(AllFns, Values) /\ O \in CallbackLists(AllFns, Values) /\ G \in CallbackLists(AllFns, Values)
    BY <1>5, <1>9, <1>10, WellShape
  <2>2. lists' \in [Tuples -> CallbackLists(AllFns, Values)]
    BY <1>0, <1>1, <2>1 DEF DeferredShape
  <2>3. \A s \in Tuples : Well(lists'[s])
    BY <1>2, <1>3, <1>5, <1>9, <1>10
  <2>4. \A s \in Finals : ~lists'[s].open
    <3>1. ~R.open
      BY <1>0, <1>5 DEF Called, DeferredShape
    <3> QED
      BY <1>2, <1>3, <1>9, <3>1
  <2>5. lists'["progress"].list \in Seq(Handlers)
    <3>1. lists["progress"].list \in Seq(Handlers) /\ <<>> \in Seq(Handlers)
      BY <1>0 DEF DeferredShape
    <3> QED
      BY <1>3, <1>10, <3>1
  <2> QED
    BY <1>0, <2>2, <2>3, <2>4, <2>5 DEF DeferredShape
<1>12. Nested'
  <2>1. R.firing = L.firing
    BY <1>5 DEF Called
  <2>2. ASSUME NEW s \in Tuples PROVE lists'[s].firing <=> lists[s].firing
    <3>1. CASE s = u
      BY <1>3, <2>1, <3>1
    <3>2. CASE s = otherOf(u)
      BY <1>3, <1>8, <1>9, <3>2
    <3>3. CASE s = "progress"
      BY <1>3, <1>10, <3>3
    <3> QED
      BY <1>2, <3>1, <3>2, <3>3
  <2> QED
    BY <1>0, <2>2, NestedStill
<1>13. NewsKept
  BY <1>3, <1>10 DEF NewsKept
<1>14. R.firing /\ ~R.disabled /\ R.data = L.data /\ OwnList(R, added[u])
  BY <1>5, <1>6 DEF Called, OwnList
<1>15. inner' = u
  BY <1>6 DEF inner
<1>16. CASE L.firingIndex = 1
  <2>1. fn = "state" /\ state = Nothing /\ state' = u /\ R.firingIndex = 2
    <3>1. R.firingIndex = 1 + 1
      BY <1>5, <1>16
    <3> QED
      BY <1>1, <1>7, <1>16, <3>1 DEF Settling
  <2>2. Fresh(lists'[otherOf(u)], added'[otherOf(u)], heardBy'[otherOf(u)])
    <3>1. O = lists[otherOf(u)]
      BY <1>9, <2>1
    <3>2. Fresh(lists[otherOf(u)], added[otherOf(u)], heardBy[otherOf(u)])
      BY <1>16 DEF Settling
    <3> QED
      BY <1>3, <3>1, <3>2
  <2>3. 2 \in 1..3 /\ 2 # 3 /\ 2 # 1
    OBVIOUS
  <2>4. Settling(u)'
    BY <1>2, <1>3, <1>5, <1>6, <1>14, <1>15, <2>1, <2>2, <2>3 DEF Settling
  <2>5. settledWith \in Values
    BY <1>4, <1>6, WellShape
  <2>6. P!Settle(u, settledWith)
    <3>1. [s \in Finals |-> added[s]]' = [s \in Finals |-> added[s]]
      OBVIOUS
    <3>2. [s \in Finals |-> Len(heardBy[s])]' = [s \in Finals |-> Len(heardBy[s])]
      OBVIOUS
    <3>3. (IF state = Nothing THEN Nothing ELSE settledWith)' = settledWith
      BY <1>2, <2>1
    <3> QED
      BY <2>1, <3>1, <3>2, <3>3 DEF P!Settle
  <2>7. u \in P!Ways
    BY DEF Finals, P!Ways
  <2>8. PromiseStep
    BY <2>5, <2>6, <2>7 DEF PromiseStep, P!PromiseNext
  <2> QED
    BY <1>11, <1>12, <1>13, <2>4, <2>8 DEF DeferredInv
<1>17. CASE L.firingIndex = 2
  <2>1. fn = "disable" /\ state = u /\ state' = u /\ R.firingIndex = 3
    <3>1. R.firingIndex = 2 + 1 /\ fn = "disable" /\ "disable" # "state"
      BY <1>5, <1>7, <1>17
    <3>2. state = u
      BY <1>17 DEF Settling
    <3> QED
      BY <1>1, <3>1, <3>2
  <2>2. ShutOff(lists'[otherOf(u)], heardBy'[otherOf(u)])
    <3>1. O.disabled
      BY <1>9, <2>1
    <3>2. Fresh(lists[otherOf(u)], added[otherOf(u)], heardBy[otherOf(u)])
      BY <1>17 DEF Settling
    <3> QED
      BY <1>3, <3>1, <3>2 DEF Fresh, ShutOff
  <2>3. 3 \in 1..3 /\ 3 # 1
    OBVIOUS
  <2>4. Settling(u)'
    BY <1>2, <1>3, <1>5, <1>6, <1>14, <1>15, <2>1, <2>2, <2>3 DEF Settling
  <2>5. PromiseStep
    BY <2>1, PromiseRests
  <2> QED
    BY <1>11, <1>12, <1>13, <2>4, <2>5 DEF DeferredInv
<1>18. CASE L.firingIndex = 3
  <2>1. fn = "lock" /\ state = u /\ state' = u
    <3>1. fn = "lock" /\ "lock" # "state"
      BY <1>7, <1>18
    <3>2. state = u
      BY <1>18 DEF Settling
    <3> QED
      BY <1>1, <3>1, <3>2
  <2>2. ShutOff(lists'[otherOf(u)], heardBy'[otherOf(u)])
    <3>1. ShutOff(lists[otherOf(u)], heardBy[otherOf(u)]) /\ O = lists[otherOf(u)]
      BY <1>9, <1>18, <2>1 DEF Settling
    <3> QED
      BY <1>3, <3>1
  <2>3. Telling(R, added[u], heardBy[u])
    <3>1. added[u] \in Seq(Handlers)
      BY <1>0, <1>2 DEF DeferredShape
    <3>2. R = returned(L, TRUE)
      BY DEF R
    <3> HIDE DEF L
    <3> QED
      BY <1>4, <1>6, <1>18, <3>1, <3>2, OwnReturned
  <2>4. Heard(added[u], heardBy[u], settledWith)
    BY <1>6 DEF Heard
  <2>5. Locked(G)
    BY <1>10, <2>1
  <2>6. Settled(u)'
    BY <1>2, <1>3, <1>6, <1>14, <2>1, <2>2, <2>3, <2>4, <2>5 DEF Settled
  <2>7. PromiseStep
    BY <2>1, PromiseRests
  <2> QED
    BY <1>11, <1>12, <1>13, <2>6, <2>7 DEF DeferredInv
<1>19. L.firingIndex \in {1, 2, 3}
  BY <1>6
<1> QED
  BY <1>16, <1>17, <1>18, <1>19

LEMMA DeferredCallKeeps ==
    ASSUME DeferredInv, DeferredCall
    PROVE  DeferredInv' /\ PromiseStep /\ NewsKept
<1> DEFINE t == inner
           L == lists[t]
           M == call(L)
           fn == L.list[L.firingIndex]
           x == <<fn, L.data>>
<1>0. DeferredShape /\ Nested
  BY DEF DeferredInv
<1>1. /\ active # <<>> /\ canCall(L)
      /\ IF fn \in Handlers
         THEN /\ lists' = [lists EXCEPT ![t] = M]
              /\ heardBy' = [heardBy EXCEPT ![t] = Append(@, x)]
              /\ UNCHANGED state
         ELSE internal(t, fn) /\ UNCHANGED heardBy
      /\ UNCHANGED <<active, settles, added, settledWith>>
  BY DEF DeferredCall
<1>2. t \in Tuples /\ L.firing
  BY <1>0, <1>1, InnerIs
<1>3. CASE \E u \in Finals : Settling(u)
  <2>1. PICK u \in Finals : Settling(u)
    BY <1>3
  <2>2. t = u /\ OwnList(L, added[u]) /\ L.firingIndex \in 1..3
    BY <2>1 DEF Settling
  <2>3. fn \in {"state", "disable", "lock"}
    <3>1. fn = Own[L.firingIndex]
      BY <2>2 DEF OwnList
    <3>2. L.firingIndex \in {1, 2, 3}
      BY <2>2
    <3> QED
      BY <3>1, <3>2 DEF Own
  <2>4. fn \notin Handlers
    BY <2>3, DeferredAssumption
  <2>5. internal(u, fn) /\ UNCHANGED <<active, settles, added, heardBy, settledWith>>
    BY <1>1, <2>2, <2>4
  <2>6. fn = lists[u].list[lists[u].firingIndex]
    BY <2>2
  <2> HIDE DEF fn
  <2> QED
    BY <2>1, <2>5, <2>6, InternalKeeps
<1>4. CASE Unsettled \/ \E u \in Finals : Settled(u)
  <2>1. Well(L)
    BY <1>0, <1>2 DEF DeferredShape
  <2>2. /\ Well(M) /\ Called(L, M) /\ L.firingIndex \in DOMAIN L.list /\ L.data \in Values
        /\ ~L.disabled /\ L.fired
    <3>1. canCall(L)
      BY <1>1
    <3> HIDE DEF L
    <3> QED
      BY <2>1, <3>1, WellCall, WellShape
  <2>3. ASSUME t \in Finals
        PROVE  /\ Settled(t)
               /\ Len(heardBy[t]) + 1 \in DOMAIN added[t] /\ fn = added[t][Len(heardBy[t]) + 1]
               /\ fn \in Handlers
               /\ Telling(M, added[t], Append(heardBy[t], x))
    <3>1. ~Unsettled
      BY <2>2, <2>3 DEF Unsettled, Fresh
    <3>2. PICK u \in Finals : Settled(u)
      BY <1>4, <3>1
    <3>3. t = u
      <4> SUFFICES ASSUME t = otherOf(u) PROVE FALSE
        BY <2>3, OtherIs
      <4> QED
        BY <2>2, <3>2 DEF Settled, ShutOff
    <3>4. Telling(L, added[t], heardBy[t])
      BY <1>2, <3>2, <3>3 DEF Settled, Rested
    <3>5. added[t] \in Seq(Handlers) /\ heardBy[t] \in Seq(Handlers \X Values) /\ canCall(L)
      BY <1>0, <1>1, <1>2 DEF DeferredShape
    <3> DEFINE a == added[t]
               h == heardBy[t]
               T == Handlers \X Values
    <3>6. a \in Seq(Handlers) /\ h \in Seq(T) /\ canCall(L) /\ Telling(L, a, h) /\ M = call(L)
      BY <3>4, <3>5
    <3>7. Len(h) + 1 \in DOMAIN a /\ fn = a[Len(h) + 1]
      <4> HIDE DEF a, h, T, L
      <4> QED
        BY <2>1, <3>6, TellingNext
    <3>8. fn \in Handlers
      BY <3>5, <3>7
    <3>9. x \in T
      BY <2>2, <3>8
    <3>10. Telling(M, a, Append(h, x))
      <4> HIDE DEF a, h, T, L, M, x
      <4> QED
        BY <2>1, <3>6, <3>9, TellingCalled
    <3> QED
      BY <3>2, <3>3, <3>7, <3>8, <3>10
  <2>4. fn \in Handlers
    <3>1. CASE t = "progress"
      <4>1. L.list \in Seq(Handlers)
        BY <1>0, <3>1 DEF DeferredShape
      <4> QED
        BY <2>2, <4>1
    <3> QED
      BY <1>2, <2>3, <3>1 DEF Tuples, Finals
  <2>5. lists' = [lists EXCEPT ![t] = M] /\ heardBy' = [heardBy EXCEPT ![t] = Append(@, x)] /\ UNCHANGED state
    BY <1>1, <2>4
  <2>6. x \in Handlers \X Values
    BY <2>2, <2>4
  <2> HIDE DEF fn, x, M
  <2>7. /\ heardBy' \in [Tuples -> Seq(Handlers \X Values)] /\ heardBy'[t] = Append(heardBy[t], x)
        /\ \A s \in Tuples \ {t} : heardBy'[s] = heardBy[s]
    <3>1. heardBy \in [Tuples -> Seq(Handlers \X Values)]
      BY <1>0 DEF DeferredShape
    <3>2. Append(heardBy[t], x) \in Seq(Handlers \X Values)
      BY <1>2, <2>6, <3>1
    <3> HIDE DEF t
    <3> QED
      BY <1>2, <2>5, <3>1, <3>2
  <2>8. M.firing = L.firing /\ M.open = L.open /\ M.list = L.list /\ M.data = L.data
        /\ M.fired = L.fired /\ M.disabled = L.disabled
    BY <2>2 DEF Called
  <2>9. (t \in Finals => ~M.open) /\ (t = "progress" => M.list \in Seq(Handlers))
    BY <1>0, <2>8 DEF DeferredShape
  <2> HIDE DEF t
  <2>10. DeferredShape' /\ lists'[t] = M /\ \A s \in Tuples \ {t} : lists'[s] = lists[s]
    <3>1. added' \in [Tuples -> Seq(Handlers)] /\ settles' \in Nat
      BY <1>0, <1>1 DEF DeferredShape
    <3> QED
      BY <1>0, <1>2, <2>2, <2>5, <2>7, <2>9, <3>1, ListChanges
  <2>11. Nested'
    <3>1. \A s \in Tuples : lists'[s].firing <=> lists[s].firing
      BY <2>8, <2>10
    <3> QED
      BY <1>0, <1>1, <3>1, NestedStill
  <2>12. NewsKept
    BY <2>8, <2>10 DEF NewsKept, Tuples
  <2>13. CASE t = "progress"
    <3>1. \A s \in Finals : lists'[s] = lists[s] /\ added'[s] = added[s] /\ heardBy'[s] = heardBy[s]
      BY <1>1, <2>7, <2>10, <2>13, OtherIs
    <3>2. Locked(lists["progress"]) => Locked(lists'["progress"])
      BY <2>8, <2>10, <2>13 DEF Locked
    <3>3. Unsettled' \/ \E u \in Finals : Settled(u)'
      BY <1>1, <1>4, <2>5, <3>1, <3>2, ProgressOnly
    <3>4. PromiseStep
      BY <1>1, <2>5, <3>1, PromiseRests
    <3> QED
      BY <2>10, <2>11, <2>12, <3>3, <3>4 DEF DeferredInv
  <2>14. CASE t \in Finals
    <3>1. /\ Settled(t) /\ Telling(M, added[t], Append(heardBy[t], x))
          /\ Len(heardBy[t]) + 1 \in DOMAIN added[t] /\ x = <<added[t][Len(heardBy[t]) + 1], settledWith>>
      <4>1. L.data = settledWith /\ Settled(t)
        BY <2>3, <2>14 DEF Settled
      <4> QED
        BY <2>3, <2>14, <4>1 DEF x
    <3>2. heardBy[t] \in Seq(Handlers \X Values) /\ added[t] \in Seq(Handlers)
      BY <1>0, <1>2 DEF DeferredShape
    <3>3. Heard(added[t], Append(heardBy[t], x), settledWith)
      <4>1. Heard(added[t], heardBy[t], settledWith)
        BY <3>1 DEF Settled
      <4> DEFINE h == heardBy[t]
                 a == added[t]
                 T == Handlers \X Values
      <4>2. h \in Seq(T) /\ Heard(a, h, settledWith) /\ x \in T /\ x = <<a[Len(h) + 1], settledWith>>
        BY <2>6, <3>1, <3>2, <4>1
      <4> HIDE DEF h, a, T
      <4>3. Heard(a, Append(h, x), settledWith)
        BY <4>2, HeardMore
      <4> QED
        BY <4>3 DEF h, a
    <3>4. PICK u \in Finals : u = t
      BY <2>14
    <3>5. Settled(u)'
      <4>1. otherOf(u) \in Finals /\ otherOf(u) # u /\ otherOf(u)' = otherOf(u) /\ otherOf(u) \in Tuples
            /\ "progress" \in Tuples /\ u # "progress" /\ otherOf(u) # "progress"
        BY OtherIs DEF Tuples, otherOf
      <4>2. lists'[otherOf(u)] = lists[otherOf(u)] /\ heardBy'[otherOf(u)] = heardBy[otherOf(u)]
            /\ lists'["progress"] = lists["progress"]
        BY <2>7, <2>10, <3>4, <4>1
      <4> QED
        BY <1>1, <2>5, <2>7, <2>8, <2>10, <3>1, <3>3, <3>4, <4>1, <4>2 DEF Settled
    <3>6. PromiseStep
      <4> DEFINE n == Len(heardBy[u]) + 1
      <4>1. Len(heardBy'[u]) = n
        BY <2>6, <2>7, <3>2, <3>4
      <4>2. \A s \in Finals : Len(heardBy'[s]) = IF s = u THEN n ELSE Len(heardBy[s])
        BY <2>7, <3>4, <4>1, OtherIs
      <4>3. [s \in Finals |-> Len(heardBy'[s])] = [s \in Finals |-> IF s = u THEN n ELSE Len(heardBy[s])]
        BY <4>2
      <4>4. [s \in Finals |-> IF s = u THEN n ELSE Len(heardBy[s])] =
              [[s \in Finals |-> Len(heardBy[s])] EXCEPT ![u] = @ + 1]
        OBVIOUS
      <4>5. [s \in Finals |-> Len(heardBy[s])]' = [[s \in Finals |-> Len(heardBy[s])] EXCEPT ![u] = @ + 1]
        BY <4>3, <4>4
      <4>6. [s \in Finals |-> added[s]]' = [s \in Finals |-> added[s]]
        BY <1>1
      <4>7. state' = state /\ (IF state = Nothing THEN Nothing ELSE settledWith)' =
                                (IF state = Nothing THEN Nothing ELSE settledWith)
        BY <1>1, <2>5
      <4>8. [s \in Finals |-> Len(heardBy[s])][u] < Len([s \in Finals |-> added[s]][u])
        <5>1. Len(heardBy[u]) < Len(added[u])
          BY <3>1, <3>2, <3>4
        <5> QED
          BY <5>1
      <4>9. state = u
        BY <3>1, <3>4 DEF Settled
      <4>10. P!Tell(u)
        BY <4>5, <4>6, <4>7, <4>8, <4>9 DEF P!Tell
      <4>11. u \in P!Ways
        BY DEF Finals, P!Ways
      <4> QED
        BY <4>10, <4>11 DEF PromiseStep, P!PromiseNext
    <3> QED
      BY <2>10, <2>11, <2>12, <3>5, <3>6 DEF DeferredInv
  <2> QED
    BY <1>2, <2>13, <2>14 DEF Tuples, Finals
<1> QED
  BY <1>3, <1>4 DEF DeferredInv

LEMMA SettlerIs ==
    ASSUME NEW t \in Finals, NEW M, M = settler(t)
    PROVE  Well(M) /\ Fresh(M, <<>>, <<>>) /\ ~M.open /\ ~M.firing
<1> DEFINE o == {"once", "memory"}
           N == NewList(o)
<1>1. o \in SUBSET Options /\ N = NewList(o)
  BY DEF Options
<1>2. "once" \in o /\ "memory" \in o /\ "unique" \notin o /\ "stopOnFalse" \notin o
  OBVIOUS
<1>3. M = [N EXCEPT !.list = Own]
  BY DEF settler, Own
<1> HIDE DEF o, N
<1>4. /\ Shape(AllFns, Values, N) /\ N.options = o /\ N.list = <<>> /\ N.memory = Nothing /\ ~N.fired
      /\ ~N.firing /\ ~N.running /\ ~N.disabled /\ N.stack = <<>> /\ ~N.open
  BY <1>1, <1>2, NewIs
<1>5. N \in CallbackLists(AllFns, Values)
  BY <1>4 DEF Shape
<1>6. Own \in Seq(AllFns) /\ Len(Own) = 3 /\ DOMAIN <<>> = {} /\ Len(<<>>) = 0
  BY DEF Own, AllFns
<1>7. /\ M \in CallbackLists(AllFns, Values) /\ M.options = N.options /\ M.list = Own
      /\ M.memory = N.memory /\ M.fired = N.fired /\ M.firing = N.firing /\ M.running = N.running
      /\ M.disabled = N.disabled /\ M.stack = N.stack /\ M.open = N.open
  BY <1>3, <1>5, <1>6 DEF CallbackLists
<1>8. Well(M) /\ ~M.open /\ ~M.firing
  BY <1>2, <1>4, <1>7 DEF Well, Shape
<1>9. Fresh(M, <<>>, <<>>)
  BY <1>4, <1>6, <1>7 DEF Fresh, OwnList
<1> QED
  BY <1>8, <1>9

LEMMA DeferredStart == DeferredInit => DeferredInv /\ P!PromiseInit
<1> SUFFICES ASSUME DeferredInit PROVE DeferredInv /\ P!PromiseInit
  OBVIOUS
<1>1. /\ state = Nothing /\ settledWith = Nothing /\ active = <<>> /\ settles = 0
      /\ added = [t \in Tuples |-> <<>>] /\ heardBy = [t \in Tuples |-> <<>>]
  BY DEF DeferredInit
<1>2. Finals \subseteq Tuples /\ "progress" \in Tuples /\ "progress" \notin Finals
      /\ \A t \in Tuples : t # "progress" => t \in Finals
  BY DEF Tuples, Finals
<1>3. /\ DOMAIN lists = Tuples /\ lists["progress"] = NewList({"memory"})
      /\ \A t \in Finals : lists[t] = settler(t)
  BY <1>2 DEF DeferredInit
<1>4. Well(lists["progress"]) /\ ~lists["progress"].firing /\ lists["progress"].list = <<>>
  <2> DEFINE o == {"memory"}
  <2>1. /\ o \in SUBSET Options /\ lists["progress"] = NewList(o)
        /\ "memory" \in o /\ "unique" \notin o /\ "stopOnFalse" \notin o
    BY <1>3 DEF Options
  <2> HIDE DEF o
  <2> DEFINE M == lists["progress"]
  <2>2. M = NewList(o)
    BY <2>1
  <2> HIDE DEF M
  <2>3. /\ Shape(AllFns, Values, M) /\ M.options = o /\ M.list = <<>> /\ M.memory = Nothing
        /\ ~M.fired /\ ~M.firing /\ ~M.running /\ ~M.disabled
    BY <2>1, <2>2, NewIs
  <2>4. Well(M)
    BY <2>1, <2>3 DEF Well
  <2> QED
    BY <2>3, <2>4 DEF M
<1>5. \A t \in Finals : /\ Well(lists[t]) /\ Fresh(lists[t], <<>>, <<>>)
                        /\ ~lists[t].open /\ ~lists[t].firing
  BY <1>3, SettlerIs
<1>6. \A t \in Tuples : Well(lists[t]) /\ ~lists[t].firing
  BY <1>2, <1>4, <1>5
<1>7. lists \in [Tuples -> CallbackLists(AllFns, Values)]
  <2>1. lists = [t \in Tuples |-> lists[t]]
    BY DEF DeferredInit
  <2>2. \A t \in Tuples : lists[t] \in CallbackLists(AllFns, Values)
    BY <1>6, WellShape
  <2> QED
    BY <2>1, <2>2
<1>8. \A t \in Tuples : added[t] = <<>> /\ heardBy[t] = <<>>
  BY <1>1
<1>9. added \in [Tuples -> Seq(Handlers)] /\ heardBy \in [Tuples -> Seq(Handlers \X Values)]
  BY <1>1
<1>10. DeferredShape
  BY <1>1, <1>4, <1>5, <1>6, <1>7, <1>9 DEF DeferredShape
<1>11. Nested
  BY <1>1, <1>6 DEF Nested
<1>12. Unsettled
  BY <1>1, <1>2, <1>5, <1>8 DEF Unsettled
<1>13. P!PromiseInit
  <2>1. [t \in Finals |-> added[t]] = [t \in Finals |-> <<>>]
    BY <1>2, <1>8
  <2>2. [t \in Finals |-> Len(heardBy[t])] = [t \in Finals |-> 0]
    BY <1>2, <1>8
  <2>3. P!Ways = Finals
    BY DEF P!Ways, Finals
  <2> QED
    BY <1>1, <2>1, <2>2, <2>3 DEF P!PromiseInit
<1> QED
  BY <1>10, <1>11, <1>12, <1>13 DEF DeferredInv

LEMMA DeferredStep ==
    ASSUME DeferredInv, [DeferredNext]_deferredVars
    PROVE  DeferredInv' /\ PromiseStep /\ NewsKept
<1>1. CASE UNCHANGED deferredVars
  <2>1. /\ state' = state /\ lists' = lists /\ active' = active /\ settles' = settles
        /\ added' = added /\ heardBy' = heardBy /\ settledWith' = settledWith
    BY <1>1 DEF deferredVars
  <2>2. DeferredInv'
    BY <2>1 DEF DeferredInv, DeferredShape, Nested, Unsettled, Settling, Settled, inner
  <2>3. PromiseStep
    BY <2>1, PromiseRests
  <2> QED
    BY <2>1, <2>2, <2>3 DEF NewsKept
<1>2. ASSUME NEW t \in Tuples, NEW h \in Handlers, Add(t, h)
      PROVE  DeferredInv' /\ PromiseStep /\ NewsKept
  BY <1>2, AddKeeps
<1>3. ASSUME NEW t \in Tuples, NEW v \in Values, FireWith(t, v)
      PROVE  DeferredInv' /\ PromiseStep /\ NewsKept
  BY <1>3, FireWithKeeps
<1>4. CASE DeferredCall
  BY <1>4, DeferredCallKeeps
<1>5. CASE DeferredReturn
  BY <1>5, DeferredReturnKeeps
<1>6. CASE DeferredFinish
  BY <1>6, DeferredFinishKeeps
<1> QED
  BY <1>1, <1>2, <1>3, <1>4, <1>5, <1>6 DEF DeferredNext

LEMMA PhasesType == DeferredInv => DeferredTypeOK /\ HearsTheValue
<1> SUFFICES ASSUME DeferredInv PROVE DeferredTypeOK /\ HearsTheValue
  OBVIOUS
<1>1. CASE Unsettled
  <2>1. HearsTheValue
    BY <1>1 DEF Unsettled, Fresh, HearsTheValue
  <2>2. state = Nothing
    BY <1>1 DEF Unsettled
  <2> QED
    BY <2>1, <2>2 DEF DeferredInv, DeferredShape, Nested, DeferredTypeOK, AllFns
<1>2. ASSUME NEW u \in Finals, Settling(u) PROVE DeferredTypeOK /\ HearsTheValue
  <2>1. heardBy[u] = <<>> /\ heardBy[otherOf(u)] = <<>> /\ state \in {Nothing, u}
    BY <1>2 DEF Settling, ShutOff, Fresh
  <2>2. \A t \in Finals : heardBy[t] = <<>>
    BY <2>1, OtherIs
  <2>3. HearsTheValue
    BY <2>2 DEF HearsTheValue
  <2> QED
    BY <2>1, <2>3 DEF DeferredInv, DeferredShape, Nested, DeferredTypeOK, AllFns
<1>3. ASSUME NEW u \in Finals, Settled(u) PROVE DeferredTypeOK /\ HearsTheValue
  <2>1. heardBy[otherOf(u)] = <<>> /\ state = u /\ Heard(added[u], heardBy[u], settledWith)
    BY <1>3 DEF Settled, ShutOff
  <2>2. HearsTheValue
    BY <2>1, OtherIs DEF HearsTheValue, Heard
  <2> QED
    BY <2>1, <2>2 DEF DeferredInv, DeferredShape, Nested, DeferredTypeOK, AllFns
<1> QED
  BY <1>1, <1>2, <1>3 DEF DeferredInv

\* A deferred keeps its promise whatever its handlers do while they run: every step of the
\* three lists is a step of Promise or none, so it is settled once, with one value, and each
\* handler of that way hears it once and in turn; and progress brings no news after the end.
THEOREM KeepsPromiseHolds == DeferredSpec => KeepsPromise
<1>1. DeferredInit => DeferredInv /\ P!PromiseInit
  BY DeferredStart
<1>2. DeferredInv /\ [DeferredNext]_deferredVars => DeferredInv' /\ PromiseStep /\ NewsKept
  BY DeferredStep
<1>3. DeferredInv => DeferredTypeOK /\ HearsTheValue
  BY PhasesType
<1>4. PromiseStep => [P!PromiseNext]_(P!promiseVars)
  BY DEF PromiseStep
<1>5. NewsKept => [state # Nothing => lists'["progress"].data = lists["progress"].data]_deferredVars
  BY DEF NewsKept
<1> QED
  BY <1>1, <1>2, <1>3, <1>4, <1>5, PTL
    DEF DeferredSpec, KeepsPromise, NeverBreaksPromise, NoNewsAfterTheEnd, P!PromiseSafety

----------------------------------------------------------------------------
(* Events, and the data of elements *)

\* An entry of the cache, and what is kept of an event that is under way.
EntryRecords ==
    [events: [EventTypes -> Seq(HandleObjs)], handle: BOOLEAN, user: BOOLEAN, attaches: Nat]
FrameRecords ==
    [type: EventTypes, target: Nodes, path: Seq(Nodes), at: Nodes \cup {NoNode}, queue: Seq(Matched),
     running: BOOLEAN, stop: Nodes \cup {NoNode}, late: SUBSET (1..MaxBinds)]

\* An id below the next new one is that of an element or waits to be used again, and not
\* both: there are never more ids than elements.
UsedId(d, i) == \E n \in Nodes : d.id[n] = i
FreeId(d, i) == \E j \in DOMAIN d.deleted : d.deleted[j] = i

Shaped(d) == d = [id |-> d.id, cache |-> d.cache, deleted |-> d.deleted, guid |-> d.guid]

IdsOk(d) ==
    /\ Shaped(d)
    /\ d.id \in [Nodes -> 0..Depth] /\ d.deleted \in Seq(1..Depth) /\ d.guid \in 1..(Depth + 1)
    /\ \A m, n \in Nodes : d.id[m] = d.id[n] /\ d.id[m] # NoId => m = n
    /\ \A i, j \in DOMAIN d.deleted : d.deleted[i] = d.deleted[j] => i = j
    /\ \A i \in 1..Depth : i < d.guid <=> UsedId(d, i) \/ FreeId(d, i)
    /\ \A i \in 1..Depth : ~(UsedId(d, i) /\ FreeId(d, i))

DataOk(d) ==
    /\ IdsOk(d)
    /\ d.cache = [i \in DOMAIN d.cache |-> d.cache[i]]
    /\ DOMAIN d.cache = {i \in 1..Depth : UsedId(d, i)}
    /\ \A i \in DOMAIN d.cache : d.cache[i] \in EntryRecords /\ d.cache[i] # NewEntry

\* The handlers of all elements, as they are told apart and ordered.
HandlersOk ==
    /\ \A n \in Nodes, t \in EventTypes : \A i \in DOMAIN bound(n, t) :
         bound(n, t)[i].number \in (1..binds) \ removed
    /\ \A m, n \in Nodes, t, u \in EventTypes : \A i \in DOMAIN bound(m, t), j \in DOMAIN bound(n, u) :
         bound(m, t)[i].number = bound(n, u)[j].number => m = n /\ t = u /\ i = j
    /\ DelegatesFirst

\* A handler that an event is to call is bound where the event is, or was unbound since.
IsBound(h, n, t) == \E i \in DOMAIN bound(n, t) : bound(n, t)[i] = h
Pending(q, f) ==
    /\ q.h.number \notin f.late
    /\ q.h.number \in removed \/ IsBound(q.h, f.at, f.type)
    /\ f.stop # NoNode => q.elem = f.stop

FrameOk(f) ==
    /\ f.running => f.queue # <<>>
    /\ f.queue # <<>> => f.at \in Nodes
    /\ f.late \subseteq removed
    /\ f.running /\ handler(f).one => handler(f).number \in removed
    /\ \A i \in DOMAIN f.queue : Pending(f.queue[i], f)

\* One that is called once and runs is not in the queue of an event it triggered.
NotAgain(f, g) ==
    f.running /\ handler(f).one => \A i \in DOMAIN g.queue : g.queue[i].h.number # handler(f).number

FramesOk ==
    /\ frames \in Seq(FrameRecords)
    /\ \A f \in DOMAIN frames : FrameOk(frames[f])
    /\ \A f, g \in DOMAIN frames : f < g => NotAgain(frames[f], frames[g])

BindsOk ==
    /\ DataOk(D) /\ ListensAsHandled /\ HandlersOk
    /\ \A n \in Nodes \ attached : ~hasEntry(D, n)
    /\ cuts \subseteq Nodes \ {document}
    /\ removed \subseteq 1..binds /\ binds \in 0..MaxBinds /\ eventOps \in 0..MaxEventOps

EventsInv == BindsOk /\ FramesOk

\* The recursive functions over the numbers up to k: what holds at 0 and goes on, holds.
LEMMA UpTo ==
    ASSUME NEW k \in Nat, NEW Q, 0 \in Q, \A i \in 1..k : i - 1 \in Q => i \in Q
    PROVE  \A i \in 0..k : i \in Q
<1> DEFINE bad == {i \in 0..k : i \notin Q}
<1> SUFFICES ASSUME bad # {} PROVE FALSE
  OBVIOUS
<1>1. PICK i \in bad : \A y \in bad : i <= y
  <2>1. bad \in SUBSET Nat
    OBVIOUS
  <2> QED BY <2>1, LeastNat
<1>2. i \in 1..k /\ i - 1 \in 0..k
  OBVIOUS
<1>3. i - 1 \notin bad
  BY <1>1, <1>2
<1> QED BY <1>2, <1>3

LEMMA EntryTypes ==
    /\ NewEntry \in EntryRecords /\ NoEvents \in [EventTypes -> Seq(HandleObjs)]
    /\ NewEntry.events = NoEvents /\ NewEntry.attaches = 0
    /\ \A e \in EntryRecords : e.events = NoEvents <=> \A t \in EventTypes : e.events[t] = <<>>
    /\ document \in Nodes /\ NoId \notin Nodes
<1>1. NoEvents \in [EventTypes -> Seq(HandleObjs)]
  BY EmptySeq DEF NoEvents
<1>2. ASSUME NEW e \in EntryRecords
      PROVE  e.events = NoEvents <=> \A t \in EventTypes : e.events[t] = <<>>
  BY DEF EntryRecords, NoEvents
<1> QED BY <1>1, <1>2, EventsAssumption DEF NewEntry, EntryRecords, document, Nodes, NoId

\* Without an id that was given back, a new one is there for an element that has none.
LEMMA IdIsLeft ==
    ASSUME NEW d, IdsOk(d), NEW n \in Nodes, d.id[n] = NoId, Len(d.deleted) = 0
    PROVE  d.guid \in 1..Depth
<1> SUFFICES ASSUME d.guid = Depth + 1 PROVE FALSE
  BY EventsAssumption DEF IdsOk
<1>1. \A i \in 1..Depth : UsedId(d, i)
  BY EventsAssumption DEF IdsOk, FreeId
<1> DEFINE f == [i \in 1..Depth |-> CHOOSE m \in Nodes : d.id[m] = i]
           S == 1..Depth
           T == Nodes \ {n}
<1>2. \A i \in S : f[i] \in Nodes /\ d.id[f[i]] = i
  BY <1>1 DEF UsedId
<1>3. \A i \in S : f[i] # n
  BY <1>2 DEF NoId
<1>4. f \in [S -> T]
  BY <1>2, <1>3
<1>5. IsFiniteSet(S) /\ Cardinality(S) = Depth
  BY FS_Interval, EventsAssumption
<1>6. IsFiniteSet(T) /\ Cardinality(T) = Depth - 1
  BY <1>5, FS_RemoveElement DEF Nodes
<1>7. Cardinality(T) < Cardinality(S)
  BY <1>5, <1>6, EventsAssumption
<1> HIDE DEF f, S, T
<1>8. PICK x \in S, y \in S : x # y /\ f[x] = f[y]
  BY <1>4, <1>5, <1>6, <1>7, FS_PigeonHole
<1> QED BY <1>2, <1>8

CacheGrows(new, d, n) ==
    new.cache = [i \in DOMAIN d.cache \cup {new.id[n]} |->
                   IF i \in DOMAIN d.cache THEN d.cache[i] ELSE NewEntry]

\* An element has an id; those of the others stay.
GetsId(new, d, n) ==
    /\ IdsOk(new) /\ new.id[n] \in 1..Depth
    /\ \A m \in Nodes \ {n} : new.id[m] = d.id[m]
    /\ CacheGrows(new, d, n)
    /\ new.id[n] # d.id[n] => ~UsedId(d, new.id[n]) /\ d.id[n] = NoId

LEMMA InternalDataIs ==
    ASSUME NEW d, IdsOk(d), NEW n \in Nodes
    PROVE  GetsId(internalData(d, n), d, n)
<1> DEFINE k == Len(d.deleted)
           id == IF d.id[n] # NoId THEN d.id[n] ELSE IF k > 0 THEN d.deleted[k] ELSE d.guid
           new == internalData(d, n)
           cache == [i \in DOMAIN d.cache \cup {id} |-> IF i \in DOMAIN d.cache THEN d.cache[i] ELSE NewEntry]
<1>1. /\ d.id \in [Nodes -> 0..Depth] /\ d.deleted \in Seq(1..Depth) /\ d.guid \in 1..(Depth + 1)
      /\ k \in Nat /\ Depth \in Nat
  BY EventsAssumption DEF IdsOk
<1> DEFINE ids == [d.id EXCEPT ![n] = id]
           del == IF d.id[n] = NoId /\ k > 0 THEN SubSeq(d.deleted, 1, k - 1) ELSE d.deleted
           nextId == IF id = d.guid THEN d.guid + 1 ELSE d.guid
<1>a. new = [d EXCEPT !.id = ids, !.guid = nextId, !.cache = cache, !.deleted = del]
  BY DEF internalData
<1>b. new = [id |-> ids, cache |-> cache, deleted |-> del, guid |-> nextId]
  <2> HIDE DEF new, ids, nextId, cache, del
  <2> QED BY <1>a DEF Shaped, IdsOk
<1>2. new.id = ids /\ new.cache = cache /\ new.deleted = del /\ new.guid = nextId /\ Shaped(new)
  <2> HIDE DEF new, ids, nextId, cache, del
  <2> QED BY <1>b DEF Shaped
<1> SUFFICES GetsId(new, d, n)
  OBVIOUS
<1> HIDE DEF new
<1>3. CASE d.id[n] # NoId
  <2>1. id = d.id[n] /\ id \in 1..Depth /\ UsedId(d, id) /\ id # d.guid
    BY <1>1, <1>3 DEF UsedId, NoId, IdsOk
  <2>2. new.id = d.id /\ new.deleted = d.deleted /\ new.guid = d.guid /\ new.cache = cache
    BY <1>1, <1>2, <1>3, <2>1
  <2>3. new.id[n] = id
    BY <2>1, <2>2
  <2> HIDE DEF id, ids, del, nextId
  <2>4. IdsOk(new)
    <3> HIDE DEF cache, k
    <3>1. /\ \A i : UsedId(new, i) <=> UsedId(d, i)
          /\ \A i : FreeId(new, i) <=> FreeId(d, i)
      BY <2>2 DEF UsedId, FreeId
    <3>2. new.id = d.id /\ new.deleted = d.deleted /\ new.guid = d.guid /\ Shaped(new)
      BY <1>2, <2>2
    <3> QED BY <3>1, <3>2 DEF IdsOk
  <2>8. CacheGrows(new, d, n)
    BY <2>2, <2>3 DEF cache, CacheGrows
  <2> QED BY <2>1, <2>2, <2>3, <2>4, <2>8 DEF GetsId
<1>4. CASE d.id[n] = NoId /\ k > 0
  <2>1. id = d.deleted[k] /\ id \in 1..Depth /\ id # NoId /\ FreeId(d, id) /\ ~UsedId(d, id) /\ id < d.guid
    <3>1. k \in DOMAIN d.deleted /\ id = d.deleted[k]
      BY <1>1, <1>4
    <3> QED BY <1>1, <3>1 DEF FreeId, IdsOk, NoId
  <2>2. /\ del \in Seq(1..Depth) /\ DOMAIN del = 1..(k - 1) /\ DOMAIN d.deleted = 1..k
        /\ \A i \in 1..(k - 1) : del[i] = d.deleted[i]
    <3> DEFINE all == d.deleted
               m == k - 1
    <3>1. all \in Seq(1..Depth) /\ Len(all) = k /\ m \in Nat /\ m <= k /\ k \in Nat
      BY <1>1, <1>4
    <3>2. del = SubSeq(all, 1, m)
      BY <1>4
    <3>3. DOMAIN all = 1..k
      BY <3>1
    <3> HIDE DEF all, k, m, del
    <3>4. del \in Seq(1..Depth) /\ Len(del) = m /\ \A i \in 1..m : del[i] = all[i]
      <4>1. \A i \in 1..m : all[i] \in 1..Depth
        <5> SUFFICES ASSUME NEW i \in 1..m PROVE all[i] \in 1..Depth
          OBVIOUS
        <5>1. i \in 1..Len(all)
          BY <3>1
        <5> QED BY <3>1, <5>1, ElementOfSeq
      <4>2. m \in Int /\ 1 \in Int /\ (m >= 1 => m - 1 + 1 = m) /\ (m < 1 => m = 0) /\ \A i \in 1..m : 1 + i - 1 = i
        BY <3>1
      <4>3. /\ del \in Seq(1..Depth) /\ Len(del) = IF 1 <= m THEN m - 1 + 1 ELSE 0
            /\ \A i \in 1 .. m - 1 + 1 : del[i] = all[1 + i - 1]
        BY <3>2, <4>1, <4>2, SubSeqProperties
      <4> QED BY <3>1, <4>2, <4>3
    <3> QED BY <3>3, <3>4 DEF m, all
  <2>3. /\ new.id = [d.id EXCEPT ![n] = id] /\ new.deleted = del /\ new.guid = d.guid /\ new.cache = cache
    BY <1>1, <1>2, <1>4, <2>1
  <2>4. new.id[n] = id /\ \A m \in Nodes \ {n} : new.id[m] = d.id[m]
    BY <1>1, <2>3
  <2> HIDE DEF id, ids, cache, del, nextId
  <2>5. \A i \in 1..Depth : UsedId(new, i) <=> UsedId(d, i) \/ i = id
    BY <1>4, <2>4 DEF UsedId, NoId
  <2>6. \A i \in 1..Depth : FreeId(new, i) <=> FreeId(d, i) /\ i # id
    <3>1. \A i \in DOMAIN d.deleted : i \in 1..(k - 1) \/ i = k
      BY <1>1
    <3>2. \A i \in 1..(k - 1) : i \in 1..k /\ i # k /\ k \in 1..k
      BY <1>1, <1>4
    <3>3. \A i \in 1..(k - 1) : d.deleted[i] # id
      <4> HIDE DEF k
      <4> QED BY <2>1, <2>2, <3>2 DEF IdsOk
    <3> HIDE DEF k
    <3> QED BY <2>1, <2>2, <2>3, <3>1, <3>2, <3>3 DEF FreeId
  <2>7. IdsOk(new)
    <3> HIDE DEF k
    <3>1. \A i, j \in DOMAIN new.deleted : new.deleted[i] = new.deleted[j] => i = j
      <4> USE DEF k
      <4>1. \A i, j \in 1..(k - 1) : del[i] = del[j] => i = j
        <5>1. \A i \in 1..(k - 1) : i \in 1..k
          BY <1>1
        <5> HIDE DEF k
        <5> QED BY <2>2, <5>1 DEF IdsOk
      <4> QED BY <2>2, <2>3, <4>1
    <3>2. \A m, p \in Nodes : new.id[m] = new.id[p] /\ new.id[m] # NoId => m = p
      BY <2>1, <2>4 DEF IdsOk, UsedId
    <3>3. new.id \in [Nodes -> 0..Depth]
      BY <1>1, <2>1, <2>3
    <3>4. \A i \in 1..Depth : i < new.guid <=> UsedId(new, i) \/ FreeId(new, i)
      BY <2>1, <2>3, <2>5, <2>6 DEF IdsOk
    <3>5. \A i \in 1..Depth : ~(UsedId(new, i) /\ FreeId(new, i))
      BY <2>1, <2>5, <2>6 DEF IdsOk
    <3>6. Shaped(new) /\ new.deleted \in Seq(1..Depth) /\ new.guid \in 1..(Depth + 1)
      BY <1>1, <1>2, <2>2, <2>3
    <3> QED BY <3>1, <3>2, <3>3, <3>4, <3>5, <3>6 DEF IdsOk
  <2>8. CacheGrows(new, d, n)
    BY <2>3, <2>4 DEF cache, CacheGrows
  <2> QED BY <1>4, <2>1, <2>3, <2>4, <2>7, <2>8 DEF GetsId
<1>5. CASE d.id[n] = NoId /\ ~(k > 0)
  <2>1. id = d.guid /\ d.guid \in 1..Depth /\ d.deleted = <<>> /\ ~UsedId(d, id) /\ ~FreeId(d, id)
    BY <1>1, <1>5, IdIsLeft DEF IdsOk
  <2>2. /\ new.id = [d.id EXCEPT ![n] = id] /\ new.deleted = d.deleted /\ new.guid = id + 1
        /\ new.cache = cache
    BY <1>1, <1>2, <1>5, <2>1
  <2>3. new.id[n] = id /\ \A m \in Nodes \ {n} : new.id[m] = d.id[m]
    BY <1>1, <2>2
  <2> HIDE DEF id, ids, cache, del, nextId, k
  <2>4. \A i \in 1..Depth : UsedId(new, i) <=> UsedId(d, i) \/ i = id
    BY <1>5, <2>3 DEF UsedId, NoId
  <2>5. \A i : FreeId(new, i) <=> FreeId(d, i)
    BY <2>2 DEF FreeId
  <2>6. IdsOk(new)
    <3>2. \A m, p \in Nodes : new.id[m] = new.id[p] /\ new.id[m] # NoId => m = p
      BY <2>1, <2>3 DEF IdsOk, UsedId
    <3>3. new.id \in [Nodes -> 0..Depth]
      BY <1>1, <2>1, <2>2
    <3>4. \A i \in 1..Depth : i < new.guid <=> UsedId(new, i) \/ FreeId(new, i)
      <4> SUFFICES ASSUME NEW i \in 1..Depth
                   PROVE  i < new.guid <=> UsedId(new, i) \/ FreeId(new, i)
        OBVIOUS
      <4>1. i < d.guid <=> UsedId(d, i) \/ FreeId(d, i)
        BY DEF IdsOk
      <4>2. i < new.guid <=> i < d.guid \/ i = id
        BY <2>1, <2>2
      <4> QED BY <4>1, <4>2, <2>4, <2>5
    <3>5. \A i \in 1..Depth : ~(UsedId(new, i) /\ FreeId(new, i))
      BY <2>1, <2>4, <2>5 DEF IdsOk
    <3>6. Shaped(new) /\ new.deleted \in Seq(1..Depth) /\ new.guid \in 1..(Depth + 1)
      BY <1>1, <1>2, <2>1, <2>2
    <3>7. \A i, j \in DOMAIN new.deleted : new.deleted[i] = new.deleted[j] => i = j
      BY <2>2 DEF IdsOk
    <3> QED BY <3>2, <3>3, <3>4, <3>5, <3>6, <3>7 DEF IdsOk
  <2>8. CacheGrows(new, d, n)
    BY <2>2, <2>3 DEF cache, CacheGrows
  <2> QED BY <1>5, <2>1, <2>2, <2>3, <2>6, <2>8 DEF GetsId
<1> QED BY <1>3, <1>4, <1>5

\* The data of one element changes: whether there is some, and what.
Becomes(new, d, n, there, e) ==
    /\ DataOk(new)
    /\ hasEntry(new, n) <=> there
    /\ entry(new, n) = e
    /\ \A m \in Nodes \ {n} : (hasEntry(new, m) <=> hasEntry(d, m)) /\ entry(new, m) = entry(d, m)

LEMMA HasIs ==
    ASSUME NEW d, DataOk(d), NEW n \in Nodes
    PROVE  /\ hasEntry(d, n) <=> d.id[n] # NoId
           /\ entry(d, n) \in EntryRecords
           /\ hasEntry(d, n) => entry(d, n) = d.cache[d.id[n]] /\ entry(d, n) # NewEntry /\ d.id[n] \in 1..Depth
           /\ ~hasEntry(d, n) => entry(d, n) = NewEntry
<1>1. d.id[n] \in 0..Depth /\ Depth \in Nat
  BY EventsAssumption DEF DataOk, IdsOk
<1>2. hasEntry(d, n) <=> d.id[n] # NoId
  BY <1>1 DEF DataOk, hasEntry, UsedId, NoId
<1> QED BY <1>1, <1>2, EntryTypes DEF entry, hasEntry, DataOk, NoId

LEMMA SameIds ==
    ASSUME NEW d, IdsOk(d), NEW new, Shaped(new),
           new.id = d.id, new.deleted = d.deleted, new.guid = d.guid
    PROVE  IdsOk(new) /\ \A i : UsedId(new, i) <=> UsedId(d, i)
<1>1. \A i : UsedId(new, i) <=> UsedId(d, i)
  BY DEF UsedId
<1>2. \A i : FreeId(new, i) <=> FreeId(d, i)
  BY DEF FreeId
<1> QED BY <1>1, <1>2 DEF IdsOk

LEMMA DataPutIs ==
    ASSUME NEW d, DataOk(d), NEW n \in Nodes, NEW e \in EntryRecords, e # NewEntry
    PROVE  Becomes(put(d, n, e), d, n, TRUE, e)
<1> DEFINE new == internalData(d, n)
           id == new.id[n]
           cache == [new.cache EXCEPT ![id] = e]
           R == put(d, n, e)
<1>1. GetsId(new, d, n) /\ Shaped(new)
  BY InternalDataIs DEF DataOk, GetsId, IdsOk
<1>2. R.id = new.id /\ R.deleted = new.deleted /\ R.guid = new.guid /\ R.cache = cache /\ Shaped(R)
  <2>1. R = [new EXCEPT !.cache = cache]
    <3>1. R = [new EXCEPT !.cache[id] = e]
      BY DEF put
    <3> HIDE DEF R, new
    <3> QED BY <3>1
  <2> HIDE DEF R, cache, new
  <2>2. R = [id |-> new.id, cache |-> cache, deleted |-> new.deleted, guid |-> new.guid]
    BY <1>1, <2>1 DEF Shaped
  <2> QED BY <2>2 DEF Shaped
<1> SUFFICES Becomes(R, d, n, TRUE, e)
  OBVIOUS
<1> HIDE DEF R, new
<1>3. /\ id \in 1..Depth /\ \A m \in Nodes \ {n} : new.id[m] = d.id[m]
      /\ new.id[n] # d.id[n] => d.id[n] = NoId
      /\ \A m, p \in Nodes : new.id[m] = new.id[p] /\ new.id[m] # NoId => m = p
  BY <1>1 DEF GetsId, IdsOk
<1>4. /\ DOMAIN cache = DOMAIN d.cache \cup {id} /\ cache = [i \in DOMAIN cache |-> cache[i]]
      /\ \A i \in DOMAIN cache : cache[i] = IF i = id THEN e ELSE d.cache[i]
  BY <1>1 DEF GetsId, CacheGrows
<1> HIDE DEF cache
<1>5. IdsOk(R) /\ \A i : UsedId(R, i) <=> UsedId(new, i)
  BY <1>1, <1>2, SameIds DEF GetsId
<1>6. \A i \in 1..Depth : UsedId(new, i) <=> UsedId(d, i) \/ i = id
  BY <1>3 DEF UsedId, NoId
<1>7. DataOk(R)
  <2>1. DOMAIN R.cache = {i \in 1..Depth : UsedId(R, i)}
    BY <1>2, <1>3, <1>4, <1>5, <1>6 DEF DataOk
  <2>2. \A i \in DOMAIN R.cache : R.cache[i] \in EntryRecords /\ R.cache[i] # NewEntry
    BY <1>2, <1>4 DEF DataOk
  <2> QED BY <1>2, <1>4, <1>5, <2>1, <2>2 DEF DataOk
<1>8. hasEntry(R, n) /\ entry(R, n) = e
  BY <1>2, <1>4 DEF hasEntry, entry
<1>9. ASSUME NEW m \in Nodes \ {n}
      PROVE  (hasEntry(R, m) <=> hasEntry(d, m)) /\ entry(R, m) = entry(d, m)
  <2>1. R.id[m] = d.id[m]
    BY <1>2, <1>3
  <2>2. d.id[m] # id
    BY <1>3 DEF NoId
  <2> QED BY <1>2, <1>4, <2>1, <2>2 DEF hasEntry, entry
<1> QED BY <1>7, <1>8, <1>9 DEF Becomes

LEMMA DiscardIs ==
    ASSUME NEW d, DataOk(d), NEW n \in Nodes
    PROVE  Becomes(discard(d, n), d, n, FALSE, NewEntry)
<1>1. CASE ~hasEntry(d, n)
  <2>1. discard(d, n) = d
    BY <1>1 DEF discard
  <2> QED BY <1>1, <2>1, HasIs DEF Becomes
<1>2. CASE hasEntry(d, n)
  <2> DEFINE R == discard(d, n)
             id == d.id[n]
             ids == [d.id EXCEPT ![n] = NoId]
             cache == [i \in DOMAIN d.cache \ {id} |-> d.cache[i]]
             del == Append(d.deleted, id)
  <2>1. R.id = ids /\ R.deleted = del /\ R.guid = d.guid /\ R.cache = cache /\ Shaped(R)
    <3>1. R = [d EXCEPT !.id = ids, !.cache = cache, !.deleted = del]
      BY <1>2 DEF discard
    <3> HIDE DEF R, ids, cache, del
    <3>2. R = [id |-> ids, cache |-> cache, deleted |-> del, guid |-> d.guid]
      BY <3>1 DEF Shaped, DataOk, IdsOk
    <3> QED BY <3>2 DEF Shaped
  <2> SUFFICES Becomes(R, d, n, FALSE, NewEntry)
    BY <1>2
  <2> HIDE DEF R
  <2>2. id \in 1..Depth /\ id # NoId /\ UsedId(d, id)
    BY <1>2, HasIs DEF NoId, UsedId
  <2>3. /\ d.id \in [Nodes -> 0..Depth] /\ d.deleted \in Seq(1..Depth) /\ d.guid \in 1..(Depth + 1)
        /\ Depth \in Nat
    BY EventsAssumption DEF DataOk, IdsOk
  <2>4. /\ R.id[n] = NoId /\ \A m \in Nodes \ {n} : R.id[m] = d.id[m] /\ d.id[m] # id
        /\ R.id \in [Nodes -> 0..Depth]
    <3>1. \A m \in Nodes \ {n} : d.id[m] # id
      BY <2>2 DEF DataOk, IdsOk
    <3> QED BY <2>1, <2>3, <3>1 DEF NoId
  <2> DEFINE k == Len(d.deleted)
  <2>5. /\ R.deleted \in Seq(1..Depth) /\ DOMAIN R.deleted = 1..(k + 1) /\ DOMAIN d.deleted = 1..k
        /\ R.deleted[k + 1] = id /\ \A i \in 1..k : R.deleted[i] = d.deleted[i]
        /\ k \in Nat
    BY <2>1, <2>2, <2>3
  <2> HIDE DEF ids, del, k
  <2>6. \A i \in 1..Depth : UsedId(R, i) <=> UsedId(d, i) /\ i # id
    BY <2>2, <2>4 DEF UsedId, NoId
  <2>7. \A i \in 1..Depth : FreeId(R, i) <=> FreeId(d, i) \/ i = id
    <3>1. \A i \in 1..(k + 1) : i \in 1..k \/ i = k + 1
      BY <2>5
    <3>2. \A i \in 1..k : i \in 1..(k + 1) /\ k + 1 \in 1..(k + 1)
      BY <2>5
    <3>3. k + 1 \in 1..(k + 1)
      BY <2>5
    <3> QED BY <2>5, <3>1, <3>2, <3>3 DEF FreeId
  <2>8. IdsOk(R)
    <3>1. \A m, p \in Nodes : R.id[m] = R.id[p] /\ R.id[m] # NoId => m = p
      BY <2>4 DEF DataOk, IdsOk
    <3>2. \A i, j \in DOMAIN R.deleted : R.deleted[i] = R.deleted[j] => i = j
      <4>1. \A i \in 1..k : d.deleted[i] # id
        BY <2>2, <2>5 DEF DataOk, IdsOk, FreeId
      <4>2. \A i \in 1..(k + 1) : i \in 1..k \/ i = k + 1
        BY <2>5
      <4>3. \A i, j \in 1..k : d.deleted[i] = d.deleted[j] => i = j
        BY <2>5 DEF DataOk, IdsOk
      <4> QED BY <2>5, <4>1, <4>2, <4>3
    <3>3. \A i \in 1..Depth : i < R.guid <=> UsedId(R, i) \/ FreeId(R, i)
      BY <2>1, <2>2, <2>6, <2>7 DEF DataOk, IdsOk
    <3>4. \A i \in 1..Depth : ~(UsedId(R, i) /\ FreeId(R, i))
      BY <2>6, <2>7 DEF DataOk, IdsOk
    <3> QED BY <2>1, <2>3, <2>4, <2>5, <3>1, <3>2, <3>3, <3>4 DEF IdsOk
  <2>9. DataOk(R)
    <3>1. DOMAIN R.cache = {i \in 1..Depth : UsedId(R, i)}
      BY <2>1, <2>6 DEF DataOk
    <3>2. \A i \in DOMAIN R.cache : R.cache[i] = d.cache[i] /\ i \in DOMAIN d.cache
      BY <2>1
    <3>3. R.cache = [i \in DOMAIN R.cache |-> R.cache[i]]
      BY <2>1
    <3> QED BY <2>8, <3>1, <3>2, <3>3 DEF DataOk
  <2>10. ~hasEntry(R, n) /\ entry(R, n) = NewEntry
    BY <2>4, <2>9, HasIs
  <2>11. ASSUME NEW m \in Nodes \ {n}
         PROVE  (hasEntry(R, m) <=> hasEntry(d, m)) /\ entry(R, m) = entry(d, m)
    BY <2>1, <2>4 DEF hasEntry, entry
  <2> QED BY <2>9, <2>10, <2>11 DEF Becomes
<1> QED BY <1>1, <1>2

LEMMA RemoveDataIs ==
    ASSUME NEW d, DataOk(d), NEW n \in Nodes, NEW e \in EntryRecords
    PROVE  /\ hasEntry(d, n) => Becomes(internalRemoveData(d, n, e), d, n, e # NewEntry, e)
           /\ ~hasEntry(d, n) => internalRemoveData(d, n, e) = d
<1>1. CASE ~hasEntry(d, n)
  BY <1>1 DEF internalRemoveData
<1>2. CASE hasEntry(d, n) /\ e = NewEntry
  BY <1>2, DiscardIs DEF internalRemoveData, isEmptyDataObject, Becomes
<1>3. CASE hasEntry(d, n) /\ e # NewEntry
  BY <1>3, DataPutIs DEF internalRemoveData, isEmptyDataObject, Becomes
<1> QED BY <1>1, <1>2, <1>3

\* What is chosen of the first k of a sequence.
ChosenOf(f, s, I, k) ==
    f = [i \in 0..k |-> IF i = 0 THEN <<>> ELSE IF i \in I THEN Append(f[i - 1], s[i]) ELSE f[i - 1]]

LEMMA ChosenExist ==
    ASSUME NEW s, NEW I, NEW k \in Nat
    PROVE  \E f : ChosenOf(f, s, I, k)
<1> DEFINE Q == {n \in 0..k : \E f : ChosenOf(f, s, I, n)}
<1>1. 0 \in Q
  <2> DEFINE z == [i \in 0..0 |-> <<>>]
  <2>1. z = [i \in 0..0 |-> IF i = 0 THEN <<>> ELSE IF i \in I THEN Append(z[i - 1], s[i]) ELSE z[i - 1]]
    OBVIOUS
  <2> HIDE DEF z
  <2> QED BY <2>1 DEF ChosenOf
<1>2. ASSUME NEW n \in 1..k, n - 1 \in Q
      PROVE  n \in Q
  <2>1. PICK f : ChosenOf(f, s, I, n - 1)
    BY <1>2
  <2> DEFINE g == [i \in 0..n |-> IF i = n THEN IF n \in I THEN Append(f[n - 1], s[n]) ELSE f[n - 1] ELSE f[i]]
  <2>2. ASSUME NEW i \in 0..n
        PROVE  g[i] = IF i = 0 THEN <<>> ELSE IF i \in I THEN Append(g[i - 1], s[i]) ELSE g[i - 1]
    <3>1. CASE i = n
      BY <3>1
    <3>2. CASE i # n
      <4>1. i \in 0..(n - 1) /\ g[i] = f[i] /\ (i # 0 => g[i - 1] = f[i - 1])
        BY <3>2
      <4>2. f[i] = IF i = 0 THEN <<>> ELSE IF i \in I THEN Append(f[i - 1], s[i]) ELSE f[i - 1]
        BY <2>1, <4>1 DEF ChosenOf
      <4> QED BY <4>1, <4>2
    <3> QED BY <3>1, <3>2
  <2>3. g = [i \in 0..n |-> g[i]]
    OBVIOUS
  <2> HIDE DEF g
  <2>4. ChosenOf(g, s, I, n)
    BY <2>2, <2>3 DEF ChosenOf
  <2> QED BY <2>4
<1> HIDE DEF Q
<1>3. k \in Q
  BY <1>1, <1>2, UpTo
<1> QED BY <1>3 DEF Q

\* c is s at the positions I up to k, where p tells where each is from.
Picks(c, s, I, k, p) ==
    /\ p \in [DOMAIN c -> 1..k]
    /\ \A a \in DOMAIN c : p[a] \in I /\ c[a] = s[p[a]]
    /\ \A a, b \in DOMAIN c : a < b => p[a] < p[b]
    /\ \A i \in 1..k : i \in I => \E a \in DOMAIN c : p[a] = i

LEMMA ChosenIs ==
    ASSUME NEW T, NEW s \in Seq(T), NEW I
    PROVE  chosen(s, I) \in Seq(T) /\ \E p : Picks(chosen(s, I), s, I, Len(s), p)
<1> DEFINE f == CHOOSE g : g = [i \in 0..Len(s) |-> IF i = 0 THEN <<>> ELSE IF i \in I THEN Append(g[i - 1], s[i]) ELSE g[i - 1]]
           k == Len(s)
<1>1. k \in Nat
  OBVIOUS
<1>2. \E g : g = [i \in 0..Len(s) |-> IF i = 0 THEN <<>> ELSE IF i \in I THEN Append(g[i - 1], s[i]) ELSE g[i - 1]]
  <2>1. \E g : ChosenOf(g, s, I, Len(s))
    BY <1>1, ChosenExist
  <2> QED BY <2>1 DEF ChosenOf
<1>3. f = [i \in 0..Len(s) |-> IF i = 0 THEN <<>> ELSE IF i \in I THEN Append(f[i - 1], s[i]) ELSE f[i - 1]]
  BY <1>2
<1>4. chosen(s, I) = f[k]
  BY DEF chosen
<1> HIDE DEF f
<1>5. \A i \in 0..k : f[i] = IF i = 0 THEN <<>> ELSE IF i \in I THEN Append(f[i - 1], s[i]) ELSE f[i - 1]
  BY <1>3
<1> DEFINE Q == {i \in 0..k : f[i] \in Seq(T) /\ \E p : Picks(f[i], s, I, i, p)}
<1>6. 0 \in Q
  <2>1. f[0] = <<>> /\ 0 \in 0..k
    BY <1>1, <1>5
  <2>2. Picks(<<>>, s, I, 0, [a \in {} |-> 0])
    <3>1. DOMAIN <<>> = {} /\ 1..0 = {} /\ [a \in {} |-> 0] \in [{} -> 1..0]
      OBVIOUS
    <3> QED BY <3>1 DEF Picks
  <2>3. \E p : Picks(f[0], s, I, 0, p)
    BY <2>1, <2>2
  <2>4. f[0] \in Seq(T)
    BY <2>1, EmptySeq
  <2> QED BY <2>1, <2>3, <2>4
<1>7. ASSUME NEW n \in 1..k, n - 1 \in Q
      PROVE  n \in Q
  <2> DEFINE c == f[n - 1]
             L == Len(c)
  <2>1. PICK p : Picks(c, s, I, n - 1, p)
    BY <1>7
  <2>2. c \in Seq(T) /\ L \in Nat /\ DOMAIN c = 1..L
    BY <1>7
  <2>3. f[n] = IF n \in I THEN Append(c, s[n]) ELSE c
    <3>1. n \in 0..k /\ n # 0
      BY <1>1
    <3> QED BY <1>5, <3>1
  <2>4. n \in Nat /\ n > 0 /\ s[n] \in T /\ n \in 0..k
    BY <1>1
  <2> HIDE DEF c, L
  <2>5. CASE n \notin I
    <3>1. Picks(c, s, I, n, p)
      <4>1. p \in [DOMAIN c -> 1..n]
        BY <2>1, <2>4 DEF Picks
      <4>2. \A i \in 1..n : i \in I => i \in 1..(n - 1)
        BY <2>4, <2>5
      <4> QED BY <2>1, <4>1, <4>2 DEF Picks
    <3>2. f[n] = c
      BY <2>3, <2>5
    <3> QED BY <2>2, <2>4, <3>1, <3>2
  <2>6. CASE n \in I
    <3> DEFINE d == Append(c, s[n])
               q == [a \in 1..(L + 1) |-> IF a = L + 1 THEN n ELSE p[a]]
    <3>1. /\ d \in Seq(T) /\ DOMAIN d = 1..(L + 1) /\ d[L + 1] = s[n]
          /\ \A a \in 1..L : d[a] = c[a]
      <4>1. /\ d \in Seq(T) /\ Len(d) = Len(c) + 1 /\ d[Len(c) + 1] = s[n]
            /\ \A a \in 1..Len(c) : d[a] = c[a]
        BY ONLY <2>2, <2>4, AppendProperties
      <4>2. L = Len(c)
        BY DEF L
      <4> HIDE DEF d
      <4> QED BY ONLY <4>1, <4>2
    <3>2. \A a \in 1..(L + 1) : a \in 1..L \/ a = L + 1
      BY <2>2
    <3>3. \A a \in 1..L : q[a] = p[a] /\ p[a] \in 1..(n - 1) /\ p[a] \in I /\ c[a] = s[p[a]] /\ a \in 1..(L + 1)
      <4>1. \A a \in 1..L : a \in 1..(L + 1) /\ q[a] = p[a]
        BY ONLY <2>2
      <4>2. p \in [1..L -> 1..(n - 1)] /\ \A a \in 1..L : p[a] \in I /\ c[a] = s[p[a]]
        BY ONLY <2>1, <2>2 DEF Picks
      <4> HIDE DEF q, d
      <4> QED BY ONLY <4>1, <4>2
    <3>4. q[L + 1] = n /\ L + 1 \in 1..(L + 1) /\ DOMAIN q = 1..(L + 1)
      BY <2>2
    <3>5. q = [a \in 1..(L + 1) |-> q[a]]
      OBVIOUS
    <3> HIDE DEF d, q
    <3>6. q \in [DOMAIN d -> 1..n]
      <4>1. \A a \in 1..(L + 1) : q[a] \in 1..n
        BY <2>4, <3>2, <3>3, <3>4
      <4> QED BY <3>1, <3>5, <4>1
    <3>7. \A a \in DOMAIN d : q[a] \in I /\ d[a] = s[q[a]]
      BY <2>6, <3>1, <3>2, <3>3, <3>4
    <3>8. \A a, b \in DOMAIN d : a < b => q[a] < q[b]
      <4> SUFFICES ASSUME NEW a \in 1..(L + 1), NEW b \in 1..(L + 1), a < b PROVE q[a] < q[b]
        BY <3>1
      <4>1. a \in 1..L
        BY <2>2
      <4>2. CASE b = L + 1
        BY <2>4, <3>3, <3>4, <4>1, <4>2
      <4>3. CASE b \in 1..L
        <5>1. p[a] < p[b]
          BY <2>1, <2>2, <4>1, <4>3 DEF Picks
        <5> QED BY <3>3, <4>1, <4>3, <5>1
      <4> QED BY <3>2, <4>2, <4>3
    <3>9. \A i \in 1..n : i \in I => \E a \in DOMAIN d : q[a] = i
      <4> SUFFICES ASSUME NEW i \in 1..n, i \in I PROVE \E a \in DOMAIN d : q[a] = i
        OBVIOUS
      <4>1. CASE i = n
        BY <3>1, <3>4, <4>1
      <4>2. CASE i # n
        <5>1. i \in 1..(n - 1)
          BY <2>4, <4>2
        <5>2. PICK a \in 1..L : p[a] = i
          BY <2>1, <2>2, <5>1 DEF Picks
        <5> QED BY <3>1, <3>3, <5>2
      <4> QED BY <4>1, <4>2
    <3>10. Picks(d, s, I, n, q)
      BY <3>6, <3>7, <3>8, <3>9 DEF Picks
    <3>11. f[n] = d
      BY <2>3, <2>6 DEF d
    <3> QED BY <2>4, <3>1, <3>10, <3>11
  <2> QED BY <2>5, <2>6
<1> HIDE DEF Q
<1> HIDE DEF k
<1>8. \A i \in 0..k : i \in Q
  BY ONLY <1>1, <1>6, <1>7, UpTo
<1> QED BY <1>1, <1>4, <1>8 DEF Q, k

\* Those for what is inside come first.
First(s) == \A i, j \in DOMAIN s : i < j /\ s[j].selector # NoSelector => s[i].selector # NoSelector
Distinct(s) == \A i, j \in DOMAIN s : s[i].number = s[j].number => i = j

LEMMA WithoutIs ==
    ASSUME NEW s \in Seq(HandleObjs), NEW gone, First(s), Distinct(s)
    PROVE  /\ without(s, gone) \in Seq(HandleObjs) /\ First(without(s, gone)) /\ Distinct(without(s, gone))
           /\ \A i \in DOMAIN without(s, gone) :
                /\ without(s, gone)[i].number \notin gone
                /\ \E j \in DOMAIN s : without(s, gone)[i] = s[j]
           /\ \A j \in DOMAIN s : s[j].number \notin gone =>
                \E i \in DOMAIN without(s, gone) : without(s, gone)[i] = s[j]
<1> DEFINE I == {i \in DOMAIN s : s[i].number \notin gone}
           c == without(s, gone)
<1>1. c = chosen(s, I)
  BY DEF without
<1>2. DOMAIN s = 1..Len(s)
  OBVIOUS
<1> HIDE DEF c
<1>3. c \in Seq(HandleObjs) /\ \E p : Picks(c, s, I, Len(s), p)
  BY <1>1, ChosenIs
<1>4. PICK p : Picks(c, s, I, Len(s), p)
  BY <1>3
<1>5. /\ \A a \in DOMAIN c : p[a] \in DOMAIN s /\ p[a] \in I /\ c[a] = s[p[a]]
      /\ \A a, b \in DOMAIN c : a < b => p[a] < p[b]
      /\ \A i \in DOMAIN s : i \in I => \E a \in DOMAIN c : p[a] = i
  BY <1>2, <1>4 DEF Picks
<1>6. First(c)
  BY <1>5 DEF First
<1>7. Distinct(c)
  <2> SUFFICES ASSUME NEW a \in DOMAIN c, NEW b \in DOMAIN c, c[a].number = c[b].number PROVE a = b
    BY DEF Distinct
  <2>1. p[a] = p[b]
    BY <1>5 DEF Distinct
  <2>2. a \in Nat /\ b \in Nat /\ p[a] \in Nat
    BY <1>2, <1>3, <1>5
  <2>3. ~(a < b) /\ ~(b < a)
    BY <1>5, <2>1, <2>2
  <2> QED BY <2>2, <2>3
<1> QED BY <1>3, <1>5, <1>6, <1>7 DEF c

\* Where those for what is inside end.
LEMMA CountIs ==
    ASSUME NEW s \in Seq(HandleObjs), First(s)
    PROVE  /\ delegateCount(s) \in 0..Len(s)
           /\ \A i \in DOMAIN s : s[i].selector # NoSelector <=> i <= delegateCount(s)
<1> DEFINE L == Len(s)
           X == {i \in DOMAIN s : s[i].selector # NoSelector}
           rest0 == {i \in 1..(L + 1) : i \notin X}
<1>1. L \in Nat /\ DOMAIN s = 1..L /\ X \subseteq 1..L
  OBVIOUS
<1>2. L + 1 \in rest0 /\ rest0 \in SUBSET Nat
  BY <1>1
<1>3. PICK m \in rest0 : \A y \in rest0 : m <= y
  BY <1>2, LeastNat
<1>4. m \in 1..(L + 1) /\ m - 1 \in 0..L
  BY <1>1
<1>5. \A i \in DOMAIN s : i \in X <=> i \in 1..(m - 1)
  <2> SUFFICES ASSUME NEW i \in 1..L PROVE i \in X <=> i < m
    BY <1>1, <1>4
  <2>1. CASE i < m
    <3>1. i \notin rest0
      BY <1>1, <1>3, <1>4, <2>1
    <3> QED BY <1>1, <2>1, <3>1
  <2>2. CASE ~(i < m)
    <3>1. m \in 1..L /\ m \notin X
      BY <1>1, <1>4, <2>2
    <3>2. m = i \/ m < i
      BY <1>4, <2>2
    <3> QED BY <1>1, <2>2, <3>1, <3>2 DEF First
  <2> QED BY <2>1, <2>2
<1>6. X = 1..(m - 1)
  BY <1>1, <1>4, <1>5
<1>7. Cardinality(X) = m - 1
  <2> HIDE DEF X
  <2>1. Cardinality(1..(m - 1)) = IF 1 > m - 1 THEN 0 ELSE (m - 1) - 1 + 1
    BY <1>1, <1>4, FS_Interval
  <2> QED BY <1>1, <1>4, <1>6, <2>1
<1>8. delegateCount(s) = m - 1
  BY <1>7 DEF delegateCount
<1> QED BY <1>1, <1>4, <1>5, <1>8

\* r is s with h after the first k.
InsertedAt(r, s, h, k) ==
    /\ DOMAIN r = 1..(Len(s) + 1)
    /\ \A i \in 1..(Len(s) + 1) : r[i] = IF i <= k THEN s[i] ELSE IF i = k + 1 THEN h ELSE s[i - 1]

LEMMA InsertedIs ==
    ASSUME NEW s \in Seq(HandleObjs), First(s), NEW h \in HandleObjs
    PROVE  \E k \in 0..Len(s) :
             /\ InsertedAt(insert(s, h), s, h, k)
             /\ insert(s, h) \in Seq(HandleObjs)
             /\ h.selector = NoSelector => k = Len(s)
             /\ h.selector # NoSelector => k = delegateCount(s)
<1> DEFINE L == Len(s)
           c == delegateCount(s)
<1>1. L \in Nat /\ c \in 0..L /\ DOMAIN s = 1..L
  BY CountIs
<1>2. CASE h.selector = NoSelector
  <2>1. insert(s, h) = Append(s, h)
    BY <1>2 DEF insert
  <2> DEFINE r == Append(s, h)
  <2>2. r \in Seq(HandleObjs) /\ DOMAIN r = 1..(L + 1) /\ r[L + 1] = h /\ \A i \in 1..L : r[i] = s[i]
    <3>1. r \in Seq(HandleObjs) /\ Len(r) = L + 1 /\ r[L + 1] = h /\ \A i \in 1..L : r[i] = s[i]
      BY ONLY s \in Seq(HandleObjs), h \in HandleObjs, AppendProperties
    <3> HIDE DEF r, L
    <3> QED BY ONLY <3>1
  <2> HIDE DEF r
  <2>3. InsertedAt(r, s, h, L)
    BY <1>1, <2>2 DEF InsertedAt
  <2>4. InsertedAt(insert(s, h), s, h, L) /\ insert(s, h) \in Seq(HandleObjs) /\ L \in 0..Len(s)
    <3>1. insert(s, h) = r /\ L \in 0..Len(s)
      BY <1>1, <2>1 DEF r
    <3> QED BY ONLY <2>2, <2>3, <3>1
  <2> HIDE DEF L, c
  <2> QED BY <1>2, <2>4 DEF L
<1>3. CASE h.selector # NoSelector
  <2> DEFINE a == SubSeq(s, 1, c)
             b == SubSeq(s, c + 1, L)
             r == a \o <<h>> \o b
  <2>1. insert(s, h) = r
    BY <1>3 DEF insert
  <2>2. a \in Seq(HandleObjs) /\ Len(a) = c /\ \A i \in 1..c : a[i] = s[i]
    <3>1. \A i \in 1..c : s[i] \in HandleObjs
      BY <1>1
    <3>2. c \in Int /\ \A i \in 1..(c - 1 + 1) : 1 + i - 1 = i /\ i \in 1..c
      BY <1>1
    <3> HIDE DEF c
    <3>3. a \in Seq(HandleObjs) /\ Len(a) = (IF 1 <= c THEN c - 1 + 1 ELSE 0)
          /\ \A i \in 1..(c - 1 + 1) : a[i] = s[1 + i - 1]
      BY <3>1, <3>2, SubSeqProperties
    <3> QED BY <1>1, <3>2, <3>3
  <2>3. b \in Seq(HandleObjs) /\ Len(b) = L - c /\ \A i \in 1..(L - c) : b[i] = s[c + i]
    <3>1. \A i \in (c + 1)..L : s[i] \in HandleObjs
      BY <1>1
    <3>2. c + 1 \in Int /\ L \in Int /\ L - (c + 1) + 1 = L - c /\ \A i \in 1..(L - c) : (c + 1) + i - 1 = c + i
      BY <1>1
    <3> HIDE DEF c, L
    <3>3. b \in Seq(HandleObjs) /\ Len(b) = (IF c + 1 <= L THEN L - (c + 1) + 1 ELSE 0)
          /\ \A i \in 1..(L - (c + 1) + 1) : b[i] = s[(c + 1) + i - 1]
      BY <3>1, <3>2, SubSeqProperties
    <3> QED BY <1>1, <3>2, <3>3
  <2> DEFINE ah == a \o <<h>>
  <2>4. ah \in Seq(HandleObjs) /\ Len(ah) = c + 1 /\ ah[c + 1] = h /\ \A i \in 1..c : ah[i] = s[i]
    <3>1. <<h>> \in Seq(HandleObjs) /\ Len(<<h>>) = 1 /\ <<h>>[1] = h
      OBVIOUS
    <3> HIDE DEF a, c
    <3>2. ah \in Seq(HandleObjs) /\ Len(ah) = Len(a) + 1
          /\ \A i \in 1..(Len(a) + 1) : ah[i] = IF i <= Len(a) THEN a[i] ELSE <<h>>[i - Len(a)]
      BY <2>2, <3>1, ConcatProperties
    <3>3. c \in Nat /\ \A i \in 1..c : i \in 1..(c + 1) /\ i <= c
      BY <1>1
    <3>4. ah[c + 1] = h
      BY <2>2, <3>1, <3>2, <3>3
    <3> QED BY <2>2, <3>2, <3>3, <3>4
  <2> HIDE DEF a, b, ah
  <2>5. r \in Seq(HandleObjs) /\ Len(r) = Len(ah) + Len(b)
        /\ \A i \in 1..(Len(ah) + Len(b)) : r[i] = IF i <= Len(ah) THEN ah[i] ELSE b[i - Len(ah)]
    <3>1. r = ah \o b
      BY DEF ah
    <3> HIDE DEF r
    <3> QED BY <2>3, <2>4, <3>1, ConcatProperties
  <2> HIDE DEF r, c
  <2>6. Len(r) = L + 1 /\ DOMAIN r = 1..(L + 1)
    BY <1>1, <2>3, <2>4, <2>5
  <2>7. ASSUME NEW i \in 1..(L + 1)
        PROVE  r[i] = IF i <= c THEN s[i] ELSE IF i = c + 1 THEN h ELSE s[i - 1]
    <3>1. r[i] = IF i <= c + 1 THEN ah[i] ELSE b[i - (c + 1)]
      BY <1>1, <2>3, <2>4, <2>5
    <3>2. CASE i <= c
      BY <1>1, <2>4, <3>1, <3>2
    <3>3. CASE i = c + 1
      BY <1>1, <2>4, <3>1, <3>3
    <3>4. CASE i > c + 1
      <4>1. i - (c + 1) \in 1..(L - c) /\ c + (i - (c + 1)) = i - 1
        BY <1>1, <3>4
      <4> QED BY <1>1, <2>3, <3>1, <3>4, <4>1
    <3> QED BY <1>1, <3>2, <3>3, <3>4
  <2>8. InsertedAt(r, s, h, c)
    BY <2>6, <2>7 DEF InsertedAt
  <2> QED BY <1>1, <1>3, <2>1, <2>5, <2>8 DEF c
<1> QED BY <1>2, <1>3

LEMMA InsertIs ==
    ASSUME NEW s \in Seq(HandleObjs), First(s), Distinct(s), NEW h \in HandleObjs,
           \A i \in DOMAIN s : s[i].number # h.number
    PROVE  /\ insert(s, h) \in Seq(HandleObjs) /\ insert(s, h) # <<>>
           /\ First(insert(s, h)) /\ Distinct(insert(s, h))
           /\ \A i \in DOMAIN insert(s, h) : insert(s, h)[i] = h \/ \E j \in DOMAIN s : insert(s, h)[i] = s[j]
           /\ \A j \in DOMAIN s : \E i \in DOMAIN insert(s, h) : insert(s, h)[i] = s[j]
<1> DEFINE r == insert(s, h)
           L == Len(s)
<1>1. PICK k \in 0..L : /\ InsertedAt(r, s, h, k) /\ r \in Seq(HandleObjs)
                        /\ h.selector = NoSelector => k = L
                        /\ h.selector # NoSelector => k = delegateCount(s)
  BY InsertedIs
<1>2. L \in Nat /\ DOMAIN s = 1..L /\ k \in 0..L
  OBVIOUS
<1> HIDE DEF r
<1>3. /\ DOMAIN r = 1..(L + 1)
      /\ \A i \in 1..k : r[i] = s[i] /\ i \in 1..L
      /\ r[k + 1] = h /\ k + 1 \in 1..(L + 1)
      /\ \A i \in (k + 2)..(L + 1) : r[i] = s[i - 1] /\ i - 1 \in 1..L
  <2> HIDE DEF L
  <2>1. /\ DOMAIN r = 1..(L + 1)
        /\ \A i \in 1..(L + 1) : r[i] = IF i <= k THEN s[i] ELSE IF i = k + 1 THEN h ELSE s[i - 1]
    BY <1>1 DEF InsertedAt, L
  <2>2. \A i \in 1..k : i \in 1..L /\ i \in 1..(L + 1) /\ i <= k
    BY <1>2
  <2>3. k + 1 \in 1..(L + 1) /\ ~(k + 1 <= k)
    BY <1>2
  <2>4. \A i \in (k + 2)..(L + 1) : i \in 1..(L + 1) /\ ~(i <= k) /\ i # k + 1 /\ i - 1 \in 1..L
    BY <1>2
  <2> QED BY <2>1, <2>2, <2>3, <2>4
<1>4. \A i \in 1..(L + 1) : i \in 1..k \/ i = k + 1 \/ i \in (k + 2)..(L + 1)
  BY <1>2
<1> HIDE DEF L
<1>5. \A i \in DOMAIN r : r[i] = h \/ \E j \in DOMAIN s : r[i] = s[j]
  BY <1>2, <1>3, <1>4
<1>6. \A j \in DOMAIN s : \E i \in DOMAIN r : r[i] = s[j]
  <2> SUFFICES ASSUME NEW j \in 1..L PROVE \E i \in 1..(L + 1) : r[i] = s[j]
    BY <1>2, <1>3
  <2>1. CASE j <= k
    <3>1. j \in 1..k /\ j \in 1..(L + 1)
      BY <1>2, <2>1
    <3> QED BY <1>3, <3>1
  <2>2. CASE ~(j <= k)
    <3>1. j + 1 \in (k + 2)..(L + 1) /\ j + 1 - 1 = j /\ j + 1 \in 1..(L + 1)
      BY <1>2, <2>2
    <3>2. r[j + 1] = s[j]
      BY <1>3, <3>1
    <3> QED BY <3>1, <3>2
  <2> QED BY <2>1, <2>2
<1>7. Distinct(r)
  <2> SUFFICES ASSUME NEW i \in 1..(L + 1), NEW j \in 1..(L + 1), i < j PROVE r[i].number # r[j].number
    BY <1>2, <1>3 DEF Distinct
  <2>1. \A a, b \in 1..L : a # b => s[a].number # s[b].number
    BY <1>2 DEF Distinct
  <2>2. \A a \in 1..L : s[a].number # h.number
    BY <1>2
  <2>3. CASE i \in 1..k /\ j \in 1..k
    BY <1>3, <2>1, <2>3
  <2>4. CASE i = k + 1 \/ j = k + 1
    <3>1. i = k + 1 => j \in (k + 2)..(L + 1)
      BY <1>2
    <3>2. j = k + 1 => i \in 1..k
      BY <1>2
    <3> QED BY <1>3, <2>2, <2>4, <3>1, <3>2
  <2>5. CASE i \in 1..k /\ j \in (k + 2)..(L + 1)
    <3>1. i # j - 1
      BY <1>2, <2>5
    <3> QED BY <1>3, <2>1, <2>5, <3>1
  <2>6. CASE i \in (k + 2)..(L + 1) /\ j \in (k + 2)..(L + 1)
    <3>1. i - 1 # j - 1
      BY <1>2
    <3> QED BY <1>3, <2>1, <2>6, <3>1
  <2>7. ~(i \in (k + 2)..(L + 1) /\ j \in 1..k)
    BY <1>2
  <2> QED BY <1>4, <2>3, <2>4, <2>5, <2>6, <2>7
<1>8. First(r)
  <2> SUFFICES ASSUME NEW i \in 1..(L + 1), NEW j \in 1..(L + 1), i < j, r[j].selector # NoSelector
               PROVE  r[i].selector # NoSelector
    BY <1>3 DEF First
  <2>1. \A a \in 1..L : s[a].selector # NoSelector <=> a <= delegateCount(s)
    BY <1>2, CountIs
  <2>2. \A a, b \in 1..L : a < b /\ s[b].selector # NoSelector => s[a].selector # NoSelector
    BY <1>2 DEF First
  <2>3. CASE h.selector = NoSelector
    <3>1. k = L /\ j # k + 1
      BY <1>1, <1>3, <2>3 DEF L
    <3>2. i \in 1..k /\ j \in 1..k
      BY <1>2, <3>1
    <3> QED BY <1>3, <2>2, <3>2
  <2>4. CASE h.selector # NoSelector
    <3>1. k = delegateCount(s)
      BY <1>1, <2>4
    <3>2. j \in 1..k \/ j = k + 1
      <4>1. ASSUME j \in (k + 2)..(L + 1) PROVE FALSE
        <5>1. s[j - 1].selector # NoSelector /\ j - 1 \in 1..L /\ ~(j - 1 <= k)
          BY <1>2, <1>3, <4>1
        <5> QED BY <2>1, <3>1, <5>1
      <4> QED BY <1>4, <4>1
    <3>3. i \in 1..k /\ i <= k
      BY <1>2, <3>2
    <3> QED BY <1>3, <2>1, <3>1, <3>3
  <2> QED BY <2>3, <2>4
<1>9. r # <<>>
  BY <1>2, <1>3
<1> QED BY <1>1, <1>5, <1>6, <1>7, <1>8, <1>9 DEF r

\* What is gathered from the pieces of those in A.
Gathers(f, A, p, k) ==
    f = [m \in 0..k |-> IF m = 0 THEN <<>> ELSE IF m \in A THEN f[m - 1] \o p[m] ELSE f[m - 1]]

LEMMA GathersExist ==
    ASSUME NEW A, NEW p, NEW k \in Nat
    PROVE  \E f : Gathers(f, A, p, k)
<1> DEFINE Q == {n \in 0..k : \E f : Gathers(f, A, p, n)}
<1>1. 0 \in Q
  <2> DEFINE z == [i \in 0..0 |-> <<>>]
  <2>1. z = [i \in 0..0 |-> IF i = 0 THEN <<>> ELSE IF i \in A THEN z[i - 1] \o p[i] ELSE z[i - 1]]
    OBVIOUS
  <2> HIDE DEF z
  <2> QED BY <2>1 DEF Gathers
<1>2. ASSUME NEW n \in 1..k, n - 1 \in Q
      PROVE  n \in Q
  <2>1. PICK f : Gathers(f, A, p, n - 1)
    BY <1>2
  <2> DEFINE g == [i \in 0..n |-> IF i = n THEN IF n \in A THEN f[n - 1] \o p[n] ELSE f[n - 1] ELSE f[i]]
  <2>2. ASSUME NEW i \in 0..n
        PROVE  g[i] = IF i = 0 THEN <<>> ELSE IF i \in A THEN g[i - 1] \o p[i] ELSE g[i - 1]
    <3>1. CASE i = n
      BY <3>1
    <3>2. CASE i # n
      <4>1. i \in 0..(n - 1) /\ g[i] = f[i] /\ (i # 0 => g[i - 1] = f[i - 1])
        BY <3>2
      <4>2. f[i] = IF i = 0 THEN <<>> ELSE IF i \in A THEN f[i - 1] \o p[i] ELSE f[i - 1]
        BY <2>1, <4>1 DEF Gathers
      <4> QED BY <4>1, <4>2
    <3> QED BY <3>1, <3>2
  <2>3. g = [i \in 0..n |-> g[i]]
    OBVIOUS
  <2> HIDE DEF g
  <2>4. Gathers(g, A, p, n)
    BY <2>2, <2>3 DEF Gathers
  <2> QED BY <2>4
<1> HIDE DEF Q
<1>3. k \in Q
  BY <1>1, <1>2, UpTo
<1> QED BY <1>3 DEF Q

LEMMA GathersIn ==
    ASSUME NEW A, NEW p, NEW k \in Nat, NEW f, Gathers(f, A, p, k),
           NEW SM, <<>> \in SM, \A x, y \in SM : x \o y \in SM, \A m \in 1..k : p[m] \in SM
    PROVE  f[k] \in SM
<1> DEFINE Q == {i \in 0..k : f[i] \in SM}
<1>1. \A i \in 0..k : f[i] = IF i = 0 THEN <<>> ELSE IF i \in A THEN f[i - 1] \o p[i] ELSE f[i - 1]
  BY DEF Gathers
<1>2. 0 \in Q
  <2>1. f[0] = <<>> /\ 0 \in 0..k
    BY <1>1
  <2> QED BY <2>1
<1>3. ASSUME NEW n \in 1..k, n - 1 \in Q
      PROVE  n \in Q
  <2>1. f[n] = IF n \in A THEN f[n - 1] \o p[n] ELSE f[n - 1]
    BY <1>1
  <2>2. f[n - 1] \in SM /\ p[n] \in SM /\ n \in 0..k
    BY <1>3
  <2> QED BY <2>1, <2>2
<1> HIDE DEF Q
<1>4. k \in Q
  <2>1. \A i \in 1..k : i - 1 \in Q => i \in Q
    BY ONLY <1>3
  <2>2. \A i \in 0..k : i \in Q
    BY ONLY <1>2, <2>1, k \in Nat, UpTo
  <2> QED BY <2>2
<1> QED BY <1>4 DEF Q

LEMMA HandlersIs ==
    ASSUME NEW n \in Nodes, NEW f, bound(n, f.type) \in Seq(HandleObjs), First(bound(n, f.type))
    PROVE  handlers(f, n) \in Seq({q \in Matched : \E i \in DOMAIN bound(n, f.type) : q.h = bound(n, f.type)[i]})
<1> DEFINE s == bound(n, f.type)
           L == Len(s)
           M == {q \in Matched : \E i \in DOMAIN s : q.h = s[i]}
           R == {s[i] : i \in DOMAIN s}
           k == delegateCount(s)
           queue(m, hs) == [i \in DOMAIN hs |-> [elem |-> m, h |-> hs[i]]]
           for(m) == chosen(s, {i \in 1..k : s[i].selector = m})
           A == above(f.target, n)
           pieces == [m \in 1..n |-> queue(m, for(m))]
           g == CHOOSE g : g = [m \in 0..n |-> IF m = 0 THEN <<>>
                                               ELSE IF m \in A THEN g[m - 1] \o queue(m, for(m)) ELSE g[m - 1]]
           own == SubSeq(s, k + 1, L)
<1>1. handlers(f, n) = g[n] \o queue(n, own)
  BY DEF handlers
<1>2. L \in Nat /\ k \in 0..L /\ n \in Nat /\ DOMAIN s = 1..L /\ \A i \in 1..L : s[i] \in HandleObjs
  BY CountIs DEF Nodes
<1>3. s \in Seq(R)
  <2>1. \A i \in 1..L : s[i] \in R
    BY <1>2
  <2>2. s = [i \in 1..L |-> s[i]]
    BY <1>2
  <2> HIDE DEF s, L, R
  <2> QED BY <1>2, <2>1, <2>2, IsASeq
<1>4. ASSUME NEW m \in Nodes, NEW hs \in Seq(R)
      PROVE  queue(m, hs) \in Seq(M)
  <2>1. DOMAIN hs = 1..Len(hs) /\ Len(hs) \in Nat /\ \A i \in 1..Len(hs) : hs[i] \in R
    BY <1>4
  <2>2. ASSUME NEW i \in 1..Len(hs)
        PROVE  [elem |-> m, h |-> hs[i]] \in M
    <3>1. PICK j \in DOMAIN s : hs[i] = s[j]
      BY <2>1
    <3>2. [elem |-> m, h |-> hs[i]] \in Matched
      BY <1>2, <3>1 DEF Matched
    <3> QED BY <3>1, <3>2
  <2>3. queue(m, hs) = [i \in 1..Len(hs) |-> [elem |-> m, h |-> hs[i]]]
    BY <2>1
  <2> HIDE DEF M, queue
  <2> QED BY <2>1, <2>2, <2>3, IsASeq
<1> HIDE DEF queue
<1>5. \A m \in 1..n : pieces[m] = queue(m, for(m)) /\ pieces[m] \in Seq(M)
  <2> SUFFICES ASSUME NEW m \in 1..n
               PROVE  pieces[m] = queue(m, for(m)) /\ pieces[m] \in Seq(M)
    OBVIOUS
  <2>1. pieces[m] = queue(m, for(m))
    OBVIOUS
  <2>2. for(m) \in Seq(R) /\ m \in Nodes
    <3> DEFINE I == {i \in 1..k : s[i].selector = m}
    <3>1. m \in Nodes
      BY EventsAssumption DEF Nodes
    <3> HIDE DEF I, R, s
    <3>2. chosen(s, I) \in Seq(R)
      BY <1>3, ChosenIs
    <3> QED BY <3>1, <3>2 DEF I
  <2> HIDE DEF pieces, for, M, R
  <2> QED BY <1>4, <2>1, <2>2
<1>6. own \in Seq(R)
  <2>1. \A i \in (k + 1)..L : s[i] \in R
    BY <1>2
  <2>2. k + 1 \in Int /\ L \in Int
    BY <1>2
  <2> HIDE DEF s, R, k, L
  <2> QED BY <2>1, <2>2, SubSeqProperties
<1>7. queue(n, own) \in Seq(M)
  <2> HIDE DEF own, M, R
  <2> QED BY <1>4, <1>6
<1>8. g[n] \in Seq(M)
  <2>1. PICK w : Gathers(w, A, pieces, n)
    BY <1>2, GathersExist
  <2>2. w = [m \in 0..n |-> IF m = 0 THEN <<>> ELSE IF m \in A THEN w[m - 1] \o pieces[m] ELSE w[m - 1]]
    BY <2>1 DEF Gathers
  <2> DEFINE gather(v) == [m \in 0..n |-> IF m = 0 THEN <<>>
                                        ELSE IF m \in A THEN v[m - 1] \o queue(m, for(m)) ELSE v[m - 1]]
             body2(v) == [m \in 0..n |-> IF m = 0 THEN <<>>
                                        ELSE IF m \in A THEN v[m - 1] \o pieces[m] ELSE v[m - 1]]
  <2>3. ASSUME NEW v PROVE gather(v) = body2(v)
    <3>1. \A m \in 0..n : m # 0 => pieces[m] = queue(m, for(m))
      BY <1>2, <1>5
    <3> HIDE DEF pieces, for, A
    <3> QED BY <3>1
  <2>4. g = gather(g)
    <3>1. w = gather(w)
      BY <2>2, <2>3
    <3>2. \E v : v = gather(v)
      BY <3>1
    <3>3. g = CHOOSE v : v = gather(v)
      OBVIOUS
    <3> HIDE DEF gather, g
    <3> QED BY <3>2, <3>3
  <2>5. g = body2(g)
    BY <2>3, <2>4
  <2> HIDE DEF g, gather
  <2>6. Gathers(g, A, pieces, n)
    BY <2>5 DEF Gathers
  <2>7. <<>> \in Seq(M) /\ \A x, y \in Seq(M) : x \o y \in Seq(M)
    <3> HIDE DEF M
    <3> QED BY EmptySeq, ConcatProperties
  <2> DEFINE SM == Seq(M)
  <2>8. <<>> \in SM /\ (\A x, y \in SM : x \o y \in SM) /\ \A m \in 1..n : pieces[m] \in SM
    BY <1>5, <2>7
  <2> HIDE DEF pieces, M, A, SM
  <2>9. g[n] \in SM
    BY <1>2, <2>6, <2>8, GathersIn
  <2> QED BY <2>9 DEF SM
<1> HIDE DEF g, own
<1>9. g[n] \o queue(n, own) \in Seq(M)
  <2> HIDE DEF M
  <2> QED BY <1>7, <1>8, ConcatProperties
<1> QED BY <1>1, <1>9

\* The first k that are cleaned.
Cleans(f, d, I, k) ==
    f = [m \in 0..k |-> IF m = 0 THEN d ELSE IF m \in I THEN discard(f[m - 1], m) ELSE f[m - 1]]

LEMMA CleansExist ==
    ASSUME NEW d, NEW I, NEW k \in Nat
    PROVE  \E f : Cleans(f, d, I, k)
<1> DEFINE Q == {n \in 0..k : \E f : Cleans(f, d, I, n)}
<1>1. 0 \in Q
  <2> DEFINE z == [i \in 0..0 |-> d]
  <2>1. z = [i \in 0..0 |-> IF i = 0 THEN d ELSE IF i \in I THEN discard(z[i - 1], i) ELSE z[i - 1]]
    OBVIOUS
  <2> HIDE DEF z
  <2> QED BY <2>1 DEF Cleans
<1>2. ASSUME NEW n \in 1..k, n - 1 \in Q
      PROVE  n \in Q
  <2>1. PICK f : Cleans(f, d, I, n - 1)
    BY <1>2
  <2> DEFINE g == [i \in 0..n |-> IF i = n THEN IF n \in I THEN discard(f[n - 1], n) ELSE f[n - 1] ELSE f[i]]
  <2>2. ASSUME NEW i \in 0..n
        PROVE  g[i] = IF i = 0 THEN d ELSE IF i \in I THEN discard(g[i - 1], i) ELSE g[i - 1]
    <3>1. CASE i = n
      BY <3>1
    <3>2. CASE i # n
      <4>1. i \in 0..(n - 1) /\ g[i] = f[i] /\ (i # 0 => g[i - 1] = f[i - 1])
        BY <3>2
      <4>2. f[i] = IF i = 0 THEN d ELSE IF i \in I THEN discard(f[i - 1], i) ELSE f[i - 1]
        BY <2>1, <4>1 DEF Cleans
      <4> HIDE DEF g
      <4> QED BY <4>1, <4>2
    <3> QED BY <3>1, <3>2
  <2>3. g = [i \in 0..n |-> g[i]]
    OBVIOUS
  <2> HIDE DEF g
  <2>4. Cleans(g, d, I, n)
    BY <2>2, <2>3 DEF Cleans
  <2> QED BY <2>4
<1> HIDE DEF Q
<1>3. k \in Q
  BY <1>1, <1>2, UpTo
<1> QED BY <1>3 DEF Q

\* Of the elements I nothing is left, of the others all.
CleanedOf(new, d, I) ==
    /\ DataOk(new)
    /\ \A m \in I : ~hasEntry(new, m) /\ entry(new, m) = NewEntry
    /\ \A m \in Nodes \ I : (hasEntry(new, m) <=> hasEntry(d, m)) /\ entry(new, m) = entry(d, m)

LEMMA CleansIs ==
    ASSUME NEW d, DataOk(d), NEW k \in Nodes, NEW I \in SUBSET (1..k), NEW f, Cleans(f, d, I, k)
    PROVE  CleanedOf(f[k], d, I)
<1> DEFINE Q == {i \in 0..k : CleanedOf(f[i], d, I \cap 1..i)}
<1>0. k \in Nat /\ Nodes = 1..Depth /\ Depth \in Nat /\ k <= Depth
  BY EventsAssumption DEF Nodes
<1>1. \A i \in 0..k : f[i] = IF i = 0 THEN d ELSE IF i \in I THEN discard(f[i - 1], i) ELSE f[i - 1]
  BY DEF Cleans
<1>2. 0 \in Q
  <2>1. f[0] = d
    BY <1>0, <1>1
  <2>2. I \cap 1..0 = {}
    BY <1>0
  <2> QED BY <1>0, <2>1, <2>2 DEF CleanedOf
<1>3. ASSUME NEW n \in 1..k, n - 1 \in Q
      PROVE  n \in Q
  <2> DEFINE before == f[n - 1]
             B == I \cap 1..(n - 1)
             C == I \cap 1..n
  <2>1. f[n] = IF n \in I THEN discard(before, n) ELSE before
    BY <1>1
  <2>2. CleanedOf(before, d, B)
    BY <1>3
  <2>3. n \in Nodes /\ n \notin B /\ n \in 0..k /\ B \subseteq C
    BY <1>0
  <2>4. CASE n \in I
    <3>1. C = B \cup {n}
      BY <2>3, <2>4
    <3>2. Becomes(f[n], before, n, FALSE, NewEntry)
      BY <2>1, <2>2, <2>3, <2>4, DiscardIs DEF CleanedOf
    <3> HIDE DEF B, C, before
    <3>3. B \subseteq Nodes
      BY <1>0 DEF B
    <3>4. CleanedOf(f[n], d, C)
      BY <2>2, <2>3, <3>1, <3>2, <3>3 DEF CleanedOf, Becomes
    <3> QED BY <2>3, <3>4 DEF C
  <2>5. CASE n \notin I
    <3>1. C = B
      BY <2>5
    <3> QED BY <2>1, <2>2, <2>3, <2>5, <3>1
  <2> QED BY <2>4, <2>5
<1> HIDE DEF Q
<1>4. k \in Q
  <2>1. \A i \in 1..k : i - 1 \in Q => i \in Q
    BY ONLY <1>3
  <2>2. k \in Nat
    BY <1>0
  <2>3. \A i \in 0..k : i \in Q
    BY ONLY <1>2, <2>1, <2>2, UpTo
  <2> QED BY ONLY <2>2, <2>3
<1>5. I \cap 1..k = I
  OBVIOUS
<1> QED BY <1>4, <1>5 DEF Q

\* What is bound becomes less: what is gone is noted as removed, and nothing else is.
Shrinks ==
    /\ removed \subseteq removed' /\ removed' \subseteq 1..binds
    /\ \A n \in Nodes, t \in EventTypes :
         /\ First(bound(n, t)') /\ Distinct(bound(n, t)')
         /\ \A i \in DOMAIN bound(n, t)' : /\ bound(n, t)'[i].number \notin removed'
                                          /\ \E j \in DOMAIN bound(n, t) : bound(n, t)'[i] = bound(n, t)[j]
         /\ \A h : IsBound(h, n, t) => h.number \in removed' \/ IsBound(h, n, t)'

\* What is bound stays, or is noted as removed.
Noted ==
    /\ removed \subseteq removed'
    /\ \A n \in Nodes, t \in EventTypes : \A h : IsBound(h, n, t) => h.number \in removed' \/ IsBound(h, n, t)'

LEMMA BoundIs ==
    ASSUME DataOk(D), NEW n \in Nodes, NEW t \in EventTypes
    PROVE  /\ bound(n, t) \in Seq(HandleObjs)
           /\ HandlersOk => First(bound(n, t)) /\ Distinct(bound(n, t))
<1>1. bound(n, t) \in Seq(HandleObjs)
  BY HasIs DEF bound, EntryRecords
<1>2. HandlersOk => First(bound(n, t)) /\ Distinct(bound(n, t))
  <2> SUFFICES ASSUME HandlersOk PROVE First(bound(n, t)) /\ Distinct(bound(n, t))
    OBVIOUS
  <2>1. First(bound(n, t))
    BY DEF HandlersOk, DelegatesFirst, First
  <2>2. Distinct(bound(n, t))
    BY DEF HandlersOk, Distinct
  <2> QED BY <2>1, <2>2
<1> QED BY <1>1, <1>2

LEMMA HandlersShrink ==
    ASSUME DataOk(D), HandlersOk, Shrinks, binds' = binds
    PROVE  HandlersOk'
<1>1. ASSUME NEW n \in Nodes, NEW t \in EventTypes, NEW i \in DOMAIN bound(n, t)'
      PROVE  bound(n, t)'[i].number \in (1..binds') \ removed'
  <2>1. PICK j \in DOMAIN bound(n, t) : bound(n, t)'[i] = bound(n, t)[j]
    BY DEF Shrinks
  <2>2. bound(n, t)[j].number \in 1..binds
    BY DEF HandlersOk
  <2> QED BY <2>1, <2>2 DEF Shrinks
<1>2. ASSUME NEW m \in Nodes, NEW n \in Nodes, NEW t \in EventTypes, NEW u \in EventTypes,
             NEW i \in DOMAIN bound(m, t)', NEW j \in DOMAIN bound(n, u)',
             bound(m, t)'[i].number = bound(n, u)'[j].number
      PROVE  m = n /\ t = u /\ i = j
  <2>1. PICK k \in DOMAIN bound(m, t) : bound(m, t)'[i] = bound(m, t)[k]
    BY DEF Shrinks
  <2>2. PICK l \in DOMAIN bound(n, u) : bound(n, u)'[j] = bound(n, u)[l]
    BY DEF Shrinks
  <2>3. m = n /\ t = u
    BY <1>2, <2>1, <2>2 DEF HandlersOk
  <2>4. i = j
    BY <1>2, <2>3 DEF Shrinks, Distinct
  <2> QED BY <2>3, <2>4
<1>3. DelegatesFirst'
  <2>1. \A n \in Nodes, t \in EventTypes : First(bound(n, t)')
    BY DEF Shrinks
  <2> QED BY <2>1 DEF DelegatesFirst, First
<1> QED BY <1>1, <1>2, <1>3 DEF HandlersOk

LEMMA PendingStays ==
    ASSUME Noted, NEW q, NEW F, Pending(q, F), F.at \in Nodes, F.type \in EventTypes
    PROVE  Pending(q, F)'
<1>1. IsBound(q.h, F.at, F.type) => q.h.number \in removed' \/ IsBound(q.h, F.at, F.type)'
  BY DEF Noted
<1>2. q.h.number \in removed => q.h.number \in removed'
  BY DEF Noted
<1> QED BY <1>1, <1>2 DEF Pending

LEMMA FrameStays ==
    ASSUME Noted, NEW F \in FrameRecords, FrameOk(F)
    PROVE  FrameOk(F)'
<1>1. ASSUME NEW i \in DOMAIN F.queue
      PROVE  Pending(F.queue[i], F)'
  <2>1. Pending(F.queue[i], F) /\ F.at \in Nodes /\ F.type \in EventTypes
    BY DEF FrameOk, FrameRecords
  <2> QED BY <2>1, PendingStays
<1>2. F.late \subseteq removed'
  BY DEF FrameOk, Noted
<1>3. F.running /\ handler(F).one => handler(F).number \in removed'
  BY DEF FrameOk, Noted
<1> QED BY <1>1, <1>2, <1>3 DEF FrameOk

\* The innermost event becomes F, the others go on as they were.
LEMMA FramesTop ==
    ASSUME FramesOk, Noted, frames # <<>>, NEW F \in FrameRecords, FrameOk(F)',
           frames' = setTop(F), \A f \in 1..(Len(frames) - 1) : NotAgain(frames[f], F)
    PROVE  FramesOk'
<1>1. PICK L \in Nat : L = Len(frames) /\ L > 0 /\ DOMAIN frames = 1..L
  BY DEF FramesOk
<1>2. frames' = [frames EXCEPT ![L] = F]
  BY <1>1 DEF setTop
<1>3. frames' \in Seq(FrameRecords)
  <2>1. frames \in Seq(FrameRecords) /\ L \in 1..Len(frames)
    BY <1>1 DEF FramesOk
  <2> QED BY <1>2, <2>1, ExceptSeq
<1>4. /\ DOMAIN frames' = 1..L /\ frames'[L] = F
      /\ \A f \in 1..(L - 1) : f \in 1..L /\ frames'[f] = frames[f]
  BY <1>1, <1>2
<1>5. \A f \in 1..L : f \in 1..(L - 1) \/ f = L
  OBVIOUS
<1>6. ASSUME NEW f \in 1..L
      PROVE  FrameOk(frames[f])'
  <2>1. CASE f = L
    BY <1>4, <2>1 DEF FrameOk, Pending, IsBound, handler
  <2>2. CASE f \in 1..(L - 1)
    <3>1. PICK G : G = frames[f]
      OBVIOUS
    <3>2. G \in FrameRecords /\ FrameOk(G)
      BY <1>1, <1>4, <2>2, <3>1 DEF FramesOk
    <3>3. FrameOk(G)'
      BY <3>2, FrameStays
    <3>4. frames'[f] = G
      BY <1>4, <2>2, <3>1
    <3> QED BY <3>3, <3>4 DEF FrameOk, Pending, IsBound, handler
  <2> QED BY <1>5, <2>1, <2>2
<1>7. ASSUME NEW f \in 1..L, NEW g \in 1..L, f < g
      PROVE  NotAgain(frames'[f], frames'[g])
  <2>1. f \in 1..(L - 1)
    BY <1>7
  <2>2. CASE g = L
    BY <1>1, <1>4, <2>1, <2>2
  <2>3. CASE g \in 1..(L - 1)
    <3>1. NotAgain(frames[f], frames[g])
      BY <1>1, <1>7 DEF FramesOk
    <3> QED BY <1>4, <2>1, <2>3, <3>1
  <2> QED BY <1>5, <2>2, <2>3
<1>8. \A f \in DOMAIN frames' : FrameOk(frames[f])'
  BY <1>4, <1>6
<1>9. \A f, g \in DOMAIN frames' : f < g => NotAgain(frames'[f], frames'[g])
  BY <1>4, <1>7
<1> QED BY <1>3, <1>8, <1>9 DEF FramesOk

LEMMA FramesStay ==
    ASSUME FramesOk, Noted, frames' = frames
    PROVE  FramesOk'
<1>1. CASE frames = <<>>
  BY <1>1 DEF FramesOk
<1>2. CASE frames # <<>>
  <2> DEFINE L == Len(frames)
  <2>1. frames \in Seq(FrameRecords) /\ L \in Nat /\ L > 0 /\ DOMAIN frames = 1..L
    BY <1>2 DEF FramesOk
  <2>2. PICK F : F = frames[L]
    OBVIOUS
  <2>3. F \in FrameRecords /\ FrameOk(F)
    BY <2>1, <2>2 DEF FramesOk
  <2>4. FrameOk(F)'
    BY <2>3, FrameStays
  <2>5. frames' = setTop(F)
    BY <2>1, <2>2 DEF setTop
  <2>6. \A f \in 1..(L - 1) : NotAgain(frames[f], F)
    BY <2>1, <2>2 DEF FramesOk
  <2> QED BY <1>2, <2>3, <2>4, <2>5, <2>6, FramesTop
<1> QED BY <1>1, <1>2

\* The elements that have handlers for focusin, which the document counts.
Focused == {n \in Nodes : bound(n, "focusin") # <<>>}

LEMMA FocusedIs ==
    /\ Focused \subseteq Nodes /\ IsFiniteSet(Focused) /\ Cardinality(Focused) \in Nat
    /\ IsFiniteSet(Nodes)
<1>1. IsFiniteSet(Nodes)
  BY FS_Interval, EventsAssumption DEF Nodes
<1>2. Focused \in SUBSET Nodes
  BY DEF Focused
<1> QED BY <1>1, <1>2, FS_Subset, FS_CardinalityType

\* The document has its data as long as it counts.
LEMMA CountedIs ==
    ASSUME DataOk(D), ListensAsHandled
    PROVE  /\ entry(D, document).attaches = Cardinality(Focused)
           /\ entry(D, document).attaches \in Nat
           /\ Focused # {} => hasEntry(D, document) /\ entry(D, document).attaches > 0
<1>1. entry(D, document).attaches = Cardinality(Focused)
  BY DEF ListensAsHandled, Focused
<1>2. Focused # {} => Cardinality(Focused) # 0
  BY FocusedIs, FS_EmptySet
<1>3. entry(D, document) \in EntryRecords /\ (~hasEntry(D, document) => entry(D, document).attaches = 0)
  BY HasIs, EntryTypes
<1> QED BY <1>1, <1>2, <1>3, FocusedIs DEF EntryRecords

\* What detach() leaves: the events are as they were, the document counts less.
Detached(new, k) ==
    /\ DataOk(new)
    /\ \A m \in Nodes : /\ entry(new, m).events = entry(D, m).events
                        /\ hasEntry(new, m) => hasEntry(D, m)
                        /\ hasEntry(D, m) /\ entry(D, m).events # NoEvents => hasEntry(new, m)
    /\ entry(new, document).attaches = entry(D, document).attaches - k

LEMMA DetachIs ==
    ASSUME DataOk(D), ListensAsHandled, NEW last, IsFiniteSet(last),
           Cardinality(last) <= Cardinality(Focused)
    PROVE  Detached(detach(D, last), Cardinality(last))
<1> DEFINE e == entry(D, document)
           k == Cardinality(last)
           still == [e EXCEPT !.attaches = @ - k]
           new == detach(D, last)
<1> SUFFICES Detached(new, k)
  OBVIOUS
<1>1. k \in Nat /\ (last = {} <=> k = 0)
  BY FS_CardinalityType, FS_EmptySet
<1>2. e \in EntryRecords /\ document \in Nodes
  BY HasIs, EntryTypes
<1>3. CASE last = {}
  <2>1. new = D
    BY <1>3 DEF detach
  <2> QED BY <1>1, <1>2, <1>3, <2>1 DEF Detached, EntryRecords
<1>4. CASE last # {}
  <2>1. new = internalRemoveData(D, document, still)
    BY <1>4 DEF detach
  <2>2. k > 0 /\ k <= Cardinality(Focused)
    BY <1>1, <1>4
  <2>3. Focused # {} /\ e.attaches = Cardinality(Focused) /\ e.attaches \in Nat
    BY <2>2, CountedIs, FocusedIs, FS_EmptySet, <1>1
  <2>4. hasEntry(D, document)
    BY <2>3, CountedIs
  <2> HIDE DEF e, k, new
  <2>5. /\ still \in EntryRecords /\ still.events = e.events /\ still.attaches = e.attaches - k
    <3>1. e.attaches - k \in Nat
      BY <1>1, <2>2, <2>3
    <3> QED BY <1>2, <3>1 DEF EntryRecords
  <2> HIDE DEF still
  <2>6. Becomes(new, D, document, still # NewEntry, still)
    BY <1>2, <2>1, <2>4, <2>5, RemoveDataIs
  <2>7. still.events # NoEvents => still # NewEntry
    BY EntryTypes
  <2> QED BY <2>4, <2>5, <2>6, <2>7 DEF Becomes, Detached, e
<1> QED BY <1>3, <1>4

\* Numbers of handlers of an element.
Mine(n, gone) ==
    \A x \in gone : \E t \in EventTypes : \E i \in DOMAIN bound(n, t) : bound(n, t)[i].number = x

LEMMA MatchingIs ==
    ASSUME NEW n, NEW types \in SUBSET EventTypes, NEW fns, NEW selectors
    PROVE  /\ Mine(n, matching(n, types, fns, selectors))
           /\ \A t \in types : \A i \in DOMAIN bound(n, t) :
                bound(n, t)[i].fn \in fns /\ bound(n, t)[i].selector \in selectors
                => bound(n, t)[i].number \in matching(n, types, fns, selectors)
<1> DEFINE of(t) == {h.number : h \in {g \in {bound(n, t)[i] : i \in DOMAIN bound(n, t)} :
                                        g.fn \in fns /\ g.selector \in selectors}}
<1>1. \A x : x \in matching(n, types, fns, selectors) <=> \E t \in types : x \in of(t)
  BY DEF matching
<1>2. \A t \in types : \A x : x \in of(t) <=>
        \E i \in DOMAIN bound(n, t) : /\ bound(n, t)[i].fn \in fns /\ bound(n, t)[i].selector \in selectors
                                      /\ bound(n, t)[i].number = x
  OBVIOUS
<1> HIDE DEF of
<1> QED BY <1>1, <1>2 DEF Mine

\* What is left of the events of an element.
LEMMA EventsLeft ==
    ASSUME DataOk(D), HandlersOk, NEW n \in Nodes, NEW gone, NEW t \in EventTypes,
           NEW c, c = without(bound(n, t), gone)
    PROVE  /\ c \in Seq(HandleObjs) /\ First(c) /\ Distinct(c)
           /\ bound(n, t) = <<>> => c = <<>>
           /\ \A i \in DOMAIN c : c[i].number \notin gone /\ \E j \in DOMAIN bound(n, t) : c[i] = bound(n, t)[j]
           /\ \A j \in DOMAIN bound(n, t) : bound(n, t)[j].number \notin gone => \E i \in DOMAIN c : c[i] = bound(n, t)[j]
<1>1. bound(n, t) \in Seq(HandleObjs) /\ First(bound(n, t)) /\ Distinct(bound(n, t))
  BY BoundIs
<1>2. /\ c \in Seq(HandleObjs) /\ First(c) /\ Distinct(c)
      /\ \A i \in DOMAIN c : c[i].number \notin gone /\ \E j \in DOMAIN bound(n, t) : c[i] = bound(n, t)[j]
      /\ \A j \in DOMAIN bound(n, t) : bound(n, t)[j].number \notin gone => \E i \in DOMAIN c : c[i] = bound(n, t)[j]
  BY <1>1, WithoutIs
<1>3. ASSUME bound(n, t) = <<>> PROVE c = <<>>
  <2>1. \A j \in DOMAIN bound(n, t) : FALSE
    BY <1>3
  <2>2. Len(c) \in Nat /\ DOMAIN c = 1..Len(c)
    BY <1>2
  <2>3. DOMAIN c = {}
    BY <1>2, <2>1
  <2> QED BY <2>2, <2>3
<1> QED BY <1>2, <1>3

\* The data after remove() of some handlers of an element.
LEMMA RemovedData ==
    ASSUME EventsInv, NEW n \in Nodes, NEW gone, removeEvent(n, gone),
           NEW ended, ended = {t \in EventTypes : bound(n, t) # <<>> /\ without(bound(n, t), gone) = <<>>}
    PROVE  /\ DataOk(D')
           /\ \A m \in Nodes : hasEntry(D', m) => hasEntry(D, m)
           /\ \A m \in Nodes \ {n} : entry(D', m).events = entry(D, m).events
           /\ \A t \in EventTypes : entry(D', n).events[t] = without(bound(n, t), gone)
           /\ entry(D', document).attaches
                = entry(D, document).attaches - (IF "focusin" \in ended THEN 1 ELSE 0)
<1> DEFINE e == entry(D, n)
           events == [t \in EventTypes |-> without(e.events[t], gone)]
           last == ended \cap {"focusin"}
           k == Cardinality(last)
           counts == detach(D, last)
           still == [entry(counts, n) EXCEPT !.events = events, !.handle = events # NoEvents]
<1>1. DataOk(D) /\ ListensAsHandled /\ HandlersOk
  BY DEF EventsInv, BindsOk
<1>2. D' = IF e.events = NoEvents THEN D ELSE internalRemoveData(counts, n, still)
  <2>1. ended = {t \in EventTypes : e.events[t] # <<>> /\ events[t] = <<>>}
    BY DEF bound
  <2> QED BY <2>1 DEF removeEvent
<1>3. \A t \in EventTypes : events[t] = without(bound(n, t), gone) /\ bound(n, t) = e.events[t]
  BY DEF bound
<1>4. events \in [EventTypes -> Seq(HandleObjs)]
  BY <1>1, <1>3, EventsLeft
<1>5. k = IF "focusin" \in ended THEN 1 ELSE 0
  <2>1. CASE "focusin" \in ended
    <3>1. last = {"focusin"}
      BY <2>1
    <3> QED BY <2>1, <3>1, FS_Singleton
  <2>2. CASE "focusin" \notin ended
    <3>1. last = {}
      BY <2>2
    <3> QED BY <2>2, <3>1, FS_EmptySet
  <2> QED BY <2>1, <2>2
<1>6. IsFiniteSet(last) /\ k <= Cardinality(Focused)
  <2>1. IsFiniteSet({"focusin"}) /\ last \in SUBSET {"focusin"}
    BY FS_Singleton
  <2>2. IsFiniteSet(last)
    BY <2>1, FS_Subset
  <2>3. CASE "focusin" \in ended
    <3>1. n \in Focused
      BY <2>3 DEF Focused
    <3>2. Cardinality(Focused) # 0 /\ Cardinality(Focused) \in Nat
      BY <3>1, FocusedIs, FS_EmptySet
    <3> QED BY <1>5, <2>2, <2>3, <3>2
  <2>4. CASE "focusin" \notin ended
    BY <1>5, <2>2, <2>4, FocusedIs
  <2> QED BY <2>3, <2>4
<1>7. e \in EntryRecords /\ (~hasEntry(D, n) => e.events = NoEvents) /\ document \in Nodes
  BY <1>1, HasIs, EntryTypes
<1>8. CASE e.events = NoEvents
  <2>1. D' = D
    BY <1>2, <1>8
  <2>2. \A t \in EventTypes : bound(n, t) = <<>>
    BY <1>3, <1>8 DEF NoEvents
  <2>3. \A t \in EventTypes : events[t] = <<>>
    BY <1>1, <1>3, <2>2, EventsLeft
  <2>4. "focusin" \notin ended
    BY <2>2
  <2>5. entry(D, document).attaches \in Nat
    BY <1>1, CountedIs
  <2> HIDE DEF events, e
  <2>6. \A t \in EventTypes : entry(D, n).events[t] = without(bound(n, t), gone)
    BY <1>3, <2>2, <2>3 DEF e
  <2> QED BY <1>1, <2>1, <2>4, <2>5, <2>6
<1>9. CASE e.events # NoEvents
  <2>1. Detached(counts, k)
    BY <1>1, <1>6, DetachIs
  <2> HIDE DEF counts, k, events, last
  <2>2. DataOk(counts) /\ hasEntry(counts, n) /\ entry(counts, n) \in EntryRecords
    BY <1>7, <1>9, <2>1, HasIs DEF Detached
  <2>3. still \in EntryRecords /\ still.events = events /\ still.attaches = entry(counts, n).attaches
    BY <1>4, <2>2 DEF EntryRecords
  <2>4. D' = internalRemoveData(counts, n, still)
    BY <1>2, <1>9
  <2> HIDE DEF still
  <2>5. Becomes(internalRemoveData(counts, n, still), counts, n, still # NewEntry, still)
    BY <2>2, <2>3, RemoveDataIs
  <2>6. Becomes(D', counts, n, still # NewEntry, still)
    BY <2>4, <2>5
  <2>7. \A m \in Nodes : hasEntry(D', m) => hasEntry(D, m)
    BY <1>7, <1>9, <2>1, <2>6 DEF Becomes, Detached
  <2>8. \A m \in Nodes \ {n} : entry(D', m).events = entry(D, m).events
    BY <2>1, <2>6 DEF Becomes, Detached
  <2>9. \A t \in EventTypes : entry(D', n).events[t] = without(bound(n, t), gone)
    BY <1>3, <2>3, <2>6 DEF Becomes
  <2>10. entry(D', document).attaches = entry(counts, document).attaches
    BY <1>7, <2>3, <2>6 DEF Becomes
  <2>11. entry(D', document).attaches = entry(D, document).attaches - k
    BY <2>1, <2>10 DEF Detached
  <2> QED BY <1>5, <2>6, <2>7, <2>8, <2>9, <2>11 DEF Becomes
<1> QED BY <1>8, <1>9

\* remove() of some handlers of an element.
LEMMA RemoveEventIs ==
    ASSUME EventsInv, NEW n \in Nodes, NEW gone, Mine(n, gone), removeEvent(n, gone), UNCHANGED binds
    PROVE  DataOk(D)' /\ ListensAsHandled' /\ Shrinks /\ removed' = removed \cup gone
           /\ \A m \in Nodes : hasEntry(D', m) => hasEntry(D, m)
<1> DEFINE ended == {t \in EventTypes : bound(n, t) # <<>> /\ without(bound(n, t), gone) = <<>>}
<1>1. DataOk(D) /\ ListensAsHandled /\ HandlersOk /\ removed \subseteq 1..binds
  BY DEF EventsInv, BindsOk
<1>2. /\ DataOk(D')
      /\ \A m \in Nodes : hasEntry(D', m) => hasEntry(D, m)
      /\ \A m \in Nodes \ {n} : entry(D', m).events = entry(D, m).events
      /\ \A t \in EventTypes : entry(D', n).events[t] = without(bound(n, t), gone)
      /\ entry(D', document).attaches = entry(D, document).attaches - (IF "focusin" \in ended THEN 1 ELSE 0)
  BY RemovedData
<1>3. /\ listeners' = listeners \ ({n} \X ended)
      /\ capturing' = (entry(D', document).attaches > 0)
      /\ removed' = removed \cup gone
  <2>1. ended = {t \in EventTypes : entry(D, n).events[t] # <<>>
                    /\ [u \in EventTypes |-> without(entry(D, n).events[u], gone)][t] = <<>>}
    BY DEF bound
  <2> QED BY <2>1 DEF removeEvent, silence
<1>4. /\ \A m \in Nodes \ {n}, t \in EventTypes : bound(m, t)' = bound(m, t)
      /\ \A t \in EventTypes : bound(n, t)' = without(bound(n, t), gone)
  BY <1>2 DEF bound
<1>5. /\ \A t \in EventTypes : bound(n, t)' # <<>> <=> bound(n, t) # <<>> /\ t \notin ended
  <2>1. \A t \in EventTypes : bound(n, t) = <<>> => bound(n, t)' = <<>>
    BY <1>1, <1>4, EventsLeft
  <2> QED BY <1>4, <2>1
<1>6. ListensAsHandled'
  <2>1. listeners' = {l \in Nodes \X (EventTypes \ {"focusin"}) : bound(l[1], l[2])' # <<>>}
    <3>1. listeners = {l \in Nodes \X (EventTypes \ {"focusin"}) : bound(l[1], l[2]) # <<>>}
      BY <1>1 DEF ListensAsHandled
    <3>2. ASSUME NEW m \in Nodes, NEW t \in EventTypes \ {"focusin"}
          PROVE  bound(m, t)' # <<>> <=> bound(m, t) # <<>> /\ <<m, t>> \notin {n} \X ended
      BY <1>4, <1>5
    <3>3. \A l : l \in listeners' <=>
            l \in Nodes \X (EventTypes \ {"focusin"}) /\ bound(l[1], l[2]) # <<>> /\ l \notin {n} \X ended
      BY <1>3, <3>1
    <3>4. ASSUME NEW l \in Nodes \X (EventTypes \ {"focusin"})
          PROVE  bound(l[1], l[2])' # <<>> <=> bound(l[1], l[2]) # <<>> /\ l \notin {n} \X ended
      <4>1. l = <<l[1], l[2]>> /\ l[1] \in Nodes /\ l[2] \in EventTypes \ {"focusin"}
        OBVIOUS
      <4> HIDE DEF ended
      <4> QED BY <3>2, <4>1
    <3> HIDE DEF ended
    <3>5. \A l : l \in listeners' <=> l \in {k \in Nodes \X (EventTypes \ {"focusin"}) : bound(k[1], k[2])' # <<>>}
      BY <3>3, <3>4
    <3> QED BY <3>5
  <2>2. entry(D', document).attaches = Cardinality(Focused')
    <3>1. entry(D, document).attaches = Cardinality(Focused)
      BY <1>1, CountedIs
    <3>2. CASE "focusin" \in ended
      <4>1. Focused' = Focused \ {n} /\ n \in Focused
        BY <1>4, <1>5, <3>2, EventsAssumption DEF Focused
      <4>2. Cardinality(Focused') = Cardinality(Focused) - 1
        BY <4>1, FocusedIs, FS_RemoveElement
      <4> QED BY <1>2, <3>1, <3>2, <4>2
    <3>3. CASE "focusin" \notin ended
      <4>1. Focused' = Focused
        BY <1>4, <1>5, <3>3, EventsAssumption DEF Focused
      <4> QED BY <1>2, <3>1, <3>3, <4>1, FocusedIs
    <3> QED BY <3>2, <3>3
  <2> QED BY <1>3, <2>1, <2>2 DEF ListensAsHandled, Focused
<1>7. Shrinks
  <2>1. removed' \subseteq 1..binds
    <3>1. ASSUME NEW x \in gone PROVE x \in 1..binds
      <4>1. PICK t \in EventTypes : \E i \in DOMAIN bound(n, t) : bound(n, t)[i].number = x
        BY DEF Mine
      <4> QED BY <1>1, <4>1 DEF HandlersOk
    <3> QED BY <1>1, <1>3, <3>1
  <2>2. ASSUME NEW m \in Nodes, NEW t \in EventTypes
        PROVE  /\ First(bound(m, t)') /\ Distinct(bound(m, t)')
               /\ \A i \in DOMAIN bound(m, t)' : /\ bound(m, t)'[i].number \notin removed'
                                                /\ \E j \in DOMAIN bound(m, t) : bound(m, t)'[i] = bound(m, t)[j]
               /\ \A h : IsBound(h, m, t) => h.number \in removed' \/ IsBound(h, m, t)'
    <3>1. CASE m # n
      <4>1. bound(m, t)' = bound(m, t)
        BY <1>4, <3>1
      <4>2. First(bound(m, t)) /\ Distinct(bound(m, t))
        BY <1>1, BoundIs
      <4>3. \A i \in DOMAIN bound(m, t) : bound(m, t)[i].number \notin removed'
        <5> SUFFICES ASSUME NEW i \in DOMAIN bound(m, t), bound(m, t)[i].number \in gone PROVE FALSE
          BY <1>1, <1>3 DEF HandlersOk
        <5>1. PICK u \in EventTypes : \E j \in DOMAIN bound(n, u) : bound(n, u)[j].number = bound(m, t)[i].number
          BY DEF Mine
        <5>2. PICK j \in DOMAIN bound(n, u) : bound(n, u)[j].number = bound(m, t)[i].number
          BY <5>1
        <5> QED BY <1>1, <3>1, <5>2 DEF HandlersOk
      <4> QED BY <4>1, <4>2, <4>3 DEF IsBound
    <3>2. CASE m = n
      <4> DEFINE c == without(bound(n, t), gone)
      <4>1. bound(n, t)' = c
        BY <1>4
      <4>2. /\ First(c) /\ Distinct(c)
            /\ \A i \in DOMAIN c : c[i].number \notin gone /\ \E j \in DOMAIN bound(n, t) : c[i] = bound(n, t)[j]
            /\ \A j \in DOMAIN bound(n, t) : bound(n, t)[j].number \notin gone => \E i \in DOMAIN c : c[i] = bound(n, t)[j]
        BY <1>1, EventsLeft
      <4>3. \A j \in DOMAIN bound(n, t) : bound(n, t)[j].number \notin removed
        BY <1>1 DEF HandlersOk
      <4> HIDE DEF c
      <4>4. \A i \in DOMAIN c : c[i].number \notin removed'
        BY <1>3, <4>2, <4>3
      <4>5. \A h : IsBound(h, n, t) => h.number \in removed' \/ IsBound(h, n, t)'
        BY <1>3, <4>1, <4>2 DEF IsBound
      <4> QED BY <3>2, <4>1, <4>2, <4>4, <4>5
    <3> QED BY <3>1, <3>2
  <2> QED BY <1>3, <2>1, <2>2 DEF Shrinks
<1> QED BY <1>2, <1>3, <1>6, <1>7

LEMMA ShrinksNoted ==
    ASSUME Shrinks
    PROVE  Noted
BY DEF Shrinks, Noted

\* What an operation counts.
LEMMA TurnIs ==
    ASSUME EventsInv, EventTurn
    PROVE  eventOps' \in 0..MaxEventOps /\ (frames # <<>> => top.running)
BY EventsAssumption DEF EventsInv, BindsOk, EventTurn

LEMMA RemoveKeeps ==
    ASSUME EventsInv, NEW n \in Nodes, NEW gone, Mine(n, gone), removeEvent(n, gone),
           UNCHANGED <<cuts, binds>>, eventOps' \in 0..MaxEventOps
    PROVE  BindsOk' /\ Noted /\ removed' = removed \cup gone
<1>1. /\ DataOk(D)' /\ ListensAsHandled' /\ Shrinks /\ removed' = removed \cup gone
      /\ \A m \in Nodes : hasEntry(D', m) => hasEntry(D, m)
  BY RemoveEventIs
<1>2. HandlersOk'
  BY <1>1, HandlersShrink DEF EventsInv, BindsOk
<1>3. \A m \in Nodes \ attached' : ~hasEntry(D', m)
  BY <1>1 DEF EventsInv, BindsOk, attached
<1>4. removed' \subseteq 1..binds'
  BY <1>1 DEF Shrinks
<1>5. cuts' \subseteq Nodes \ {document} /\ binds' \in 0..MaxBinds
  BY DEF EventsInv, BindsOk
<1> QED BY <1>1, <1>2, <1>3, <1>4, <1>5, ShrinksNoted DEF BindsOk

LEMMA OffKeeps ==
    ASSUME EventsInv, Off
    PROVE  EventsInv'
<1>1. PICK n \in attached :
         \/ \E t \in EventTypes, fns \in {{f} : f \in Functions} \cup {Functions} :
            \E selectors \in {{s} : s \in 1..(n - 1)} \cup {{NoSelector} \cup Nodes} :
              removeEvent(n, matching(n, {t}, fns, selectors))
         \/ removeEvent(n, matching(n, EventTypes, Namespaced, {NoSelector} \cup Nodes))
  BY DEF Off
<1>2. n \in Nodes
  BY DEF attached
<1>3. \E types \in SUBSET EventTypes : \E fns, selectors : removeEvent(n, matching(n, types, fns, selectors))
  <2>1. CASE removeEvent(n, matching(n, EventTypes, Namespaced, {NoSelector} \cup Nodes))
    BY <2>1
  <2>2. ASSUME NEW t \in EventTypes, NEW fns, NEW selectors,
               removeEvent(n, matching(n, {t}, fns, selectors))
        PROVE  \E types \in SUBSET EventTypes : \E g, s : removeEvent(n, matching(n, types, g, s))
    <3>1. {t} \in SUBSET EventTypes
      BY <2>2
    <3> QED BY <2>2, <3>1
  <2> QED BY <1>1, <2>1, <2>2
<1>4. PICK gone : Mine(n, gone) /\ removeEvent(n, gone)
  <2>1. PICK types \in SUBSET EventTypes : \E fns, selectors : removeEvent(n, matching(n, types, fns, selectors))
    BY <1>3
  <2>2. PICK fns, selectors : removeEvent(n, matching(n, types, fns, selectors))
    BY <2>1
  <2> QED BY <2>2, MatchingIs
<1>5. eventOps' \in 0..MaxEventOps /\ UNCHANGED <<cuts, frames, binds>>
  BY TurnIs DEF Off
<1>6. BindsOk' /\ Noted
  BY <1>2, <1>4, <1>5, RemoveKeeps
<1>7. FramesOk'
  BY <1>5, <1>6, FramesStay DEF EventsInv
<1> QED BY <1>6, <1>7 DEF EventsInv

\* What an element keeps beside its events changes.
LEMMA SameEvents ==
    ASSUME EventsInv, DataOk(D'), eventOps' \in 0..MaxEventOps,
           UNCHANGED <<cuts, listeners, capturing, frames, binds, removed>>,
           \A m \in Nodes : entry(D', m).events = entry(D, m).events,
           entry(D', document).attaches = entry(D, document).attaches,
           \A m \in Nodes \ attached : ~hasEntry(D', m)
    PROVE  EventsInv'
<1>1. \A m \in Nodes, t \in EventTypes : bound(m, t)' = bound(m, t)
  BY DEF bound
<1>2. Noted
  BY <1>1 DEF Noted, IsBound
<1>3. FramesOk'
  BY <1>2, FramesStay DEF EventsInv
<1>4. HandlersOk'
  <2>1. HandlersOk /\ DelegatesFirst
    BY DEF EventsInv, BindsOk, HandlersOk
  <2>2. DelegatesFirst'
    BY <1>1, <2>1 DEF DelegatesFirst
  <2> QED BY <1>1, <2>1, <2>2 DEF HandlersOk
<1>5. ListensAsHandled'
  <2>1. ListensAsHandled
    BY DEF EventsInv, BindsOk
  <2>2. Focused' = Focused
    BY <1>1, EventsAssumption DEF Focused
  <2>3. \A l \in Nodes \X (EventTypes \ {"focusin"}) : bound(l[1], l[2])' = bound(l[1], l[2])
    BY <1>1
  <2> QED BY <2>1, <2>2, <2>3 DEF ListensAsHandled, Focused
<1> QED BY <1>3, <1>4, <1>5 DEF EventsInv, BindsOk, attached

LEMMA DataKeeps ==
    ASSUME EventsInv, Data
    PROVE  EventsInv'
<1>1. PICK n \in attached : D' = data(D, n) \/ D' = removeData(D, n)
  BY DEF Data
<1>2. n \in Nodes /\ DataOk(D)
  BY DEF attached, EventsInv, BindsOk
<1>3. /\ eventOps' \in 0..MaxEventOps
      /\ UNCHANGED <<cuts, listeners, capturing, frames, binds, removed>>
  BY TurnIs DEF Data
<1>4. entry(D, n) \in EntryRecords
  BY <1>2, HasIs
<1>5. ASSUME NEW e, e.events = entry(D, n).events, e.attaches = entry(D, n).attaches,
             NEW there \in BOOLEAN, Becomes(D', D, n, there, e)
      PROVE  EventsInv'
  <2>1. /\ \A m \in Nodes : entry(D', m).events = entry(D, m).events
        /\ entry(D', document).attaches = entry(D, document).attaches
    BY <1>5, EntryTypes DEF Becomes
  <2>2. \A m \in Nodes \ attached : ~hasEntry(D', m)
    BY <1>1, <1>5 DEF Becomes, EventsInv, BindsOk
  <2> QED BY <1>3, <1>5, <2>1, <2>2, SameEvents DEF Becomes
<1>6. CASE D' = data(D, n)
  <2>1. PICK e : e = [entry(D, n) EXCEPT !.user = TRUE]
    OBVIOUS
  <2>2. e \in EntryRecords /\ e.user /\ e.events = entry(D, n).events /\ e.attaches = entry(D, n).attaches
    BY <1>4, <2>1 DEF EntryRecords
  <2>3. D' = put(D, n, e)
    BY <1>6, <2>1 DEF data
  <2>4. Becomes(D', D, n, TRUE, e)
    <3>1. e # NewEntry
      BY <2>2 DEF NewEntry
    <3> QED BY <1>2, <2>2, <2>3, <3>1, DataPutIs
  <2> QED BY <1>5, <2>2, <2>4
<1>7. CASE D' = removeData(D, n)
  <2>1. PICK e : e = [entry(D, n) EXCEPT !.user = FALSE]
    OBVIOUS
  <2>2. e \in EntryRecords /\ e.events = entry(D, n).events /\ e.attaches = entry(D, n).attaches
    BY <1>4, <2>1 DEF EntryRecords
  <2>3. D' = internalRemoveData(D, n, e)
    BY <1>7, <2>1 DEF removeData
  <2>4. CASE hasEntry(D, n)
    <3>1. Becomes(D', D, n, e # NewEntry, e)
      BY <1>2, <2>2, <2>3, <2>4, RemoveDataIs
    <3> QED BY <1>5, <2>2, <3>1
  <2>5. CASE ~hasEntry(D, n)
    <3>1. D' = D
      BY <1>2, <2>2, <2>3, <2>5, RemoveDataIs
    <3>2. \A m \in Nodes \ attached : ~hasEntry(D', m)
      BY <3>1 DEF EventsInv, BindsOk
    <3> QED BY <1>2, <1>3, <3>1, <3>2, SameEvents
  <2> QED BY <2>4, <2>5
<1> QED BY <1>1, <1>6, <1>7

\* A handler h is bound to n for t.
Added(new, n, t, h) ==
    /\ DataOk(new)
    /\ \A m \in Nodes : hasEntry(new, m) => hasEntry(D, m) \/ m = n \/ m = document
    /\ \A m \in Nodes \ {n} : entry(new, m).events = entry(D, m).events
    /\ \A u \in EventTypes \ {t} : entry(new, n).events[u] = bound(n, u)
    /\ entry(new, n).events[t] = insert(bound(n, t), h)

LEMMA AddedIs ==
    ASSUME EventsInv, NEW n \in Nodes, NEW t \in EventTypes, NEW fn \in Functions, NEW one \in BOOLEAN,
           NEW selector \in {NoSelector} \cup Nodes, addEvent(n, t, fn, selector, one),
           NEW h, h = [number |-> binds + 1, fn |-> fn, selector |-> selector, one |-> one]
    PROVE  /\ h \in HandleObjs /\ h.number = binds + 1 /\ binds + 1 \in 1..MaxBinds /\ binds' = binds + 1
           /\ Added(D', n, t, h)
           /\ entry(D', document).attaches
                = entry(D, document).attaches + (IF t = "focusin" /\ bound(n, t) = <<>> THEN 1 ELSE 0)
<1> DEFINE e == [entry(D, n) EXCEPT !.handle = TRUE, !.events[t] = insert(@, h)]
           d == put(D, n, e)
           e2 == [entry(d, document) EXCEPT !.attaches = @ + 1]
<1>1. DataOk(D) /\ HandlersOk /\ ListensAsHandled /\ binds \in 0..MaxBinds /\ document \in Nodes
  BY EntryTypes DEF EventsInv, BindsOk
<1>2. binds + 1 \in 1..MaxBinds /\ binds' = binds + 1
  BY <1>1, EventsAssumption DEF addEvent
<1>3. h \in HandleObjs /\ h.number = binds + 1
  BY <1>2 DEF HandleObjs
<1>4. /\ D' = IF bound(n, t) = <<>> /\ t = "focusin" THEN put(d, document, e2) ELSE d
  BY DEF addEvent, attach
<1>5. /\ bound(n, t) \in Seq(HandleObjs) /\ First(bound(n, t)) /\ Distinct(bound(n, t))
      /\ \A i \in DOMAIN bound(n, t) : bound(n, t)[i].number # h.number
  <2>1. \A i \in DOMAIN bound(n, t) : bound(n, t)[i].number \in 1..binds
    BY <1>1 DEF HandlersOk
  <2> QED BY <1>1, <1>3, <2>1, BoundIs
<1>6. insert(bound(n, t), h) \in Seq(HandleObjs)
  BY <1>3, <1>5, InsertIs
<1>7. /\ e \in EntryRecords /\ e # NewEntry /\ e.attaches = entry(D, n).attaches
      /\ e.events[t] = insert(bound(n, t), h) /\ \A u \in EventTypes \ {t} : e.events[u] = bound(n, u)
  <2>1. entry(D, n) \in EntryRecords
    BY <1>1, HasIs
  <2>2. e \in EntryRecords /\ e.handle
    BY <1>6, <2>1 DEF EntryRecords, bound
  <2>3. e # NewEntry
    BY <2>2 DEF NewEntry
  <2> QED BY <2>1, <2>2, <2>3 DEF EntryRecords, bound
<1> HIDE DEF e
<1>8. Becomes(d, D, n, TRUE, e)
  BY <1>1, <1>7, DataPutIs
<1> HIDE DEF d
<1>9. Added(d, n, t, h) /\ entry(d, document).attaches = entry(D, document).attaches
  BY <1>1, <1>7, <1>8 DEF Becomes, Added
<1>10. entry(D, document).attaches \in Nat
  BY <1>1, CountedIs
<1>11. CASE ~(bound(n, t) = <<>> /\ t = "focusin")
  <2>1. D' = d
    BY <1>4, <1>11
  <2>2. entry(D', document).attaches
          = entry(D, document).attaches + (IF t = "focusin" /\ bound(n, t) = <<>> THEN 1 ELSE 0)
    BY <1>9, <1>10, <1>11, <2>1
  <2> QED BY <1>2, <1>3, <1>9, <2>1, <2>2
<1>12. CASE bound(n, t) = <<>> /\ t = "focusin"
  <2>1. D' = put(d, document, e2)
    BY <1>4, <1>12
  <2>2. entry(d, document) \in EntryRecords /\ DataOk(d)
    BY <1>1, <1>8, HasIs DEF Becomes
  <2>3. e2 \in EntryRecords /\ e2.attaches = entry(d, document).attaches + 1
        /\ e2.events = entry(d, document).events
    BY <2>2 DEF EntryRecords
  <2>4. e2.attaches = entry(D, document).attaches + 1
    BY <1>9, <2>3
  <2> HIDE DEF e2
  <2>5. e2 # NewEntry
    <3>1. e2.attaches # 0
      BY <1>10, <2>4
    <3> QED BY <3>1, EntryTypes
  <2>6. Becomes(put(d, document, e2), d, document, TRUE, e2)
    BY <1>1, <2>2, <2>3, <2>5, DataPutIs
  <2>7. Becomes(D', d, document, TRUE, e2)
    BY <2>1, <2>6
  <2>8. \A m \in Nodes : entry(D', m).events = entry(d, m).events
    BY <2>3, <2>7 DEF Becomes
  <2>9. \A m \in Nodes : hasEntry(D', m) => hasEntry(d, m) \/ m = document
    BY <2>7 DEF Becomes
  <2>10. Added(D', n, t, h)
    BY <1>9, <2>7, <2>8, <2>9 DEF Added, Becomes
  <2>11. entry(D', document).attaches
          = entry(D, document).attaches + (IF t = "focusin" /\ bound(n, t) = <<>> THEN 1 ELSE 0)
    BY <1>12, <2>4, <2>7 DEF Becomes
  <2> QED BY <1>2, <1>3, <2>10, <2>11
<1> QED BY <1>11, <1>12

LEMMA OnKeeps ==
    ASSUME EventsInv, On
    PROVE  EventsInv'
<1>1. PICK n \in attached, t \in EventTypes, fn \in Functions, one \in BOOLEAN :
         \E selector \in {NoSelector} \cup 1..(n - 1) : addEvent(n, t, fn, selector, one)
  BY DEF On
<1>2. n \in Nodes /\ \A s \in 1..(n - 1) : s \in Nodes
  <2>1. n \in Nodes
    BY DEF attached
  <2> QED BY <2>1, EventsAssumption DEF Nodes
<1>3. PICK selector \in {NoSelector} \cup Nodes : addEvent(n, t, fn, selector, one)
  BY <1>1, <1>2
<1>4. PICK h : h = [number |-> binds + 1, fn |-> fn, selector |-> selector, one |-> one]
  OBVIOUS
<1>5. /\ h \in HandleObjs /\ h.number = binds + 1 /\ binds + 1 \in 1..MaxBinds /\ binds' = binds + 1
      /\ Added(D', n, t, h)
      /\ entry(D', document).attaches
           = entry(D, document).attaches + (IF t = "focusin" /\ bound(n, t) = <<>> THEN 1 ELSE 0)
  BY <1>2, <1>3, <1>4, AddedIs
<1>6. /\ DataOk(D) /\ HandlersOk /\ ListensAsHandled /\ binds \in Nat /\ document \in Nodes
      /\ cuts \subseteq Nodes \ {document} /\ removed \subseteq 1..binds
      /\ \A m \in Nodes \ attached : ~hasEntry(D, m)
  BY EntryTypes, EventsAssumption DEF EventsInv, BindsOk
<1>7. UNCHANGED <<cuts, frames, removed>> /\ eventOps' \in 0..MaxEventOps
  BY TurnIs DEF On
<1>8. /\ \A m \in Nodes, u \in EventTypes : m # n \/ u # t => bound(m, u)' = bound(m, u)
      /\ bound(n, t)' = insert(bound(n, t), h)
  BY <1>5 DEF Added, bound
<1>9. \A m \in Nodes, u \in EventTypes : \A i \in DOMAIN bound(m, u) : bound(m, u)[i].number \in (1..binds) \ removed
  BY <1>6 DEF HandlersOk
<1>10. /\ bound(n, t)' # <<>> /\ First(bound(n, t)') /\ Distinct(bound(n, t)')
       /\ \A i \in DOMAIN bound(n, t)' :
            bound(n, t)'[i] = h \/ \E j \in DOMAIN bound(n, t) : bound(n, t)'[i] = bound(n, t)[j]
       /\ \A j \in DOMAIN bound(n, t) : \E i \in DOMAIN bound(n, t)' : bound(n, t)'[i] = bound(n, t)[j]
  <2>1. bound(n, t) \in Seq(HandleObjs) /\ First(bound(n, t)) /\ Distinct(bound(n, t))
    BY <1>2, <1>6, BoundIs
  <2>2. \A i \in DOMAIN bound(n, t) : bound(n, t)[i].number # h.number
    BY <1>2, <1>5, <1>6, <1>9
  <2> QED BY <1>5, <1>8, <2>1, <2>2, InsertIs
<1>11. Noted
  <2>1. ASSUME NEW m \in Nodes, NEW u \in EventTypes, NEW g, IsBound(g, m, u)
        PROVE  IsBound(g, m, u)'
    <3>1. CASE m = n /\ u = t
      BY <1>10, <2>1, <3>1 DEF IsBound
    <3>2. CASE m # n \/ u # t
      BY <1>8, <2>1, <3>2 DEF IsBound
    <3> QED BY <3>1, <3>2
  <2> QED BY <1>7, <2>1 DEF Noted
<1>12. FramesOk'
  BY <1>7, <1>11, FramesStay DEF EventsInv
<1>13. HandlersOk'
  <2>1. \A m \in Nodes, u \in EventTypes : \A i \in DOMAIN bound(m, u)' :
          \/ m = n /\ u = t /\ bound(m, u)'[i] = h
          \/ \E j \in DOMAIN bound(m, u) : bound(m, u)'[i] = bound(m, u)[j]
    BY <1>8, <1>10
  <2>2. ASSUME NEW m \in Nodes, NEW u \in EventTypes, NEW i \in DOMAIN bound(m, u)'
        PROVE  bound(m, u)'[i].number \in (1..binds') \ removed'
    <3>1. CASE bound(m, u)'[i] = h
      BY <1>5, <1>6, <1>7, <3>1
    <3>2. CASE \E j \in DOMAIN bound(m, u) : bound(m, u)'[i] = bound(m, u)[j]
      BY <1>5, <1>6, <1>7, <1>9, <3>2
    <3> QED BY <2>1, <3>1, <3>2
  <2>3. ASSUME NEW m \in Nodes, NEW p \in Nodes, NEW u \in EventTypes, NEW v \in EventTypes,
               NEW i \in DOMAIN bound(m, u)', NEW j \in DOMAIN bound(p, v)',
               bound(m, u)'[i].number = bound(p, v)'[j].number
        PROVE  m = p /\ u = v /\ i = j
    <3>1. ASSUME NEW k \in DOMAIN bound(m, u), bound(m, u)'[i] = bound(m, u)[k],
                 NEW l \in DOMAIN bound(p, v), bound(p, v)'[j] = bound(p, v)[l]
          PROVE  m = p /\ u = v
      BY <1>6, <2>3, <3>1 DEF HandlersOk
    <3>2. ASSUME NEW k \in DOMAIN bound(m, u), bound(m, u)'[i] = bound(m, u)[k], bound(p, v)'[j] = h
          PROVE  FALSE
      BY <1>5, <1>6, <1>9, <2>3, <3>2
    <3>3. ASSUME NEW k \in DOMAIN bound(p, v), bound(p, v)'[j] = bound(p, v)[k], bound(m, u)'[i] = h
          PROVE  FALSE
      BY <1>5, <1>6, <1>9, <2>3, <3>3
    <3>4. m = p /\ u = v
      BY <2>1, <3>1, <3>2, <3>3
    <3>5. Distinct(bound(m, u)')
      <4>1. CASE m = n /\ u = t
        BY <1>10, <4>1
      <4>2. CASE m # n \/ u # t
        BY <1>6, <1>8, <4>2, BoundIs
      <4> QED BY <4>1, <4>2
    <3>6. i = j
      BY <2>3, <3>4, <3>5 DEF Distinct
    <3> QED BY <3>4, <3>6
  <2>4. DelegatesFirst'
    <3>1. ASSUME NEW m \in Nodes, NEW u \in EventTypes
          PROVE  First(bound(m, u)')
      <4>1. CASE m = n /\ u = t
        BY <1>10, <4>1
      <4>2. CASE m # n \/ u # t
        BY <1>6, <1>8, <4>2, BoundIs
      <4> QED BY <4>1, <4>2
    <3> QED BY <3>1 DEF DelegatesFirst, First
  <2> QED BY <2>2, <2>3, <2>4 DEF HandlersOk
<1>14. \A m \in Nodes, u \in EventTypes : bound(m, u)' # <<>> <=> bound(m, u) # <<>> \/ (m = n /\ u = t)
  BY <1>8, <1>10
<1>15. /\ listeners' = IF bound(n, t) = <<>> /\ t # "focusin" THEN listeners \cup {<<n, t>>} ELSE listeners
       /\ capturing' = IF bound(n, t) = <<>> /\ t = "focusin" THEN TRUE ELSE capturing
  BY <1>3 DEF addEvent, attach
<1>16. ListensAsHandled'
  <2>1. listeners' = {l \in Nodes \X (EventTypes \ {"focusin"}) : bound(l[1], l[2])' # <<>>}
    <3>1. listeners = {l \in Nodes \X (EventTypes \ {"focusin"}) : bound(l[1], l[2]) # <<>>}
      BY <1>6 DEF ListensAsHandled
    <3>2. ASSUME NEW l \in Nodes \X (EventTypes \ {"focusin"})
          PROVE  bound(l[1], l[2])' # <<>> <=> bound(l[1], l[2]) # <<>> \/ l = <<n, t>>
      <4>1. l = <<l[1], l[2]>> /\ l[1] \in Nodes /\ l[2] \in EventTypes \ {"focusin"}
        OBVIOUS
      <4> QED BY <1>14, <4>1
    <3>3. CASE bound(n, t) = <<>> /\ t # "focusin"
      <4>1. listeners' = listeners \cup {<<n, t>>} /\ <<n, t>> \in Nodes \X (EventTypes \ {"focusin"})
        BY <1>2, <1>15, <3>3
      <4> QED BY <3>1, <3>2, <4>1
    <3>4. CASE ~(bound(n, t) = <<>> /\ t # "focusin")
      <4>1. listeners' = listeners
        BY <1>15, <3>4
      <4>2. \A l \in Nodes \X (EventTypes \ {"focusin"}) : l = <<n, t>> => bound(l[1], l[2]) # <<>>
        BY <3>4
      <4> QED BY <3>1, <3>2, <4>1, <4>2
    <3> QED BY <3>3, <3>4
  <2>2. entry(D, document).attaches = Cardinality(Focused) /\ entry(D, document).attaches \in Nat
    BY <1>6, CountedIs
  <2>3. entry(D', document).attaches = Cardinality(Focused')
    <3>1. CASE t = "focusin" /\ bound(n, t) = <<>>
      <4>1. Focused' = Focused \cup {n} /\ n \notin Focused
        BY <1>2, <1>14, <3>1, EventsAssumption DEF Focused
      <4>2. Cardinality(Focused') = Cardinality(Focused) + 1
        BY <4>1, FocusedIs, FS_AddElement
      <4> QED BY <1>5, <2>2, <3>1, <4>2
    <3>2. CASE ~(t = "focusin" /\ bound(n, t) = <<>>)
      <4>1. Focused' = Focused
        BY <1>14, <3>2, EventsAssumption DEF Focused
      <4> QED BY <1>5, <2>2, <3>2, <4>1
    <3> QED BY <3>1, <3>2
  <2>4. capturing' <=> entry(D', document).attaches > 0
    <3>1. capturing <=> entry(D, document).attaches > 0
      BY <1>6 DEF ListensAsHandled
    <3> QED BY <1>5, <1>15, <2>2, <3>1
  <2> QED BY <2>1, <2>3, <2>4 DEF ListensAsHandled, Focused
<1>17. \A m \in Nodes \ attached' : ~hasEntry(D', m)
  <2>1. document \in attached
    BY <1>6, EventsAssumption DEF attached, Nodes, document
  <2>2. attached' = attached
    BY <1>7 DEF attached
  <2> QED BY <1>1, <1>5, <1>6, <2>1, <2>2 DEF Added
<1>18. removed' \subseteq 1..binds' /\ binds' \in 0..MaxBinds
  BY <1>5, <1>6, <1>7
<1> QED BY <1>5, <1>6, <1>7, <1>12, <1>13, <1>16, <1>17, <1>18 DEF EventsInv, BindsOk, Added

\* An element and what is inside it is cleaned.
LEMMA CleanedData ==
    ASSUME EventsInv, NEW n \in attached, n # document,
           NEW focus, focus = {m \in inside(n) : bound(m, "focusin") # <<>>},
           NEW f, Cleans(f, detach(D, focus), inside(n), n)
    PROVE  /\ n \in Nodes /\ inside(n) \subseteq 1..n /\ document \notin inside(n)
           /\ \A m \in 1..n : m \in Nodes /\ (hasEntry(D, m) => m \in inside(n))
           /\ focus = Focused \cap inside(n)
           /\ DataOk(f[n])
           /\ \A m \in inside(n) : ~hasEntry(f[n], m) /\ entry(f[n], m).events = NoEvents
           /\ \A m \in Nodes \ inside(n) : /\ entry(f[n], m).events = entry(D, m).events
                                           /\ hasEntry(f[n], m) => hasEntry(D, m)
           /\ entry(f[n], document).attaches = entry(D, document).attaches - Cardinality(focus)
<1> DEFINE I == inside(n)
           d == detach(D, focus)
<1>1. /\ DataOk(D) /\ ListensAsHandled /\ \A m \in Nodes \ attached : ~hasEntry(D, m)
  BY DEF EventsInv, BindsOk
<1>2. n \in Nodes /\ attached \subseteq Nodes /\ document \in Nodes
  BY EntryTypes DEF attached
<1>3. I \subseteq 1..n /\ document \notin I /\ \A m \in 1..n : m \in Nodes
  BY <1>2, EventsAssumption DEF inside, Nodes, document
<1>4. \A m \in 1..n : hasEntry(D, m) => m \in I
  BY <1>1, <1>2, <1>3 DEF inside
<1>5. focus = Focused \cap I
  BY <1>3 DEF Focused
<1>6. IsFiniteSet(focus) /\ Cardinality(focus) <= Cardinality(Focused)
  <2>1. focus \in SUBSET Focused
    BY <1>5
  <2> QED BY <2>1, FocusedIs, FS_Subset
<1>7. Detached(d, Cardinality(focus))
  BY <1>1, <1>6, DetachIs
<1>8. DataOk(d) /\ I \in SUBSET (1..n) /\ Cleans(f, d, I, n)
  BY <1>3, <1>7 DEF Detached
<1> HIDE DEF d, I
<1>9. CleanedOf(f[n], d, I)
  BY <1>2, <1>8, CleansIs
<1>10. /\ DataOk(f[n])
       /\ \A m \in I : ~hasEntry(f[n], m) /\ entry(f[n], m).events = NoEvents
       /\ \A m \in Nodes \ I : /\ entry(f[n], m).events = entry(D, m).events
                               /\ hasEntry(f[n], m) => hasEntry(D, m)
       /\ entry(f[n], document).attaches = entry(D, document).attaches - Cardinality(focus)
  BY <1>2, <1>3, <1>7, <1>9, EntryTypes DEF CleanedOf, Detached
<1> QED BY <1>2, <1>3, <1>4, <1>5, <1>10 DEF I

LEMMA CleanKeeps ==
    ASSUME EventsInv, cleanData
    PROVE  EventsInv'
<1>1. PICK n \in attached \ {document} :
         /\ cuts' = cuts \cup {n}
         /\ D' = cleanAll(n, {m \in inside(n) : bound(m, "focusin") # <<>>})
         /\ listeners' = {l \in listeners : l[1] \notin inside(n)}
         /\ capturing' = (entry(D', document).attaches > 0)
         /\ removed' = removed \cup UNION {numbers(m) : m \in 1..n}
  BY DEF cleanData
<1> DEFINE I == inside(n)
           gone == UNION {numbers(m) : m \in 1..n}
<1>2. /\ cuts' = cuts \cup {n}
      /\ listeners' = {l \in listeners : l[1] \notin I}
      /\ capturing' = (entry(D', document).attaches > 0)
      /\ removed' = removed \cup gone
      /\ n \in attached /\ n # document
  BY <1>1
<1>5. PICK F : F = {m \in inside(n) : bound(m, "focusin") # <<>>}
  OBVIOUS
<1>4. PICK f : Cleans(f, detach(D, F), inside(n), n) /\ D' = f[n]
  <2> DEFINE c == CHOOSE c : c = [m \in 0..n |-> IF m = 0 THEN detach(D, F)
                                   ELSE IF m \in inside(n) THEN discard(c[m - 1], m) ELSE c[m - 1]]
  <2>1. n \in Nat
    BY <1>2 DEF attached, Nodes
  <2>2. \E g : Cleans(g, detach(D, F), inside(n), n)
    BY <2>1, CleansExist
  <2>3. \E g : g = [m \in 0..n |-> IF m = 0 THEN detach(D, F)
                                   ELSE IF m \in inside(n) THEN discard(g[m - 1], m) ELSE g[m - 1]]
    BY <2>2 DEF Cleans
  <2>4. Cleans(c, detach(D, F), inside(n), n)
    BY <2>3 DEF Cleans
  <2>5. cleanAll(n, F) = c[n]
    BY DEF cleanAll
  <2> HIDE DEF c
  <2> QED BY <1>1, <1>5, <2>4, <2>5
<1>6. Cleans(f, detach(D, F), inside(n), n) /\ F = {m \in inside(n) : bound(m, "focusin") # <<>>}
  BY <1>4, <1>5
<1>7. /\ n \in Nodes /\ I \subseteq 1..n /\ document \notin I
      /\ \A m \in 1..n : m \in Nodes /\ (hasEntry(D, m) => m \in I)
      /\ F = Focused \cap I
      /\ DataOk(D')
      /\ \A m \in I : ~hasEntry(D', m) /\ entry(D', m).events = NoEvents
      /\ \A m \in Nodes \ I : /\ entry(D', m).events = entry(D, m).events
                              /\ hasEntry(D', m) => hasEntry(D, m)
      /\ entry(D', document).attaches = entry(D, document).attaches - Cardinality(F)
  BY <1>2, <1>4, <1>6, CleanedData
<1>8. I = attached \cap 1..n
  BY DEF inside
<1> HIDE DEF I
<1>9. /\ DataOk(D) /\ HandlersOk /\ ListensAsHandled /\ removed \subseteq 1..binds /\ document \in Nodes
      /\ cuts \subseteq Nodes \ {document} /\ binds \in 0..MaxBinds
      /\ \A m \in Nodes \ attached : ~hasEntry(D, m)
  BY EntryTypes DEF EventsInv, BindsOk
<1>10. UNCHANGED <<frames, binds>> /\ eventOps' \in 0..MaxEventOps
  BY TurnIs DEF cleanData
<1>11. \A m \in Nodes, t \in EventTypes : bound(m, t)' = IF m \in I THEN <<>> ELSE bound(m, t)
  BY <1>7 DEF bound, NoEvents
<1>12. \A x : x \in gone <=>
          \E m \in 1..n, t \in EventTypes : \E i \in DOMAIN bound(m, t) : bound(m, t)[i].number = x
  <2>1. \A x : x \in gone <=> \E m \in 1..n : x \in numbers(m)
    OBVIOUS
  <2>2. \A m \in 1..n : \A x : x \in numbers(m) <=> \E t \in EventTypes : \E i \in DOMAIN bound(m, t) : bound(m, t)[i].number = x
    <3>1. \A m \in 1..n, t \in EventTypes : \A i \in DOMAIN bound(m, t) : bound(m, t)[i].number \in 1..binds
      BY <1>7, <1>9 DEF HandlersOk
    <3> QED BY <3>1 DEF numbers
  <2> HIDE DEF gone
  <2> QED BY <2>1, <2>2
<1> HIDE DEF gone
<1>13. \A m \in 1..n, t \in EventTypes : bound(m, t) # <<>> => m \in I
  <2> SUFFICES ASSUME NEW m \in 1..n, NEW t \in EventTypes, m \notin I PROVE bound(m, t) = <<>>
    OBVIOUS
  <2>1. m \in Nodes /\ ~hasEntry(D, m)
    BY <1>7
  <2> QED BY <1>9, <2>1, HasIs, EntryTypes DEF bound, NoEvents
<1>14. Shrinks
  <2>1. removed' \subseteq 1..binds
    <3>1. ASSUME NEW x \in gone PROVE x \in 1..binds
      <4>1. PICK m \in 1..n, t \in EventTypes : \E i \in DOMAIN bound(m, t) : bound(m, t)[i].number = x
        BY <1>12
      <4> QED BY <1>7, <1>9, <4>1 DEF HandlersOk
    <3> QED BY <1>2, <1>9, <3>1
  <2>2. ASSUME NEW m \in Nodes, NEW t \in EventTypes
        PROVE  /\ First(bound(m, t)') /\ Distinct(bound(m, t)')
               /\ \A i \in DOMAIN bound(m, t)' : /\ bound(m, t)'[i].number \notin removed'
                                                /\ \E j \in DOMAIN bound(m, t) : bound(m, t)'[i] = bound(m, t)[j]
               /\ \A h : IsBound(h, m, t) => h.number \in removed' \/ IsBound(h, m, t)'
    <3>1. CASE m \in I
      <4>1. bound(m, t)' = <<>> /\ m \in 1..n
        BY <1>7, <1>11, <3>1
      <4>2. \A h : IsBound(h, m, t) => h.number \in removed'
        BY <1>2, <1>12, <4>1 DEF IsBound
      <4> QED BY <4>1, <4>2 DEF First, Distinct
    <3>2. CASE m \notin I
      <4>1. bound(m, t)' = bound(m, t)
        BY <1>11, <3>2
      <4>2. First(bound(m, t)) /\ Distinct(bound(m, t)) /\ bound(m, t) \in Seq(HandleObjs)
        BY <1>9, BoundIs
      <4>3. \A i \in DOMAIN bound(m, t) : bound(m, t)[i].number \notin removed'
        <5> SUFFICES ASSUME NEW i \in DOMAIN bound(m, t), bound(m, t)[i].number \in gone PROVE FALSE
          BY <1>2, <1>9 DEF HandlersOk
        <5>1. PICK p \in 1..n, u \in EventTypes : \E j \in DOMAIN bound(p, u) : bound(p, u)[j].number = bound(m, t)[i].number
          BY <1>12
        <5>2. m = p
          BY <1>7, <1>9, <5>1 DEF HandlersOk
        <5>3. bound(m, t) # <<>>
          OBVIOUS
        <5> QED BY <1>13, <3>2, <5>2, <5>3
      <4> QED BY <4>1, <4>2, <4>3 DEF IsBound
    <3> QED BY <3>1, <3>2
  <2> QED BY <1>2, <2>1, <2>2 DEF Shrinks
<1>15. HandlersOk' /\ FramesOk'
  BY <1>9, <1>10, <1>14, HandlersShrink, ShrinksNoted, FramesStay DEF EventsInv
<1>16. ListensAsHandled'
  <2>1. listeners' = {l \in Nodes \X (EventTypes \ {"focusin"}) : bound(l[1], l[2])' # <<>>}
    <3>1. listeners = {l \in Nodes \X (EventTypes \ {"focusin"}) : bound(l[1], l[2]) # <<>>}
      BY <1>9 DEF ListensAsHandled
    <3>2. ASSUME NEW l \in Nodes \X (EventTypes \ {"focusin"})
          PROVE  bound(l[1], l[2])' # <<>> <=> bound(l[1], l[2]) # <<>> /\ l[1] \notin I
      BY <1>11
    <3> QED BY <1>2, <3>1, <3>2
  <2>2. entry(D', document).attaches = Cardinality(Focused')
    <3>1. entry(D, document).attaches = Cardinality(Focused)
      BY <1>9, CountedIs
    <3>2. Focused' = Focused \ I
      BY <1>11, EventsAssumption DEF Focused
    <3>3. Cardinality(Focused \ I) = Cardinality(Focused) - Cardinality(Focused \cap I)
      BY FocusedIs, FS_Difference
    <3> QED BY <1>7, <3>1, <3>2, <3>3
  <2> QED BY <1>2, <2>1, <2>2 DEF ListensAsHandled, Focused
<1>17. \A m \in Nodes \ attached' : ~hasEntry(D', m)
  <2> SUFFICES ASSUME NEW m \in Nodes, m \notin attached', hasEntry(D', m) PROVE FALSE
    OBVIOUS
  <2>1. m \notin I /\ hasEntry(D, m)
    BY <1>7
  <2>2. m \in attached /\ m \notin 1..n
    BY <1>8, <1>9, <2>1
  <2>3. \A k \in cuts' : k < m
    BY <1>2, <1>7, <2>2 DEF attached, Nodes
  <2> QED BY <2>3 DEF attached
<1>18. removed' \subseteq 1..binds' /\ cuts' \subseteq Nodes \ {document}
  BY <1>2, <1>7, <1>9, <1>10, <1>14 DEF Shrinks
<1> QED BY <1>7, <1>9, <1>10, <1>15, <1>16, <1>17, <1>18 DEF EventsInv, BindsOk

\* What is bound stays as it is.
LEMMA SameBinds ==
    ASSUME EventsInv, UNCHANGED <<D, cuts, listeners, capturing, binds, removed>>, eventOps' \in 0..MaxEventOps
    PROVE  BindsOk' /\ Noted
<1>1. \A n \in Nodes, t \in EventTypes : bound(n, t)' = bound(n, t)
  BY DEF bound
<1>2. HandlersOk'
  <2>1. HandlersOk /\ DelegatesFirst
    BY DEF EventsInv, BindsOk, HandlersOk
  <2>2. DelegatesFirst'
    BY <1>1, <2>1 DEF DelegatesFirst
  <2> QED BY <1>1, <2>1, <2>2 DEF HandlersOk
<1>3. ListensAsHandled'
  <2>1. ListensAsHandled
    BY DEF EventsInv, BindsOk
  <2>2. Focused' = Focused
    BY <1>1, EventsAssumption DEF Focused
  <2>3. \A l \in Nodes \X (EventTypes \ {"focusin"}) : bound(l[1], l[2])' = bound(l[1], l[2])
    BY <1>1
  <2> QED BY <2>1, <2>2, <2>3 DEF ListensAsHandled, Focused
<1>4. Noted
  BY <1>1 DEF Noted, IsBound
<1> QED BY <1>2, <1>3, <1>4 DEF EventsInv, BindsOk, attached

LEMMA StartKeeps ==
    ASSUME EventsInv, EventTurn, NEW n \in attached, NEW t \in EventTypes, start(n, t),
           UNCHANGED <<D, cuts, listeners, capturing, binds, removed>>
    PROVE  EventsInv'
<1>1. BindsOk' /\ Noted
  BY TurnIs, SameBinds
<1>2. PICK p : p = [i \in 1..(Depth + 1 - n) |-> n + i - 1]
  OBVIOUS
<1>3. n \in Nodes /\ p \in Seq(Nodes)
  <2>1. n \in 1..Depth /\ Depth \in Nat
    BY EventsAssumption DEF attached, Nodes
  <2>2. Depth + 1 - n \in Nat /\ \A i \in 1..(Depth + 1 - n) : n + i - 1 \in 1..Depth
    BY <2>1
  <2> QED BY <1>2, <2>1, <2>2, IsASeq DEF Nodes
<1>4. PICK F : F = [type |-> t, target |-> n, path |-> p, at |-> NoNode, queue |-> <<>>,
                    running |-> FALSE, stop |-> NoNode, late |-> {}]
  OBVIOUS
<1>5. F \in FrameRecords /\ FrameOk(F)
  BY <1>3, <1>4 DEF FrameRecords, FrameOk, NoNode
<1>6. frames' = Append(frames, F)
  BY <1>2, <1>4 DEF start
<1>7. PICK L \in Nat : L = Len(frames) /\ DOMAIN frames = 1..L /\ frames \in Seq(FrameRecords)
  BY DEF EventsInv, FramesOk
<1>8. /\ frames' \in Seq(FrameRecords) /\ DOMAIN frames' = 1..(L + 1) /\ frames'[L + 1] = F
      /\ \A f \in 1..L : frames'[f] = frames[f]
  BY <1>5, <1>6, <1>7
<1>9. \A f \in 1..(L + 1) : f \in 1..L \/ f = L + 1
  OBVIOUS
<1>10. ASSUME NEW f \in 1..(L + 1)
       PROVE  FrameOk(frames[f])'
  <2>1. CASE f = L + 1
    <3>1. FrameOk(F)'
      BY <1>1, <1>5, FrameStays
    <3> QED BY <1>8, <2>1, <3>1 DEF FrameOk, Pending, IsBound, handler
  <2>2. CASE f \in 1..L
    <3>1. PICK G : G = frames[f]
      OBVIOUS
    <3>2. G \in FrameRecords /\ FrameOk(G)
      BY <1>7, <2>2, <3>1 DEF EventsInv, FramesOk
    <3>3. FrameOk(G)'
      BY <1>1, <3>2, FrameStays
    <3>4. frames'[f] = G
      BY <1>8, <2>2, <3>1
    <3> QED BY <3>3, <3>4 DEF FrameOk, Pending, IsBound, handler
  <2> QED BY <1>9, <2>1, <2>2
<1>11. ASSUME NEW f \in 1..(L + 1), NEW g \in 1..(L + 1), f < g
       PROVE  NotAgain(frames'[f], frames'[g])
  <2>1. CASE g = L + 1
    BY <1>4, <1>8, <2>1 DEF NotAgain
  <2>2. CASE g \in 1..L
    <3>1. f \in 1..L
      BY <1>11, <2>2
    <3>2. NotAgain(frames[f], frames[g])
      BY <1>7, <1>11, <2>2, <3>1 DEF EventsInv, FramesOk
    <3> QED BY <1>8, <2>2, <3>1, <3>2
  <2> QED BY <1>9, <2>1, <2>2
<1>12. FramesOk'
  <2>1. \A f \in DOMAIN frames' : FrameOk(frames[f])'
    BY <1>8, <1>10
  <2>2. \A f, g \in DOMAIN frames' : f < g => NotAgain(frames'[f], frames'[g])
    BY <1>8, <1>11
  <2> QED BY <1>8, <2>1, <2>2 DEF FramesOk
<1> QED BY <1>1, <1>12 DEF EventsInv

LEMMA TriggerKeeps ==
    ASSUME EventsInv, Trigger \/ FromUser
    PROVE  EventsInv'
<1>1. /\ EventTurn /\ UNCHANGED <<D, cuts, listeners, capturing, binds, removed>>
      /\ \E n \in attached, t \in EventTypes : start(n, t)
  BY DEF Trigger, FromUser
<1> QED BY <1>1, StartKeeps

\* The innermost event.
LEMMA TopIs ==
    ASSUME EventsInv, frames # <<>>
    PROVE  /\ top \in FrameRecords /\ FrameOk(top) /\ Len(frames) \in Nat
           /\ \A f \in 1..(Len(frames) - 1) :
                frames[f] \in FrameRecords /\ FrameOk(frames[f]) /\ NotAgain(frames[f], top)
<1>1. FramesOk
  BY DEF EventsInv
<1>2. PICK L \in Nat : L = Len(frames) /\ L > 0 /\ DOMAIN frames = 1..L /\ frames \in Seq(FrameRecords)
  BY <1>1 DEF FramesOk
<1>3. L \in 1..L /\ top = frames[L] /\ \A f \in 1..(L - 1) : f \in 1..L /\ f < L
  BY <1>2 DEF top
<1>4. top \in FrameRecords /\ FrameOk(top)
  BY <1>1, <1>2, <1>3 DEF FramesOk
<1>5. ASSUME NEW f \in 1..(L - 1)
      PROVE  frames[f] \in FrameRecords /\ FrameOk(frames[f]) /\ NotAgain(frames[f], top)
  <2>1. f \in DOMAIN frames /\ L \in DOMAIN frames /\ f < L
    BY <1>2, <1>3
  <2>2. frames[f] \in FrameRecords
    BY <1>2, <2>1
  <2> QED BY <1>1, <1>3, <2>1, <2>2 DEF FramesOk
<1> QED BY <1>2, <1>4, <1>5

LEMMA DispatchKeeps ==
    ASSUME EventsInv, Dispatch
    PROVE  EventsInv'
<1>1. /\ frames # <<>> /\ ~top.running /\ top.path # <<>> /\ top.stop = NoNode
      /\ UNCHANGED <<D, cuts, listeners, capturing, binds, eventOps, removed>>
  BY DEF Dispatch
<1>2. BindsOk' /\ Noted
  BY <1>1, SameBinds DEF EventsInv, BindsOk
<1>3. PICK n : n = Head(top.path)
  OBVIOUS
<1>4. PICK F : F = [top EXCEPT !.path = Tail(@), !.at = n, !.queue = handlers(top, n), !.late = removed]
  OBVIOUS
<1>5. frames' = setTop(F)
  BY <1>3, <1>4 DEF Dispatch
<1>6. top \in FrameRecords /\ n \in Nodes /\ Tail(top.path) \in Seq(Nodes) /\ top.type \in EventTypes
  <2>1. top \in FrameRecords
    BY <1>1, TopIs
  <2>2. top.path \in Seq(Nodes) /\ top.type \in EventTypes
    BY <2>1 DEF FrameRecords
  <2> QED BY <1>1, <1>3, <2>1, <2>2
<1>7. /\ DataOk(D) /\ HandlersOk /\ removed \subseteq 1..MaxBinds
  BY EventsAssumption DEF EventsInv, BindsOk
<1>8. handlers(top, n) \in Seq({q \in Matched : \E i \in DOMAIN bound(n, top.type) : q.h = bound(n, top.type)[i]})
  BY <1>6, <1>7, BoundIs, HandlersIs
<1>9. F \in FrameRecords
  <2>1. handlers(top, n) \in Seq(Matched)
    BY <1>8
  <2> HIDE DEF Matched
  <2> QED BY <1>4, <1>6, <1>7, <2>1 DEF FrameRecords
<1>10. /\ F.at = n /\ F.type = top.type /\ F.late = removed /\ F.stop = NoNode /\ ~F.running
       /\ \A i \in DOMAIN F.queue : \E j \in DOMAIN bound(n, F.type) : F.queue[i].h = bound(n, F.type)[j]
  <2>1. /\ F.at = n /\ F.type = top.type /\ F.late = removed /\ F.stop = NoNode /\ ~F.running
        /\ F.queue = handlers(top, n)
    BY <1>1, <1>4, <1>6 DEF FrameRecords
  <2> QED BY <1>8, <2>1
<1>11. \A i \in DOMAIN F.queue : F.queue[i].h.number \notin removed /\ IsBound(F.queue[i].h, F.at, F.type)
  BY <1>6, <1>7, <1>10 DEF HandlersOk, IsBound
<1>12. FrameOk(F)
  BY <1>6, <1>10, <1>11 DEF FrameOk, Pending
<1>13. FrameOk(F)'
  BY <1>2, <1>9, <1>12, FrameStays
<1>14. \A f \in 1..(Len(frames) - 1) : NotAgain(frames[f], F)
  BY <1>1, <1>11, TopIs DEF FrameOk, NotAgain
<1>15. FramesOk'
  BY <1>1, <1>2, <1>5, <1>9, <1>13, <1>14, FramesTop DEF EventsInv
<1> QED BY <1>2, <1>15 DEF EventsInv

LEMMA EventCallKeeps ==
    ASSUME EventsInv, Call
    PROVE  EventsInv'
<1>1. /\ frames # <<>> /\ ~top.running /\ top.queue # <<>>
      /\ unbind(handler(top), top.at, top.type)
      /\ UNCHANGED <<cuts, binds, eventOps>>
  BY DEF Call
<1>2. PICK F : F = [top EXCEPT !.running = TRUE]
  OBVIOUS
<1>3. top \in FrameRecords /\ FrameOk(top)
  BY <1>1, TopIs
<1>4. /\ F \in FrameRecords /\ F.at = top.at /\ F.type = top.type /\ F.late = top.late
      /\ F.stop = top.stop /\ F.queue = top.queue /\ frames' = setTop(F)
  BY <1>1, <1>2, <1>3 DEF FrameRecords, Call
<1>5. PICK h : h = handler(top)
  OBVIOUS
<1>6. /\ top.at \in Nodes /\ top.type \in EventTypes /\ h \in HandleObjs
      /\ h.number \in removed \/ IsBound(h, top.at, top.type)
  <2>1. top.queue \in Seq(Matched) /\ top.type \in EventTypes
    BY <1>3 DEF FrameRecords
  <2>2. 1 \in DOMAIN top.queue /\ Head(top.queue) = top.queue[1] /\ top.queue[1] \in Matched
    BY <1>1, <2>1
  <2>3. Pending(top.queue[1], top) /\ top.at \in Nodes
    BY <1>1, <1>3, <2>2 DEF FrameOk
  <2> QED BY <1>5, <2>1, <2>2, <2>3 DEF Pending, Matched, handler
<1>7. BindsOk' /\ Noted /\ (h.one => h.number \in removed')
  <2>1. eventOps' \in 0..MaxEventOps
    BY <1>1 DEF EventsInv, BindsOk
  <2>2. CASE h.one
    <3>1. PICK s : s = IF h.selector = NoSelector THEN {NoSelector} \cup Nodes ELSE {h.selector}
      OBVIOUS
    <3>2. PICK gone : gone = matching(top.at, {top.type}, {h.fn}, s)
      OBVIOUS
    <3>3. removeEvent(top.at, gone)
      BY <1>1, <1>5, <2>2, <3>1, <3>2 DEF unbind
    <3>4. h.selector \in s
      BY <3>1
    <3>5. {top.type} \in SUBSET EventTypes
      BY <1>6
    <3>6. /\ Mine(top.at, gone)
          /\ \A t \in {top.type} : \A i \in DOMAIN bound(top.at, t) :
               bound(top.at, t)[i].fn \in {h.fn} /\ bound(top.at, t)[i].selector \in s
               => bound(top.at, t)[i].number \in gone
      BY <3>2, <3>5, MatchingIs
    <3>7. IsBound(h, top.at, top.type) => h.number \in gone
      BY <3>4, <3>6 DEF IsBound
    <3>8. PICK n \in Nodes : n = top.at
      BY <1>6
    <3>9. Mine(n, gone) /\ removeEvent(n, gone)
      BY <3>3, <3>6, <3>8
    <3>10. BindsOk' /\ Noted /\ removed' = removed \cup gone
      BY <1>1, <2>1, <3>9, RemoveKeeps
    <3> QED BY <1>6, <3>7, <3>10
  <2>3. CASE ~h.one
    <3>1. UNCHANGED <<D, listeners, capturing, removed>>
      BY <1>1, <1>5, <2>3 DEF unbind
    <3> QED BY <1>1, <2>1, <2>3, <3>1, SameBinds
  <2> QED BY <2>2, <2>3
<1>8. FrameOk(F)'
  <2>1. PICK G \in FrameRecords : G = top
    BY <1>3
  <2>2. FrameOk(G)'
    BY <1>3, <1>7, <2>1, FrameStays
  <2>3. \A i \in DOMAIN F.queue : Pending(F.queue[i], F)'
    BY <1>4, <2>1, <2>2 DEF FrameOk, Pending
  <2>4. handler(F) = h
    BY <1>4, <1>5 DEF handler
  <2>5. F.queue # <<>> /\ F.at \in Nodes /\ F.late \subseteq removed'
    BY <1>1, <1>4, <1>6, <2>1, <2>2 DEF FrameOk
  <2> QED BY <1>7, <2>3, <2>4, <2>5 DEF FrameOk
<1>9. \A f \in 1..(Len(frames) - 1) : NotAgain(frames[f], F)
  BY <1>1, <1>4, TopIs DEF NotAgain
<1>10. FramesOk'
  BY <1>1, <1>4, <1>7, <1>8, <1>9, FramesTop DEF EventsInv
<1> QED BY <1>7, <1>10 DEF EventsInv

LEMMA ReturnsKeeps ==
    ASSUME EventsInv, Returns
    PROVE  EventsInv'
<1>1. /\ frames # <<>> /\ top.running
      /\ UNCHANGED <<D, cuts, listeners, capturing, binds, eventOps, removed>>
  BY DEF Returns
<1>2. PICK result \in {"on", "false", "immediate"} :
         frames' = setTop([top EXCEPT
           !.running = FALSE,
           !.stop = IF result # "on" /\ @ = NoNode THEN Head(top.queue).elem ELSE @,
           !.queue = IF result = "immediate" THEN <<>>
                     ELSE IF result = "false" \/ top.stop # NoNode THEN rest(top, Tail(@)) ELSE Tail(@)])
  BY DEF Returns
<1>3. BindsOk' /\ Noted
  BY <1>1, SameBinds DEF EventsInv, BindsOk
<1>4. top \in FrameRecords /\ FrameOk(top)
  BY <1>1, TopIs
<1>5. PICK q \in Seq(Matched) : q = top.queue
  BY <1>4 DEF FrameRecords
<1>6. q # <<>> /\ Head(q) \in Matched /\ Head(q) = q[1] /\ 1 \in DOMAIN q
  <2>1. q # <<>>
    BY <1>1, <1>4, <1>5 DEF FrameOk
  <2> QED BY <2>1
<1>7. PICK stop : stop = IF result # "on" /\ top.stop = NoNode THEN Head(q).elem ELSE top.stop
  OBVIOUS
<1>8. PICK p : p = IF result = "immediate" THEN <<>>
                   ELSE IF result = "false" \/ top.stop # NoNode THEN rest(top, Tail(q)) ELSE Tail(q)
  OBVIOUS
<1>9. PICK F : F = [top EXCEPT !.running = FALSE, !.stop = stop, !.queue = p]
  OBVIOUS
<1>10. frames' = setTop(F)
  BY <1>2, <1>4, <1>5, <1>7, <1>8, <1>9
<1>11. Tail(q) \in Seq(Matched) /\ \A i \in DOMAIN Tail(q) : \E j \in DOMAIN q : Tail(q)[i] = q[j]
  <2>1. Tail(q) \in Seq(Matched) /\ Len(Tail(q)) = Len(q) - 1 /\ Len(q) \in Nat
    BY <1>6
  <2>2. \A i \in 1..(Len(q) - 1) : i + 1 \in DOMAIN q /\ Tail(q)[i] = q[i + 1]
    BY <1>6, <2>1
  <2> QED BY <2>1, <2>2
<1>12. PICK c : c = rest(top, Tail(q))
  OBVIOUS
<1>13. /\ c \in Seq(Matched)
       /\ \A i \in DOMAIN c : c[i].elem = Head(q).elem /\ \E j \in DOMAIN Tail(q) : c[i] = Tail(q)[j]
  <2> DEFINE I == {i \in DOMAIN Tail(q) : Tail(q)[i].elem = Head(q).elem}
  <2>1. c = chosen(Tail(q), I)
    BY <1>5, <1>12 DEF rest
  <2>2. PICK r : c \in Seq(Matched) /\ Picks(c, Tail(q), I, Len(Tail(q)), r)
    BY <1>11, <2>1, ChosenIs
  <2>3. \A a \in DOMAIN c : r[a] \in DOMAIN Tail(q) /\ Tail(q)[r[a]].elem = Head(q).elem /\ c[a] = Tail(q)[r[a]]
    BY <2>2 DEF Picks
  <2> QED BY <2>2, <2>3
<1>14. p \in Seq(Matched) /\ \A i \in DOMAIN p : \E j \in DOMAIN q : p[i] = q[j]
  <2>1. CASE p = <<>>
    BY <2>1
  <2>2. CASE p = c
    BY <1>11, <1>13, <2>2
  <2>3. CASE p = Tail(q)
    BY <1>11, <2>3
  <2> QED BY <1>8, <1>12, <2>1, <2>2, <2>3
<1>15. stop \in Nodes \cup {NoNode} /\ top.stop \in Nodes \cup {NoNode}
  BY <1>4, <1>6, <1>7 DEF FrameRecords, Matched
<1>16. \A j \in DOMAIN q : Pending(q[j], top)
  BY <1>4, <1>5 DEF FrameOk
<1>17. ASSUME stop # NoNode, NEW i \in DOMAIN p
       PROVE  p[i].elem = stop
  <2>1. PICK j \in DOMAIN q : p[i] = q[j]
    BY <1>14
  <2>2. CASE top.stop # NoNode
    BY <1>7, <1>16, <2>1, <2>2 DEF Pending
  <2>3. CASE top.stop = NoNode
    <3>1. stop = Head(q).elem /\ result # "on"
      BY <1>7, <1>17, <2>3
    <3>2. CASE result = "immediate"
      BY <1>8, <1>17, <3>2
    <3>3. CASE result = "false"
      BY <1>8, <1>12, <1>13, <3>1, <3>3
    <3> QED BY <1>2, <3>1, <3>2, <3>3
  <2> QED BY <2>2, <2>3
<1>18. /\ F \in FrameRecords /\ F.at = top.at /\ F.type = top.type /\ F.late = top.late
       /\ F.stop = stop /\ F.queue = p /\ ~F.running
  BY <1>4, <1>9, <1>14, <1>15 DEF FrameRecords
<1>19. FrameOk(F)
  <2>1. \A i \in DOMAIN p : Pending(p[i], F)
    BY <1>14, <1>16, <1>17, <1>18 DEF Pending
  <2>2. top.at \in Nodes /\ top.late \subseteq removed
    BY <1>4, <1>5, <1>6 DEF FrameOk
  <2> QED BY <1>18, <2>1, <2>2 DEF FrameOk
<1>20. FrameOk(F)'
  BY <1>3, <1>18, <1>19, FrameStays
<1>21. ASSUME NEW f \in 1..(Len(frames) - 1)
       PROVE  NotAgain(frames[f], F)
  <2>1. NotAgain(frames[f], top)
    BY <1>1, TopIs
  <2> QED BY <1>5, <1>14, <1>18, <2>1 DEF NotAgain
<1>22. FramesOk'
  BY <1>1, <1>3, <1>10, <1>18, <1>20, <1>21, FramesTop DEF EventsInv
<1> QED BY <1>3, <1>22 DEF EventsInv

LEMMA EndKeeps ==
    ASSUME EventsInv, EventEnds
    PROVE  EventsInv'
<1>1. /\ frames # <<>> /\ frames' = SubSeq(frames, 1, Len(frames) - 1)
      /\ UNCHANGED <<D, cuts, listeners, capturing, binds, eventOps, removed>>
  BY DEF EventEnds
<1>2. BindsOk' /\ Noted
  BY <1>1, SameBinds DEF EventsInv, BindsOk
<1>3. PICK L \in Nat : L = Len(frames) /\ L > 0 /\ DOMAIN frames = 1..L /\ frames \in Seq(FrameRecords)
  BY <1>1 DEF EventsInv, FramesOk
<1>4. /\ frames' \in Seq(FrameRecords) /\ DOMAIN frames' = 1..(L - 1)
      /\ \A f \in 1..(L - 1) : f \in 1..L /\ frames'[f] = frames[f]
  <2>1. 1 \in 1..(Len(frames) + 1) /\ Len(frames) - 1 \in (1 - 1)..Len(frames) /\ L - 1 - 1 + 1 = L - 1
    BY <1>3
  <2>2. frames' \in Seq(FrameRecords) /\ Len(frames') = L - 1
    BY <1>1, <1>3, <2>1, SubSeqProperties
  <2>3. \A f \in 1..(L - 1) : f \in 1..L /\ frames'[f] = frames[f]
    BY <1>1, <1>3
  <2> QED BY <2>2, <2>3
<1>5. FramesOk /\ FramesOk'
  <2>1. FramesOk
    BY DEF EventsInv
  <2>2. ASSUME NEW f \in 1..(L - 1)
        PROVE  FrameOk(frames[f])'
    <3>1. PICK G : G = frames[f]
      OBVIOUS
    <3>2. G \in FrameRecords /\ FrameOk(G)
      <4>1. f \in DOMAIN frames
        BY <1>3, <1>4
      <4>2. FrameOk(frames[f])
        BY <2>1, <4>1 DEF FramesOk
      <4>3. frames[f] \in FrameRecords
        BY ONLY <1>3, <4>1, ElementOfSeq
      <4> QED BY <3>1, <4>2, <4>3
    <3>3. FrameOk(G)'
      BY <1>2, <3>2, FrameStays
    <3>4. frames'[f] = G
      BY <1>4, <3>1
    <3> QED BY <3>3, <3>4 DEF FrameOk, Pending, IsBound, handler
  <2>3. \A f \in DOMAIN frames' : FrameOk(frames[f])'
    BY <1>4, <2>2
  <2>4. \A f, g \in DOMAIN frames' : f < g => NotAgain(frames'[f], frames'[g])
    BY <1>3, <1>4, <2>1 DEF FramesOk
  <2> QED BY <1>4, <2>1, <2>3, <2>4 DEF FramesOk
<1> QED BY <1>2, <1>5 DEF EventsInv

LEMMA EventsInitOk ==
    ASSUME EventsInit
    PROVE  EventsInv
<1>1. /\ D = NewData /\ cuts = {} /\ listeners = {} /\ capturing = FALSE /\ frames = <<>>
      /\ binds = 0 /\ eventOps = 0 /\ removed = {}
  BY DEF EventsInit
<1>2. /\ D.id = [n \in Nodes |-> NoId] /\ D.cache = <<>> /\ D.deleted = <<>> /\ D.guid = 1
      /\ D = [id |-> D.id, cache |-> D.cache, deleted |-> D.deleted, guid |-> D.guid]
  BY <1>1 DEF NewData
<1>3. \A i \in 1..Depth : ~UsedId(D, i) /\ ~FreeId(D, i)
  BY <1>2 DEF UsedId, FreeId, NoId
<1>4. IdsOk(D)
  <2>1. Depth \in Nat \ {0} /\ D.id \in [Nodes -> 0..Depth]
    BY <1>2, EventsAssumption DEF NoId
  <2>2. D.deleted \in Seq(1..Depth) /\ DOMAIN D.deleted = {} /\ D.guid \in 1..(Depth + 1)
    BY <1>2, <2>1
  <2>3. \A m, n \in Nodes : D.id[m] = D.id[n] /\ D.id[m] # NoId => m = n
    BY <1>2
  <2>4. \A i \in 1..Depth : i < D.guid <=> UsedId(D, i) \/ FreeId(D, i)
    BY <1>2, <1>3
  <2> QED BY <1>2, <1>3, <2>1, <2>2, <2>3, <2>4 DEF IdsOk, Shaped
<1>5. DataOk(D)
  <2>1. DOMAIN D.cache = {} /\ D.cache = [i \in DOMAIN D.cache |-> D.cache[i]]
    BY <1>2
  <2>2. {i \in 1..Depth : UsedId(D, i)} = {}
    BY <1>3
  <2> QED BY <1>4, <2>1, <2>2 DEF DataOk
<1>6. \A n \in Nodes : ~hasEntry(D, n) /\ entry(D, n) = NewEntry
  BY <1>2 DEF hasEntry, entry
<1>7. \A n \in Nodes, t \in EventTypes : bound(n, t) = <<>>
  BY <1>6, EntryTypes DEF bound, NoEvents
<1>8. HandlersOk
  BY <1>7 DEF HandlersOk, DelegatesFirst
<1>9. ListensAsHandled
  <2>1. {n \in Nodes : bound(n, "focusin") # <<>>} = {}
    BY <1>7, EventsAssumption
  <2>2. entry(D, document).attaches = 0
    BY <1>6, EntryTypes
  <2>3. {l \in Nodes \X (EventTypes \ {"focusin"}) : bound(l[1], l[2]) # <<>>} = {}
    BY <1>7
  <2> QED BY <1>1, <2>1, <2>2, <2>3, FS_EmptySet DEF ListensAsHandled
<1>10. FramesOk
  BY <1>1 DEF FramesOk
<1>11. binds \in 0..MaxBinds /\ eventOps \in 0..MaxEventOps /\ removed \subseteq 1..binds
       /\ cuts \subseteq Nodes \ {document}
  BY <1>1, EventsAssumption
<1> QED BY <1>5, <1>6, <1>8, <1>9, <1>10, <1>11 DEF EventsInv, BindsOk

LEMMA EventsInvSays ==
    ASSUME EventsInv
    PROVE  EventsAgree
<1>1. DataOk(D) /\ IdsOk(D) /\ HandlersOk /\ ListensAsHandled /\ FramesOk
  BY DEF EventsInv, BindsOk, DataOk
<1>2. EventsTypeOK
  <2>1. \A i \in DOMAIN D.cache : i \in 1..Depth /\ \A t \in EventTypes : D.cache[i].events[t] \in Seq(HandleObjs)
    <3>1. ASSUME NEW i \in DOMAIN D.cache
          PROVE  i \in 1..Depth /\ D.cache[i].events \in [EventTypes -> Seq(HandleObjs)]
      <4>1. i \in 1..Depth
        BY <1>1 DEF DataOk
      <4>2. D.cache[i] \in EntryRecords
        BY <1>1 DEF DataOk
      <4> QED BY <4>1, <4>2 DEF EntryRecords
    <3> QED BY <3>1
  <2>2. listeners \subseteq Nodes \X EventTypes
    BY <1>1 DEF ListensAsHandled
  <2>3. \A f \in DOMAIN frames :
          /\ frames[f].path \in Seq(Nodes) /\ frames[f].queue \in Seq(Matched)
          /\ frames[f].at \in Nodes \cup {NoNode}
          /\ frames[f].running => frames[f].queue # <<>>
    <3>1. ASSUME NEW f \in DOMAIN frames
          PROVE  frames[f] \in FrameRecords /\ FrameOk(frames[f])
      BY <1>1 DEF FramesOk
    <3> QED BY <3>1 DEF FrameRecords, FrameOk
  <2> QED BY <1>1, <2>1, <2>2, <2>3 DEF EventsTypeOK, EventsInv, BindsOk, IdsOk
<1>3. IdsAreOwn
  <2>1. \A i \in DOMAIN D.deleted : \A n \in Nodes : D.id[n] # D.deleted[i]
    <3> SUFFICES ASSUME NEW i \in DOMAIN D.deleted, NEW n \in Nodes, D.id[n] = D.deleted[i] PROVE FALSE
      OBVIOUS
    <3>1. D.deleted[i] \in 1..Depth
      <4>1. D.deleted \in Seq(1..Depth)
        BY <1>1 DEF IdsOk
      <4>2. i \in 1..Len(D.deleted)
        BY <4>1
      <4> QED BY <4>1, <4>2, ElementOfSeq
    <3>2. UsedId(D, D.deleted[i]) /\ FreeId(D, D.deleted[i])
      BY DEF UsedId, FreeId
    <3> QED BY <1>1, <3>1, <3>2 DEF IdsOk
  <2>2. DOMAIN D.cache = {D.id[n] : n \in Nodes} \ {NoId}
    <3>1. DOMAIN D.cache = {i \in 1..Depth : UsedId(D, i)}
      BY <1>1 DEF DataOk
    <3>2. \A n \in Nodes : D.id[n] \in 0..Depth
      BY <1>1 DEF IdsOk
    <3>3. \A i : i \in 0..Depth /\ i # NoId <=> i \in 1..Depth
      BY EventsAssumption DEF NoId
    <3>4. \A i : i \in DOMAIN D.cache <=> i \in {D.id[n] : n \in Nodes} \ {NoId}
      BY <3>1, <3>2, <3>3 DEF UsedId
    <3> QED BY <3>4
  <2> QED BY <1>1, <2>1, <2>2 DEF IdsAreOwn, IdsOk
<1>4. NothingIsLeft
  BY <1>1 DEF NothingIsLeft, EventsInv, BindsOk, DataOk, isEmptyDataObject
<1>5. DelegatesFirst
  BY <1>1 DEF HandlersOk
<1>6. UnboundIsSilent
  <2> SUFFICES ASSUME NEW f \in DOMAIN frames, frames[f].running
               PROVE  handler(frames[f]).number \notin frames[f].late
    BY DEF UnboundIsSilent
  <2>1. FrameOk(frames[f]) /\ frames[f] \in FrameRecords
    BY <1>1 DEF FramesOk
  <2>2. frames[f].queue # <<>> /\ frames[f].queue \in Seq(Matched)
    BY <2>1 DEF FrameOk, FrameRecords
  <2>3. 1 \in DOMAIN frames[f].queue /\ Head(frames[f].queue) = frames[f].queue[1]
    BY <2>2
  <2> QED BY <2>1, <2>3 DEF FrameOk, Pending, handler
<1>7. NeverInItself
  <2> SUFFICES ASSUME NEW f \in DOMAIN frames, NEW g \in DOMAIN frames, f < g,
                      frames[f].running, frames[g].running, handler(frames[f]) = handler(frames[g]),
                      handler(frames[f]).one
               PROVE  FALSE
    BY DEF NeverInItself
  <2>1. NotAgain(frames[f], frames[g]) /\ FrameOk(frames[g]) /\ frames[g] \in FrameRecords
    BY <1>1 DEF FramesOk
  <2>2. frames[g].queue # <<>> /\ frames[g].queue \in Seq(Matched)
    BY <2>1 DEF FrameOk, FrameRecords
  <2>3. 1 \in DOMAIN frames[g].queue /\ handler(frames[g]) = frames[g].queue[1].h
    BY <2>2 DEF handler
  <2> QED BY <2>1, <2>3 DEF NotAgain
<1>8. StopsThere
  BY <1>1 DEF StopsThere, FramesOk, FrameOk, Pending
<1> QED BY <1>1, <1>2, <1>3, <1>4, <1>5, <1>6, <1>7, <1>8 DEF EventsAgree

\* Events: add(), remove(), trigger(), dispatch() and cleanData() keep what the browser, the
\* cache and the lists of handlers say of an element in agreement, whatever the handlers of an
\* event do while it is under way: the browser listens exactly where there are handlers, ids
\* and entries belong to one element and are not left behind, one that was unbound before an
\* event came to its element is not called, a handler of one() never runs within itself, and
\* a stopped event goes no further.  For any elements, types, functions and bounds.
THEOREM EventsAgreeHolds == EventsSpec => []EventsAgree
<1>1. EventsInit => EventsInv
  BY EventsInitOk
<1>2. EventsInv /\ [EventsNext]_eventVars => EventsInv'
  <2> SUFFICES ASSUME EventsInv, [EventsNext]_eventVars PROVE EventsInv'
    OBVIOUS
  <2>1. CASE On
    BY <2>1, OnKeeps
  <2>2. CASE Off
    BY <2>2, OffKeeps
  <2>3. CASE Data
    BY <2>3, DataKeeps
  <2>4. CASE cleanData
    BY <2>4, CleanKeeps
  <2>5. CASE Trigger \/ FromUser
    BY <2>5, TriggerKeeps
  <2>6. CASE Dispatch
    BY <2>6, DispatchKeeps
  <2>7. CASE Call
    BY <2>7, EventCallKeeps
  <2>8. CASE Returns
    BY <2>8, ReturnsKeeps
  <2>9. CASE EventEnds
    BY <2>9, EndKeeps
  <2>10. CASE UNCHANGED eventVars
    <3>1. UNCHANGED <<D, cuts, listeners, capturing, frames, binds, eventOps, removed>>
      BY <2>10 DEF eventVars
    <3>2. BindsOk' /\ Noted
      BY <3>1, SameBinds DEF EventsInv, BindsOk
    <3>3. FramesOk'
      BY <3>1, <3>2, FramesStay DEF EventsInv
    <3> QED BY <3>2, <3>3 DEF EventsInv
  <2> QED BY <2>1, <2>2, <2>3, <2>4, <2>5, <2>6, <2>7, <2>8, <2>9, <2>10 DEF EventsNext
<1>3. EventsInv => EventsAgree
  BY EventsInvSays
<1> QED BY <1>1, <1>2, <1>3, PTL DEF EventsSpec
=============================================================================
