------------------------------ MODULE Deferred ------------------------------
(***************************************************************************)
(* jQuery.Deferred(): three callback lists, the first callbacks of two of  *)
(* which settle the state and shut the others (nano/js/libraries/          *)
(* jquery.js).  A handler that runs may add handlers, settle the deferred  *)
(* or notify; the lists that fire are nested in each other then.           *)
(***************************************************************************)
EXTENDS Callbacks

CONSTANTS
    Handlers,
    Values,
    MaxAdded, MaxSettles \* bounds: handlers, and calls of resolve, reject and notify

ASSUME DeferredAssumption ==
    /\ Handlers \cap {"state", "disable", "lock"} = {}
    /\ Nothing \notin Values \cup {"done", "fail"}
    /\ MaxAdded \in Nat /\ MaxSettles \in Nat

VARIABLES
    state,               \* Nothing is pending
    lists,               \* done, fail and progress
    active,              \* the lists that fire, the innermost last
    settles,             \* calls of resolve, reject and notify
    added,               \* history: what each of done and fail was given
    heardBy,             \* history: what handlers of each list heard, in order
    settledWith          \* history: the value of the first call that settles

deferredVars == <<state, lists, active, settles, added, heardBy, settledWith>>

Tuples == {"done", "fail", "progress"}
Finals == {"done", "fail"}
otherOf(t) == IF t = "done" THEN "fail" ELSE "done"

\* What Deferred() itself adds first: the state, the end of the other list, and of notify.
settler(t) ==
    [NewList({"once", "memory"}) EXCEPT !.list = <<"state", "disable", "lock">>]

DeferredTypeOK ==
    /\ state \in Finals \cup {Nothing}
    /\ lists \in [Tuples -> CallbackLists(Handlers \cup {"state", "disable", "lock"}, Values)]
    /\ active \in Seq(Tuples) /\ settles \in Nat
    /\ \A i, j \in DOMAIN active : active[i] = active[j] => i = j
    /\ \A t \in Tuples : lists[t].firing <=> \E i \in DOMAIN active : active[i] = t

DeferredInit ==
    /\ state = Nothing
    /\ lists = [t \in Tuples |-> IF t = "progress" THEN NewList({"memory"}) ELSE settler(t)]
    /\ active = <<>> /\ settles = 0
    /\ added = [t \in Tuples |-> <<>>]
    /\ heardBy = [t \in Tuples |-> <<>>]
    /\ settledWith = Nothing
----------------------------------------------------------------------------
\* Whose code runs: the handler of the innermost list, or the program when none fires.
inner == active[Len(active)]
turnOf == active # <<>> => lists[inner].running

\* One list is changed; when that starts a fire it is the innermost.
change(t, L) ==
    /\ lists' = [lists EXCEPT ![t] = L]
    /\ active' = IF L.firing /\ ~lists[t].firing THEN Append(active, t) ELSE active

\* done(), fail(), progress().
Add(t, h) ==
    /\ turnOf
    /\ Len(added["done"]) + Len(added["fail"]) + Len(added["progress"]) < MaxAdded
    /\ added' = [added EXCEPT ![t] = Append(@, h)]
    /\ change(t, add(lists[t], h))
    /\ UNCHANGED <<state, settles, heardBy, settledWith>>

\* resolve(), reject() and notify().
FireWith(t, v) ==
    /\ turnOf
    /\ settles < MaxSettles
    /\ settles' = settles + 1
    /\ change(t, fireWith(lists[t], v))
    /\ settledWith' = IF t \in Finals /\ settledWith = Nothing THEN v ELSE settledWith
    /\ UNCHANGED <<state, added, heardBy>>

\* Bug: the other list goes on.
internalOpen(t, fn) ==
    /\ state' = IF fn = "state" THEN t ELSE state
    /\ lists' = [lists EXCEPT ![t] = returned(@, TRUE),
                              !["progress"] = IF fn = "lock" THEN lock(@) ELSE @]

\* The deferred's own callbacks run to their end.
internal(t, fn) ==
    /\ state' = IF fn = "state" THEN t ELSE state
    /\ lists' = [lists EXCEPT ![t] = returned(@, TRUE),
                              ![otherOf(t)] = IF fn = "disable" THEN disable(@) ELSE @,
                              !["progress"] = IF fn = "lock" THEN lock(@) ELSE @]

\* The loop of the innermost list that fires.
DeferredCall ==
    /\ active # <<>>
    /\ canCall(lists[inner])
    /\ LET L  == lists[inner]
           fn == L.list[L.firingIndex]
       IN  IF fn \in Handlers
           THEN /\ lists' = [lists EXCEPT ![inner] = call(@)]
                /\ heardBy' = [heardBy EXCEPT ![inner] = Append(@, <<fn, L.data>>)]
                /\ UNCHANGED state
           ELSE internal(inner, fn) /\ UNCHANGED heardBy
    /\ UNCHANGED <<active, settles, added, settledWith>>

DeferredReturn ==
    /\ active # <<>> /\ lists[inner].running
    /\ lists' = [lists EXCEPT ![inner] = returned(@, TRUE)]
    /\ UNCHANGED <<state, active, settles, added, heardBy, settledWith>>

left(L) == IF L.firing THEN active ELSE SubSeq(active, 1, Len(active) - 1)

DeferredFinish ==
    /\ active # <<>>
    /\ canFinish(lists[inner])
    /\ lists' = [lists EXCEPT ![inner] = finished(@)]
    /\ active' = left(finished(lists[inner]))
    /\ UNCHANGED <<state, settles, added, heardBy, settledWith>>

DeferredNext ==
    \/ \E t \in Tuples :
         \/ \E h \in Handlers : Add(t, h)
         \/ \E v \in Values : FireWith(t, v)
    \/ DeferredCall \/ DeferredReturn \/ DeferredFinish
DeferredSpec == DeferredInit /\ [][DeferredNext]_deferredVars

\* Handlers return and loops go on.
DeferredFairness ==
    /\ WF_deferredVars(DeferredCall) /\ WF_deferredVars(DeferredReturn)
    /\ WF_deferredVars(DeferredFinish)
----------------------------------------------------------------------------
(* Properties *)

\* It implements Promise, whatever handlers do while they run: settle it again, either
\* way, notify, add handlers of any list.
P == INSTANCE Promise WITH
       outcome  <- state,
       value    <- IF state = Nothing THEN Nothing ELSE settledWith,
       handlers <- [t \in Finals |-> added[t]],
       told     <- [t \in Finals |-> Len(heardBy[t])]
NeverBreaksPromise == P!PromiseSafety
TellsEveryone == P!PromiseFairness

\* Handlers hear the value of the call that settled it, in the order they were added.
HearsTheValue ==
    \A t \in Finals : \A i \in DOMAIN heardBy[t] :
      heardBy[t][i] = <<added[t][i], settledWith>>

\* Progress brings no news after the end, neither by a notify() that comes later nor by one
\* that waits for the fire in which the deferred is settled; handlers go on hearing the
\* last value (lock()).
NoNewsAfterTheEnd ==
    [][state # Nothing => lists'["progress"].data = lists["progress"].data]_deferredVars

\* No step of a deferred is another than its users were promised, and its progress ends
\* with it.
KeepsPromise == [](DeferredTypeOK /\ HearsTheValue) /\ NeverBreaksPromise /\ NoNewsAfterTheEnd
=============================================================================
