--------------------------- MODULE CallbackList ---------------------------
(***************************************************************************)
(* One callback list as a program uses it: whatever is done to it is done  *)
(* by the program when the list does not fire, or by a callback while it   *)
(* runs (jQuery.Callbacks() of nano/js/libraries/jquery.js).               *)
(***************************************************************************)
EXTENDS Callbacks, FiniteSets

CONSTANTS
    Fns,
    OptionSets,          \* the kinds of list there are
    MaxDone              \* bound: what is done to a list

ASSUME ListsAssumption ==
    /\ OptionSets \subseteq SUBSET Options
    /\ MaxDone \in Nat /\ Nothing \notin Nat

VARIABLES
    cb,                  \* the list
    operations,          \* how many operations there were
    fires,               \* history: how many fires it has taken; each has its number
    here, heard,         \* history of the fire: who was there all the time, who was called
    lastFire,            \* history: the fire of the latest call
    missed, mixed        \* history: a fire missed or repeated one; a later one came first

fireVars == <<here, heard, lastFire, missed, mixed>>
cbVars == <<cb, operations, fires, fireVars>>

CallbackTypeOK ==
    /\ cb \in CallbackLists(Fns, Nat)
    /\ cb.firing /\ ~cb.disabled => cb.firingLength <= Len(cb.list)
    /\ cb.stack # <<>> => cb.firing
    /\ fires \in Nat /\ lastFire \in Nat

CallbackInit ==
    /\ \E o \in OptionSets : cb = NewList(o)
    /\ operations = 0 /\ fires = 0
    /\ here = {} /\ heard = <<>> /\ lastFire = 0 /\ missed = FALSE /\ mixed = FALSE
----------------------------------------------------------------------------
times(fn, s) == Cardinality({i \in DOMAIN s : s[i] = fn})

\* Who should hear the fire that starts in L: those from its first place.
audience(L) == {L.list[i] : i \in L.firingIndex..Len(L.list)}

\* A fire that has started since.
startsIn(L) == L.firing /\ ~cb.firing
follow(L) ==
    IF startsIn(L) THEN here' = audience(L) /\ heard' = <<>>
    ELSE here' = here \cap {L.list[i] : i \in DOMAIN L.list} /\ UNCHANGED heard

\* The program, or the callback that runs.
turn == operations < MaxDone /\ (cb.firing => cb.running)

CbOperation ==
    /\ turn
    /\ operations' = operations + 1
    /\ cb' \in {add(cb, fn) : fn \in Fns} \cup {remove(cb, fn) : fn \in Fns}
              \cup {empty(cb), disable(cb), lock(cb)}
    /\ follow(cb')
    /\ UNCHANGED <<fires, lastFire, missed, mixed>>

CbFire ==
    /\ turn
    /\ operations' = operations + 1
    /\ fires' = fires + 1
    /\ cb' = fireWith(cb, fires')
    /\ follow(cb')
    /\ UNCHANGED <<lastFire, missed, mixed>>

CbCall ==
    /\ canCall(cb)
    /\ cb' = call(cb)
    /\ heard' = Append(heard, cb.list[cb.firingIndex])
    /\ lastFire' = cb.data
    /\ mixed' = (mixed \/ cb.data < lastFire)
    /\ UNCHANGED <<operations, fires, here, missed>>

\* A callback that interrupts the fire keeps the others from it.
CbReturn ==
    /\ cb.running
    /\ \E result \in BOOLEAN :
         /\ cb' = returned(cb, result)
         /\ here' = IF result = FALSE /\ "stopOnFalse" \in cb.options THEN {} ELSE here
    /\ UNCHANGED <<operations, fires, heard, lastFire, missed, mixed>>

CbFinish ==
    /\ canFinish(cb)
    /\ cb' = finished(cb)
    /\ missed' = (missed \/ (~cb.disabled /\ \E fn \in here : times(fn, heard) # 1))
    /\ here' = (IF cb'.firing THEN audience(cb') ELSE {}) /\ heard' = <<>>
    /\ UNCHANGED <<operations, fires, lastFire, mixed>>

CallbackNext == CbOperation \/ CbFire \/ CbCall \/ CbReturn \/ CbFinish
CallbackSpec == CallbackInit /\ [][CallbackNext]_cbVars
----------------------------------------------------------------------------
(* Properties *)

\* In a list without duplicates a fire calls everyone who is there from its start to its
\* end exactly once, whatever callbacks add, remove or fire meanwhile (firingIndex,
\* firingLength of add() and remove()).
EveryoneHears == "unique" \in cb.options => ~missed

\* Fires are heard in the order they were asked for, one after the other, also those a
\* callback asks for (stack), and a fire remembered for late callbacks is the latest.
FiresInTurn == ~mixed

\* A list that is to be fired once calls with one fire only, also after it was disabled and
\* emptied in between, which makes it a list again.
OnceIsOnce ==
    [][("once" \in cb.options /\ lastFire # 0) => lastFire' = lastFire]_cbVars

\* A list that is changed and fired by its own callbacks: each is called once by each fire,
\* the fires come in turn, and one that is to come once does.
EveryoneInTurn == [](CallbackTypeOK /\ EveryoneHears /\ FiresInTurn) /\ OnceIsOnce
=============================================================================
