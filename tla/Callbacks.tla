----------------------------- MODULE Callbacks -----------------------------
(***************************************************************************)
(* jQuery.Callbacks(): a list of functions that is fired, as a record and  *)
(* the operations on it (nano/js/libraries/jquery.js).  A callback that    *)
(* runs may call any of them, so a fire is cut into calls: firingIndex is  *)
(* the callback that runs (running) or comes next.                         *)
(***************************************************************************)
EXTENDS Naturals, Sequences

CONSTANT Nothing         \* undefined

Options == {"once", "memory", "unique", "stopOnFalse"}

\* stack holds the fires that wait for the one that runs, as long as it is open.
NewList(options) ==
    [options |-> options, list |-> <<>>, disabled |-> FALSE,
     memory |-> Nothing, fired |-> FALSE, firing |-> FALSE, running |-> FALSE,
     data |-> Nothing, firingIndex |-> 1, firingLength |-> 0,
     stack |-> <<>>, open |-> "once" \notin options]

CallbackLists(Fns, Values) ==
    [options: SUBSET Options, list: Seq(Fns), disabled: BOOLEAN,
     memory: Values \cup {Nothing}, fired: BOOLEAN, firing: BOOLEAN, running: BOOLEAN,
     data: Values \cup {Nothing}, firingIndex: Nat, firingLength: Nat,
     stack: Seq(Values), open: BOOLEAN]

has(L, fn) == \E i \in DOMAIN L.list : L.list[i] = fn

\* The inner fire(), up to its loop.
fire(L, value, firingStart) ==
    [L EXCEPT !.memory = IF "memory" \in L.options THEN value ELSE Nothing,
              !.fired = TRUE, !.firing = TRUE, !.running = FALSE, !.data = value,
              !.firingIndex = firingStart, !.firingLength = Len(L.list)]

\* A callback added while the list is fired is part of that fire; one added later to a
\* list with a memory is called at once.
add(L, fn) ==
    LET added == IF "unique" \in L.options /\ has(L, fn) THEN L
                 ELSE [L EXCEPT !.list = Append(@, fn)]
    IN  IF L.disabled THEN L
        ELSE IF L.firing THEN [added EXCEPT !.firingLength = Len(added.list)]
        ELSE IF L.memory # Nothing THEN fire(added, L.memory, Len(L.list) + 1)
        ELSE added

\* Of the first n of s, for each n, those that are not fn.
others(s, fn) ==
    LET left[n \in 0..Len(s)] ==
          IF n = 0 THEN <<>>
          ELSE IF s[n] = fn THEN left[n - 1] ELSE Append(left[n - 1], s[n])
    IN  left

\* Bug: the place of the callback that runs is not moved.
removeStill(L, fn) ==
    LET left == others(L.list, fn)[Len(L.list)]
    IN  IF L.disabled THEN L
        ELSE [L EXCEPT !.list = left,
                       !.firingLength = IF L.firing THEN Len(left) ELSE @]

\* Every occurrence; those up to the callback that runs move its place.
remove(L, fn) ==
    LET left == others(L.list, fn)
        list == left[Len(L.list)]
        done == IF L.firingIndex <= Len(L.list) THEN L.firingIndex ELSE Len(L.list)
    IN  IF L.disabled THEN L
        ELSE [L EXCEPT !.list = list,
                       !.firingLength = IF L.firing THEN Len(list) ELSE @,
                       !.firingIndex = IF L.firing THEN @ - (done - Len(left[done])) ELSE @]

empty(L) == [L EXCEPT !.list = <<>>, !.disabled = FALSE, !.firingLength = 0]

disable(L) ==
    [L EXCEPT !.list = <<>>, !.disabled = TRUE, !.stack = <<>>, !.open = FALSE,
              !.memory = Nothing]

lock(L) ==
    IF L.memory = Nothing THEN disable(L) ELSE [L EXCEPT !.stack = <<>>, !.open = FALSE]

fireWith(L, value) ==
    IF L.disabled \/ (L.fired /\ ~L.open) THEN L
    ELSE IF L.firing THEN [L EXCEPT !.stack = Append(@, value)]
    ELSE fire(L, value, 1)

\* The loop of fire(): its next callback is called, returns, and none is left.
canCall(L) == L.firing /\ ~L.running /\ ~L.disabled /\ L.firingIndex <= L.firingLength
call(L) == [L EXCEPT !.running = TRUE]

returned(L, result) ==
    IF result = FALSE /\ "stopOnFalse" \in L.options
    THEN [L EXCEPT !.running = FALSE, !.memory = Nothing, !.firingIndex = L.firingLength + 1]
    ELSE [L EXCEPT !.running = FALSE, !.firingIndex = @ + 1]

canFinish(L) ==
    L.firing /\ ~L.running /\ (L.disabled \/ L.firingIndex > L.firingLength)

finished(L) ==
    LET over == [L EXCEPT !.firing = FALSE]
    IN  IF L.disabled THEN over
        ELSE IF L.open
        THEN IF L.stack = <<>> THEN over
             ELSE fire([over EXCEPT !.stack = Tail(@)], Head(L.stack), 1)
        ELSE IF L.memory # Nothing THEN [over EXCEPT !.list = <<>>] ELSE disable(over)
=============================================================================
