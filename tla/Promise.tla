------------------------------ MODULE Promise ------------------------------
(***************************************************************************)
(* What a deferred promises to its user: it is settled one way or the      *)
(* other once, with one value, and tells that value to every handler of    *)
(* that way, each once and in the order they were added, and to no other.  *)
(***************************************************************************)
EXTENDS Naturals, Sequences

CONSTANTS Handlers, Values, Nothing

VARIABLES
    outcome,             \* the way it was settled, or Nothing
    value,
    handlers,            \* those that were added, of each way
    told                 \* of each way: how many were told the value

promiseVars == <<outcome, value, handlers, told>>

Ways == {"done", "fail"}

PromiseInit ==
    /\ outcome = Nothing /\ value = Nothing
    /\ handlers = [w \in Ways |-> <<>>]
    /\ told = [w \in Ways |-> 0]

AddHandler(w, h) ==
    /\ handlers' = [handlers EXCEPT ![w] = Append(@, h)]
    /\ UNCHANGED <<outcome, value, told>>

Settle(w, v) ==
    /\ outcome = Nothing
    /\ outcome' = w /\ value' = v
    /\ UNCHANGED <<handlers, told>>

\* The next handler hears the value.
Tell(w) ==
    /\ outcome = w
    /\ told[w] < Len(handlers[w])
    /\ told' = [told EXCEPT ![w] = @ + 1]
    /\ UNCHANGED <<outcome, value, handlers>>

PromiseNext ==
    \E w \in Ways :
      \/ \E h \in Handlers : AddHandler(w, h)
      \/ \E v \in Values : Settle(w, v)
      \/ Tell(w)

PromiseSafety == PromiseInit /\ [][PromiseNext]_promiseVars

\* Those who wait for the value hear it.
PromiseFairness == \A w \in Ways : WF_promiseVars(Tell(w))

PromiseSpec == PromiseSafety /\ PromiseFairness
=============================================================================
