------------------------------ MODULE MCAsync ------------------------------
EXTENDS CallbackList, Deferred, Ready, Timers, When, Ajax
CONSTANTS f1, f2, f3, h1, h2, v1, v2, e1, e2, l1, l2

MCOptionSets == {{"unique"}, {"once", "memory"}, {"unique", "memory", "stopOnFalse"}}

VARIABLE part

\* One of them moves; they are parts of one library and share nothing.
Init ==
    /\ part \in {"list", "deferred", "ready", "timers", "when", "ajax"}
    /\ CallbackInit /\ DeferredInit /\ ReadyInit /\ TimersInit /\ WhenInit /\ AjaxInit
    /\ part # "list" => cb.options = {"unique"}
    /\ part # "ready" => old
    /\ part # "when" => sub = [i \in Subordinates |-> "pending"]
    /\ \A i \in Subordinates : subValue[i] \in {NoValue, v1}

Next ==
    \/ part = "list" /\ CallbackNext
       /\ UNCHANGED <<part, deferredVars, readyVars, timerVars, whenVars, ajaxVars>>
    \/ part = "deferred" /\ DeferredNext
       /\ UNCHANGED <<part, cbVars, readyVars, timerVars, whenVars, ajaxVars>>
    \/ part = "ready" /\ ReadyNext
       /\ UNCHANGED <<part, cbVars, deferredVars, timerVars, whenVars, ajaxVars>>
    \/ part = "timers" /\ TimersNext
       /\ UNCHANGED <<part, cbVars, deferredVars, readyVars, whenVars, ajaxVars>>
    \/ part = "when" /\ WhenNext
       /\ UNCHANGED <<part, cbVars, deferredVars, readyVars, timerVars, ajaxVars>>
    \/ part = "ajax" /\ AjaxNext
       /\ UNCHANGED <<part, cbVars, deferredVars, readyVars, timerVars, whenVars>>

vars == <<part, cbVars, deferredVars, readyVars, timerVars, whenVars, ajaxVars>>
notReady == <<part, cbVars, deferredVars, timerVars, whenVars, ajaxVars>>

\* A document that does not load is one whose part does not move.
Spec ==
    /\ Init /\ [][Next]_vars
    /\ DeferredFairness /\ TimersFairness /\ AjaxFairness
    /\ WF_vars(part = "ready" /\ Loads /\ UNCHANGED notReady)
    /\ WF_vars(part = "ready" /\ Timeout /\ UNCHANGED notReady)
    /\ WF_vars(part = "ready" /\ Release /\ UNCHANGED notReady)

\* What waits for the document, for a tick or for a value comes in the end, the first not too
\* early.
WaitsEnd == []ReadyTypeOK /\ HeldBack /\ ReadyRuns /\ OneTimeEnds /\ TellsEveryone
=============================================================================
