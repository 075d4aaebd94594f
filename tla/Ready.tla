------------------------------- MODULE Ready -------------------------------
(***************************************************************************)
(* $(document).ready(): the functions wait for the document and for those  *)
(* who hold the event back, and run then (nano/js/libraries/jquery.js).    *)
(* The document loads meanwhile; an old browser is asked again and again   *)
(* whether it can scroll.                                                  *)
(***************************************************************************)
EXTENDS Naturals

CONSTANTS
    MaxHolds,            \* bounds: those who hold it back at a time, functions given
    MaxReadyFns

ASSUME ReadyAssumption == MaxHolds \in Nat /\ MaxReadyFns \in Nat

VARIABLES
    old,                 \* an old browser: attachEvent and doScroll
    body, readyState,    \* of the document
    readyList,           \* none; waiting; resolved
    listening, timeouts, \* attached to the document; pending setTimeout( jQuery.ready )
    isReady, readyWait,
    holds,               \* who has called holdReady( true )
    readyFns, readyRan   \* functions given and run

documentVars == <<old, body, readyState>>
readyVars == <<documentVars, readyList, listening, timeouts, isReady, readyWait, holds,
               readyFns, readyRan>>

ReadyTypeOK ==
    /\ readyState \in {"loading", "interactive", "complete"}
    /\ readyList \in {"none", "waiting", "resolved"}
    /\ timeouts \in 0..2 /\ readyWait \in 0..(MaxHolds + 1)
    /\ readyRan <= readyFns

ReadyInit ==
    /\ old \in BOOLEAN
    /\ body = FALSE /\ readyState = "loading"
    /\ readyList = "none" /\ listening = FALSE /\ timeouts = 0
    /\ isReady = FALSE /\ readyWait = 1 /\ holds = 0
    /\ readyFns = 0 /\ readyRan = 0
----------------------------------------------------------------------------
\* Bug: the holds are looked at when the event comes only.
readyNow(wait, calls) ==
    IF isReady THEN timeouts' = calls /\ UNCHANGED <<isReady, readyWait, readyList, readyRan>>
    ELSE /\ isReady' = TRUE /\ timeouts' = calls
         /\ readyList' = "resolved" /\ readyRan' = readyFns
         /\ UNCHANGED readyWait

\* ready( wait ); calls are the timeouts that are pending without it.
ready(wait, calls) ==
    LET n == IF wait THEN readyWait - 1 ELSE readyWait
    IN  IF IF wait THEN n > 0 ELSE isReady
        THEN readyWait' = n /\ timeouts' = calls /\ UNCHANGED <<isReady, readyList, readyRan>>
        ELSE IF ~body
        THEN readyWait' = n /\ timeouts' = calls + 1 /\ UNCHANGED <<isReady, readyList, readyRan>>
        ELSE /\ isReady' = TRUE /\ timeouts' = calls
             /\ readyWait' = IF wait THEN n ELSE n - 1
             /\ IF ~wait /\ n > 1 THEN UNCHANGED <<readyList, readyRan>>
                ELSE readyList' = "resolved" /\ readyRan' = readyFns

\* $(document).ready( fn ): the first one attaches to the document.
AddReady ==
    /\ readyFns < MaxReadyFns
    /\ readyFns' = readyFns + 1
    /\ readyRan' = IF readyList = "resolved" THEN readyRan + 1 ELSE readyRan
    /\ IF readyList # "none" THEN UNCHANGED <<readyList, listening, timeouts>>
       ELSE /\ readyList' = "waiting"
            /\ IF readyState = "complete" THEN timeouts' = timeouts + 1 /\ UNCHANGED listening
               ELSE listening' = TRUE /\ UNCHANGED timeouts
    /\ UNCHANGED <<documentVars, isReady, readyWait, holds>>

Hold ==
    /\ holds < MaxHolds /\ ~isReady
    /\ holds' = holds + 1 /\ readyWait' = readyWait + 1
    /\ UNCHANGED <<documentVars, readyList, listening, timeouts, isReady, readyFns, readyRan>>

Release ==
    /\ holds > 0 /\ readyList # "none"
    /\ holds' = holds - 1
    /\ ready(TRUE, timeouts)
    /\ UNCHANGED <<documentVars, listening, readyFns>>

Timeout ==
    /\ timeouts > 0
    /\ ready(FALSE, timeouts - 1)
    /\ UNCHANGED <<documentVars, listening, holds, readyFns>>

\* The document goes on: its body, DOMContentLoaded, load, and for an old browser
\* onreadystatechange; completed() counts them by what there is.
Loads ==
    /\ readyState # "complete"
    /\ readyState' = IF readyState = "loading" THEN "interactive" ELSE "complete"
    /\ body' \in {body, TRUE} /\ (readyState' = "complete" => body')
    /\ IF listening /\ (~old \/ readyState' = "complete")
       THEN listening' = FALSE /\ ready(FALSE, timeouts)
       ELSE UNCHANGED <<listening, isReady, readyWait, readyList, readyRan, timeouts>>
    /\ UNCHANGED <<old, holds, readyFns>>

\* The check every 50 ms, once the document can scroll.
doScrollCheck ==
    /\ old /\ listening /\ ~isReady /\ readyState # "loading"
    /\ listening' = FALSE
    /\ ready(FALSE, timeouts)
    /\ UNCHANGED <<documentVars, holds, readyFns>>

ReadyNext ==
    AddReady \/ Hold \/ Release \/ Timeout \/ Loads \/ doScrollCheck
ReadySpec == ReadyInit /\ [][ReadyNext]_readyVars

\* The document loads, timeouts come, and who holds the event lets go.
ReadyFairness ==
    WF_readyVars(Loads) /\ WF_readyVars(Timeout) /\ WF_readyVars(Release)
----------------------------------------------------------------------------
(* Properties *)

\* The functions do not run before the document has a body, nor while the event is held.
HeldBack ==
    [][readyList' # readyList /\ readyList' = "resolved" => body' /\ holds' = 0]_readyVars

\* Every function runs, whenever it was given: before the document is there, while the
\* event is held, or after all that.
ReadyRuns == \A n \in 1..MaxReadyFns : (readyFns >= n) ~> (readyRan >= n)
=============================================================================
