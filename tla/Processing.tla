----------------------------- MODULE Processing ----------------------------
(***************************************************************************)
(* The processing lists of SSprocessing and its children and of SSmachines *)
(* (code/controllers/subsystems/processing/processing.dm, machines.dm).    *)
(*                                                                         *)
(* fire() goes through a list with the index nextProcessingListPosition,   *)
(* which outlives a pause.  Things enter and leave lists at any time:      *)
(* while another thing is in Process(), and between two fires.  A leaving  *)
(* thing moves the index (stopProcessingWrapper).                          *)
(*                                                                         *)
(* SSprocessing has one list; SSmachines has four, processed in order, and *)
(* one index for all of them.                                              *)
(***************************************************************************)
EXTENDS Naturals, SequencesExt

CONSTANTS
    Lists,         \* the lists in the order they are processed
    Things, NoThing,
    home,          \* the list a thing is processed in
    Kills,         \* lists that heed PROCESS_KILL
    Unchecked,     \* lists that do not look for deleted things (power objects)
    Unwrapped,     \* lists that things enter and leave without a mark and without
                   \* the wrapper (powernets)
    DoubleKill     \* a thing may leave its list and then return PROCESS_KILL

ListNames == {Lists[n] : n \in 1..Len(Lists)}

ASSUME ListAssumption ==
    /\ Lists \in Seq(ListNames) /\ Lists # <<>>
    /\ NoThing \notin Things
    /\ home \in [Things -> ListNames]
    /\ Kills \subseteq ListNames /\ Unwrapped \subseteq ListNames
    /\ Unchecked \subseteq ListNames
    /\ DoubleKill \in BOOLEAN

VARIABLES
    lists, is_processing,
    deleted,           \* QDELETED, but still in a list
    state,             \* of the subsystem
    current_step,      \* the list that is processed
    nextProcessingListPosition,
    thing,             \* the thing in Process(), or NoThing
    stopped,           \* it has left its list since its Process() began
    seen               \* history: how often a thing was processed in this pass
                       \* since it entered the list (2: more than once)

contentVars == <<lists, is_processing, deleted>>
fireVars == <<state, current_step, nextProcessingListPosition, thing>>
vars == <<contentVars, fireVars, stopped, seen>>

TypeOK ==
    /\ lists \in [ListNames -> Seq(Things)]
    /\ is_processing \in [Things -> BOOLEAN]
    /\ deleted \subseteq Things
    /\ state \in {"idle", "running", "paused"}
    /\ current_step \in 1..Len(Lists)
    /\ nextProcessingListPosition \in Nat
    /\ thing \in Things \cup {NoThing}
    /\ stopped \in BOOLEAN
    /\ seen \in [Things -> 0..2]

Init ==
    /\ lists = [l \in ListNames |-> <<>>]
    /\ is_processing = [x \in Things |-> FALSE]
    /\ deleted = {}
    /\ state = "idle"
    /\ current_step = 1
    /\ nextProcessingListPosition = 0
    /\ thing = NoThing
    /\ stopped = FALSE
    /\ seen = [x \in Things |-> 0]

local_list == lists[Lists[current_step]]
----------------------------------------------------------------------------
(* fire() *)

\* A fresh start, with the first list.
Fire ==
    /\ state = "idle"
    /\ state' = "running" /\ current_step' = 1
    /\ nextProcessingListPosition' = 1
    /\ seen' = [x \in Things |-> 0]
    /\ UNCHANGED <<contentVars, thing, stopped>>

Resume ==
    /\ state = "paused"
    /\ state' = "running"
    /\ UNCHANGED <<contentVars, current_step, nextProcessingListPosition, thing, stopped, seen>>

Between == state = "running" /\ thing = NoThing
InList == nextProcessingListPosition \in 1..Len(local_list)

\* The next thing turns out to be deleted.
NextIsDeleted ==
    /\ Lists[current_step] \notin Unchecked
    /\ local_list[nextProcessingListPosition] \in deleted

\* The next thing's Process() begins.
Visit ==
    /\ Between /\ InList
    /\ ~NextIsDeleted
    /\ thing' = local_list[nextProcessingListPosition]
    /\ nextProcessingListPosition' = nextProcessingListPosition + 1
    /\ stopped' = FALSE
    /\ seen' = [seen EXCEPT ![thing'] = IF @ = 2 THEN 2 ELSE @ + 1]
    /\ UNCHANGED <<contentVars, state, current_step>>

\* MC_TICK_CHECK, after each thing.
TickCheck == state' \in {"running", "paused"}

Index(x) == CHOOSE i \in 1..Len(lists[home[x]]) : lists[home[x]][i] = x
Listed(x) == \E i \in 1..Len(lists[home[x]]) : lists[home[x]][i] = x

\* x leaves the list it is in.
TakeOut(x) ==
    /\ lists' = IF Listed(x) THEN [lists EXCEPT ![home[x]] = RemoveAt(@, Index(x))]
                ELSE lists
    /\ is_processing' = [is_processing EXCEPT ![x] = FALSE]
    /\ deleted' = deleted \ {x}

Discard ==
    /\ Between /\ InList
    /\ NextIsDeleted
    /\ TakeOut(local_list[nextProcessingListPosition])
    /\ TickCheck
    /\ UNCHANGED <<current_step, nextProcessingListPosition, thing, stopped, seen>>

\* Process() returns.
Return ==
    /\ thing # NoThing
    /\ thing' = NoThing
    /\ TickCheck
    /\ UNCHANGED <<contentVars, current_step, nextProcessingListPosition, stopped, seen>>

\* Bug: the index stays where it is.
ReturnKillStays ==
    /\ thing # NoThing
    /\ Lists[current_step] \in Kills
    /\ stopped => DoubleKill
    /\ TakeOut(thing)
    /\ thing' = NoThing
    /\ TickCheck
    /\ UNCHANGED <<nextProcessingListPosition, current_step, stopped, seen>>

\* Process() returns PROCESS_KILL: what is processed moves one to the left.
ReturnKill ==
    /\ thing # NoThing
    /\ Lists[current_step] \in Kills
    /\ stopped => DoubleKill
    /\ TakeOut(thing)
    /\ nextProcessingListPosition' = nextProcessingListPosition - 1
    /\ thing' = NoThing
    /\ TickCheck
    /\ UNCHANGED <<current_step, stopped, seen>>

\* "entire list was processed"
EndList ==
    /\ Between /\ ~InList
    /\ IF current_step = Len(Lists)
       THEN /\ state' = "idle" /\ current_step' = 1
            /\ nextProcessingListPosition' = 0
            /\ UNCHANGED seen
       ELSE /\ current_step' = current_step + 1
            /\ nextProcessingListPosition' = 1
            /\ seen' = [x \in Things |-> 0]
            /\ UNCHANGED state
    /\ UNCHANGED <<contentVars, thing, stopped>>
----------------------------------------------------------------------------
(* The rest of the game: inside a Process() or while fire() is not on *)

GameRuns == thing # NoThing \/ state # "running"

\* Bug: is_processing is not looked at.
START_PROCESSING_again(x) ==
    /\ GameRuns
    /\ Len(lists[home[x]]) < 3
    /\ lists' = [lists EXCEPT ![home[x]] = Append(@, x)]
    /\ is_processing' = [is_processing EXCEPT ![x] = TRUE]
    /\ seen' = [seen EXCEPT ![x] = 0]
    /\ UNCHANGED <<deleted, fireVars, stopped>>

START_PROCESSING(x) ==
    /\ GameRuns
    /\ ~is_processing[x] /\ home[x] \notin Unwrapped
    /\ lists' = [lists EXCEPT ![home[x]] = Append(@, x)]
    /\ is_processing' = [is_processing EXCEPT ![x] = TRUE]
    /\ seen' = [seen EXCEPT ![x] = 0]
    /\ UNCHANGED <<deleted, fireVars, stopped>>

\* Bug: removals do not move the index.
stopProcessingWrapper_off(x) == UNCHANGED nextProcessingListPosition

\* Removals on the left of the index move it.
stopProcessingWrapper(x) ==
    nextProcessingListPosition' =
      IF nextProcessingListPosition # 0 /\ Listed(x) /\ Index(x) < nextProcessingListPosition
      THEN nextProcessingListPosition - 1
      ELSE nextProcessingListPosition

STOP_PROCESSING(x) ==
    /\ GameRuns
    /\ is_processing[x]
    /\ stopProcessingWrapper(x)
    /\ TakeOut(x)
    /\ stopped' = (stopped \/ x = thing)
    /\ UNCHANGED <<state, current_step, thing, seen>>

\* A powernet puts itself on the list in New() and takes itself off in Destroy().
NewPowernet(x) ==
    /\ GameRuns
    /\ home[x] \in Unwrapped /\ ~Listed(x)
    /\ lists' = [lists EXCEPT ![home[x]] = Append(@, x)]
    /\ seen' = [seen EXCEPT ![x] = 0]
    /\ UNCHANGED <<is_processing, deleted, fireVars, stopped>>

DestroyPowernet(x) ==
    /\ GameRuns
    /\ home[x] \in Unwrapped /\ Listed(x)
    /\ TakeOut(x)
    /\ stopped' = (stopped \/ x = thing)
    /\ UNCHANGED <<fireVars, seen>>

\* x is deleted by something that does not stop its processing.
qdel(x) ==
    /\ GameRuns
    /\ is_processing[x] /\ x \notin deleted
    /\ deleted' = deleted \cup {x}
    /\ UNCHANGED <<lists, is_processing, fireVars, stopped, seen>>

Game == \E x \in Things :
    \/ START_PROCESSING(x) \/ STOP_PROCESSING(x) \/ qdel(x)
    \/ NewPowernet(x) \/ DestroyPowernet(x)

Subsystem == Fire \/ Resume \/ Visit \/ Discard \/ Return \/ ReturnKill \/ EndList

Next == Subsystem \/ Game
Spec == Init /\ [][Next]_vars

\* The scheduler fires and resumes the subsystem; Process() returns.
LiveSpec == Spec /\ WF_vars(Subsystem)
----------------------------------------------------------------------------
(* Properties *)

\* A thing is in its list just when it is marked as processed (START_PROCESSING,
\* STOP_PROCESSING and PROCESS_KILL together), and never twice.
ListsAgree ==
    /\ \A l \in ListNames : \A i, j \in 1..Len(lists[l]) :
         lists[l][i] = lists[l][j] => i = j
    /\ \A x \in Things : home[x] \notin Unwrapped => (is_processing[x] <=> Listed(x))

\* In a pass, what is on the left of the index was processed once since it came
\* into the list, and what is on the right not at all.
LeftIsDone ==
    state # "idle" =>
      \A i \in 1..Len(local_list) :
        seen[local_list[i]] = IF i < nextProcessingListPosition THEN 1 ELSE 0

\* When a pass ends "entire list was processed" (comment of fire()): each thing
\* in the list once, whoever left or came while the pass was on or paused.
ProcessedOnce ==
    [][EndList => \A i \in 1..Len(local_list) : seen[local_list[i]] = 1]_vars

\* Each thing that stays is processed exactly once a pass, the index says at any moment
\* which were, and lists and marks agree.
EachOnce == [](TypeOK /\ ListsAgree /\ LeftIsDone) /\ ProcessedOnce

\* A thing that waits for its turn gets it or leaves, however many things come
\* and go in the meantime.
HasTurn ==
    \A x \in Things :
      (state # "idle" /\ Listed(x) /\ seen[x] = 0) ~> (~Listed(x) \/ seen[x] # 0)
============================================================================
