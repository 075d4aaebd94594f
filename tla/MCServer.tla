------------------------------ MODULE MCServer ------------------------------
EXTENDS Processing, TimerSubsystem, Garbage

CONSTANTS a, b, c, d, e

\* SSprocessing
MCLists == <<"processing">>
MChome == [x \in Things |-> "processing"]

\* SSmachines, with the lists of its own
VARIABLES
    mLists, mProcessing, mDeleted, mState, mStep, mPosition, mThing, mStopped, mSeen

machineVars ==
    <<mLists, mProcessing, mDeleted, mState, mStep, mPosition, mThing, mStopped, mSeen>>

MachineThings == {a, b, c, d, e}
MachineLists == <<"pipenets", "machinery", "powernets", "power_objects">>
MachineHome ==
    [x \in MachineThings |->
        CASE x = a -> "pipenets" [] x = b -> "machinery" [] x = c -> "machinery"
          [] x = d -> "powernets" [] x = e -> "power_objects"]

ASSUME MachineAssumption == NoThing \notin MachineThings

Machines == INSTANCE Processing WITH
    Lists <- MachineLists, Things <- MachineThings, home <- MachineHome,
    Kills <- {"machinery", "power_objects"},
    Unchecked <- {"power_objects"}, Unwrapped <- {"powernets"}, DoubleKill <- TRUE,
    lists <- mLists, is_processing <- mProcessing, deleted <- mDeleted, state <- mState,
    current_step <- mStep, nextProcessingListPosition <- mPosition, thing <- mThing,
    stopped <- mStopped, seen <- mSeen

MCcollection_timeout == [l \in {"check", "hard"} |-> IF l = "check" THEN 2 ELSE 1]

VARIABLE part

\* One subsystem moves at a time: they share nothing but the thread.
ServerInit ==
    /\ part \in {"processing", "machines", "timer", "garbage"}
    /\ Init /\ Machines!Init /\ TimerInit /\ GarbageInit

ServerNext ==
    \/ part = "processing" /\ Next /\ UNCHANGED <<part, machineVars, timeVars, gcVars>>
    \/ part = "machines" /\ Machines!Next /\ UNCHANGED <<part, vars, timeVars, gcVars>>
    \/ part = "timer" /\ TimerNext /\ UNCHANGED <<part, vars, machineVars, gcVars>>
    \/ part = "garbage" /\ GarbageNext /\ UNCHANGED <<part, vars, machineVars, timeVars>>

serverVars == <<part, vars, machineVars, timeVars, gcVars>>

ServerSpec ==
    /\ ServerInit /\ [][ServerNext]_serverVars
    /\ WF_serverVars(part = "processing" /\ Subsystem
                     /\ UNCHANGED <<part, machineVars, timeVars, gcVars>>)

\* Of the four lists of SSmachines too, what is in them and what is marked as processed
\* agree, with powernets that come and go unmarked and things that leave and are killed as
\* well: whatever happens to the index, no list is corrupted.
MachineListsAgree == Machines!ListsAgree
=============================================================================
