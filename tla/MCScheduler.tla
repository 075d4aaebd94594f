---------------------------- MODULE MCScheduler ----------------------------
EXTENDS Scheduler, TLC

CONSTANTS timer, machines, sun, processing, evac

\* The priorities of subsystems-priority.dm in tens; SStimer and SSsun have the
\* default.
MCpriority ==
    [ss \in Subsystems |->
       CASE ss = timer -> 5 [] ss = machines -> 10 [] ss = sun -> 5
         [] ss = processing -> 3 [] ss = evac -> 2]
============================================================================
