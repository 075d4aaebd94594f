----------------------------- MODULE Scheduler -----------------------------
(***************************************************************************)
(* The master controller's run queue (code/controllers/master.dm,          *)
(* subsystems.dm).                                                         *)
(*                                                                         *)
(* One iteration of Loop() queues the subsystems that are due (CheckQueue) *)
(* and walks the queue (RunQueue), which fires each of them; neither       *)
(* sleeps, so nothing comes between their steps.  A fire() may finish,     *)
(* pause (it stays queued) or sleep: then ignite() returns to the queue at *)
(* once and the rest of fire() runs later, between two iterations.         *)
(*                                                                         *)
(* Time is nondeterministic: which subsystem is due, whether the tick has  *)
(* room for a subsystem that cannot pause, when the tick is used up.       *)
(***************************************************************************)
EXTENDS Integers, FiniteSets, FiniteSetsExt

CONSTANTS
    Subsystems, Null,
    Ticker, Background, NoTickCheck,   \* SS_TICKER, SS_BACKGROUND, SS_NO_TICK_CHECK
    priority,          \* the priority a subsystem is queued with
    Sleepers,          \* the subsystems whose fire() may sleep
    Failures,          \* the queue procs may runtime, the MC may be restarted
    MaxAsleep,         \* bound on the sleeping fire() calls of a subsystem
    TopPriority        \* bound on the priority a subsystem is bumped to

ASSUME FlagAssumption ==
    /\ Null \notin Subsystems
    /\ Ticker \subseteq Subsystems /\ Background \subseteq Subsystems
    /\ Ticker \cap Background = {}
    /\ NoTickCheck \subseteq Subsystems /\ Sleepers \subseteq Subsystems
    /\ IsFiniteSet(Subsystems)
ASSUME PriorityAssumption ==
    /\ priority \in [Subsystems -> 1..TopPriority]
    /\ Failures \in BOOLEAN
    /\ MaxAsleep \in Nat /\ TopPriority \in Nat

VARIABLES
    state,                                  \* of each subsystem
    queue_next, queue_prev, queued_priority,
    queue_head, queue_tail,
    queue_priority_count, queue_priority_count_bg,
    asleep,            \* how many fire() calls of a subsystem sleep
    phase,             \* sleep: Loop() sleeps; check, run: in the queue procs;
                       \* prep: a new master waits to start its Loop()
    due,               \* the subsystems CheckQueue has still to queue
    iteration,         \* iteration % 3
    queue_node, ran, ran_non_ticker         \* locals of RunQueue

linkVars == <<queue_next, queue_prev, queue_head, queue_tail>>
countVars == <<queue_priority_count, queue_priority_count_bg>>
runVars == <<queue_node, ran, ran_non_ticker>>
vars == <<state, linkVars, queued_priority, countVars, asleep, phase, due,
          iteration, runVars>>

Nodes == Subsystems \cup {Null}

TypeOK ==
    /\ state \in [Subsystems -> {"idle", "queued", "paused", "sleeping"}]
    /\ queue_next \in [Subsystems -> Nodes] /\ queue_prev \in [Subsystems -> Nodes]
    /\ queued_priority \in [Subsystems -> 0..TopPriority]
    /\ queue_head \in Nodes /\ queue_tail \in Nodes /\ queue_node \in Nodes
    /\ queue_priority_count \in Int /\ queue_priority_count_bg \in Int
    /\ asleep \in [Subsystems -> 0..MaxAsleep]
    /\ phase \in {"sleep", "check", "run", "prep"}
    /\ due \subseteq Subsystems
    /\ iteration \in 0..2
    /\ ran \in BOOLEAN /\ ran_non_ticker \in BOOLEAN

Init ==
    /\ state = [ss \in Subsystems |-> "idle"]
    /\ queue_next = [ss \in Subsystems |-> Null]
    /\ queue_prev = [ss \in Subsystems |-> Null]
    /\ queued_priority = [ss \in Subsystems |-> 0]
    /\ queue_head = Null /\ queue_tail = Null /\ queue_node = Null
    /\ queue_priority_count = 0 /\ queue_priority_count_bg = 0
    /\ asleep = [ss \in Subsystems |-> 0]
    /\ phase = "sleep"
    /\ due = {}
    /\ iteration = 1
    /\ ran = FALSE /\ ran_non_ticker = FALSE
----------------------------------------------------------------------------
(* The linked list *)

Count == Cardinality(Subsystems)

\* The node reached by n steps from the head.
Nth[n \in 0..Count] ==
    IF n = 0 THEN queue_head
    ELSE LET node == Nth[n - 1] IN IF node = Null THEN Null ELSE queue_next[node]

Queued == {Nth[n] : n \in 0..Count} \ {Null}

\* Tickers run first, background subsystems last.
Class(ss) == IF ss \in Ticker THEN 0 ELSE IF ss \in Background THEN 2 ELSE 1

\* ss, being queued, goes ahead of node.
Outranks(ss, node) ==
    \/ Class(ss) < Class(node)
    \/ Class(ss) = Class(node) /\ queued_priority[node] < priority[ss]

Successor(ss) ==
    LET behind == {n \in 0..Count : Nth[n] # Null /\ Outranks(ss, Nth[n])}
    IN  IF behind = {} THEN Null ELSE Nth[Min(behind)]

Predecessor(node) ==
    IF node = Null THEN queue_tail
    ELSE IF node = queue_head THEN Null ELSE queue_prev[node]

\* enqueue(), which leaves ss in the state s.
enqueue(ss, s) ==
    LET next == Successor(ss)
        prev == Predecessor(next)
    IN  /\ queue_next' = [x \in Subsystems |->
             IF x = ss THEN next ELSE IF x = prev THEN ss ELSE queue_next[x]]
        /\ queue_prev' = [x \in Subsystems |->
             IF x = ss THEN prev ELSE IF x = next THEN ss ELSE queue_prev[x]]
        /\ queue_head' = IF prev = Null THEN ss ELSE queue_head
        /\ queue_tail' = IF next = Null THEN ss ELSE queue_tail
        /\ queued_priority' = [queued_priority EXCEPT ![ss] = priority[ss]]
        /\ state' = [state EXCEPT ![ss] = s]
        /\ IF ss \in Background
           THEN /\ queue_priority_count_bg' = queue_priority_count_bg + priority[ss]
                /\ UNCHANGED queue_priority_count
           ELSE /\ queue_priority_count' = queue_priority_count + priority[ss]
                /\ UNCHANGED queue_priority_count_bg

\* Bug: the tail is not moved.
DequeueKeepsTail(ss) ==
    LET next == queue_next[ss]
        prev == queue_prev[ss]
    IN  /\ queue_prev' = [x \in Subsystems |-> IF x = next THEN prev ELSE queue_prev[x]]
        /\ queue_next' = [x \in Subsystems |-> IF x = prev THEN next ELSE queue_next[x]]
        /\ queue_head' = IF ss = queue_head THEN next ELSE queue_head
        /\ UNCHANGED queue_tail

\* dequeue(): the links of ss itself stay as they are.
dequeue(ss) ==
    LET next == queue_next[ss]
        prev == queue_prev[ss]
    IN  /\ queue_prev' = [x \in Subsystems |-> IF x = next THEN prev ELSE queue_prev[x]]
        /\ queue_next' = [x \in Subsystems |-> IF x = prev THEN next ELSE queue_next[x]]
        /\ queue_head' = IF ss = queue_head THEN next ELSE queue_head
        /\ queue_tail' = IF ss = queue_tail THEN prev ELSE queue_tail
----------------------------------------------------------------------------
(* One iteration of Loop() *)

\* With a backlog only the tickers are looked at, but for one iteration in three.
subsystems_to_check ==
    IF queue_head = Null \/ iteration = 0 THEN Subsystems ELSE Ticker

StartIteration ==
    /\ phase = "sleep"
    /\ \E d \in SUBSET {ss \in subsystems_to_check : state[ss] = "idle"} : due' = d
    /\ phase' = "check"
    /\ UNCHANGED <<state, linkVars, queued_priority, countVars, asleep, iteration, runVars>>

CheckQueue(ss) ==
    /\ phase = "check" /\ ss \in due
    /\ due' = due \ {ss}
    /\ enqueue(ss, "queued")
    /\ UNCHANGED <<asleep, phase, iteration, runVars>>

StartRun ==
    /\ phase = "check" /\ due = {} /\ queue_head # Null
    /\ phase' = "run"
    /\ queue_node' = queue_head /\ ran' = FALSE /\ ran_non_ticker' = FALSE
    /\ UNCHANGED <<state, linkVars, queued_priority, countVars, asleep, due, iteration>>

\* The counts are reset with an empty queue, should they be out of step.
EndIteration ==
    /\ phase' = "sleep"
    /\ IF queue_head = Null
       THEN queue_priority_count' = 0 /\ queue_priority_count_bg' = 0
       ELSE UNCHANGED countVars
    /\ iteration' = (iteration + 1) % 3
    /\ queue_node' = Null /\ ran' = FALSE /\ ran_non_ticker' = FALSE
    /\ UNCHANGED <<state, linkVars, queued_priority, asleep, due>>

\* Nothing to run, or no time left for it.
SkipRun == phase = "check" /\ due = {} /\ EndIteration

NextPass ==
    /\ phase = "run" /\ queue_node = Null
    /\ ran /\ queue_head # Null
    /\ queue_node' = queue_head /\ ran' = FALSE
    /\ UNCHANGED <<state, linkVars, queued_priority, countVars, asleep, phase, due,
                   iteration, ran_non_ticker>>

\* At the end of the queue, or in the middle of it once the tick is used up.
EndRun ==
    /\ phase = "run"
    /\ queue_node = Null \/ ran
    /\ EndIteration
----------------------------------------------------------------------------
(* One node of RunQueue *)

\* Bug: the bump raises nothing.
RaiseNothing(p) == p

\* A tenth of the count, rounded up to a whole.
Raise(p) == Max({p, Min({TopPriority, p + (queue_priority_count + 9) \div 10})})

\* No room in this tick for a subsystem that cannot pause: its share is raised
\* and it waits, unless nothing ran before it.
Bump(ss) ==
    /\ phase = "run" /\ queue_node = ss
    /\ ss \in NoTickCheck /\ ran_non_ticker
    /\ queued_priority' = [queued_priority EXCEPT ![ss] = Raise(queued_priority[ss])]
    /\ queue_priority_count' =
         queue_priority_count - queued_priority[ss] + queued_priority'[ss]
    /\ queue_node' = queue_next[ss]
    /\ UNCHANGED <<state, linkVars, queue_priority_count_bg, asleep, phase, due,
                   iteration, ran, ran_non_ticker>>

RunNode(ss) ==
    /\ phase = "run" /\ queue_node = ss
    /\ ran' = TRUE
    /\ ran_non_ticker' = (ran_non_ticker \/ ss \notin Ticker)
    /\ queue_node' = queue_next[ss]
    /\ UNCHANGED <<queued_priority, phase, due, iteration>>

\* Bug: background subsystems leave the other total.
UnqueueOneTotal(ss, s) ==
    /\ state' = [state EXCEPT ![ss] = s]
    /\ queue_priority_count' = queue_priority_count - queued_priority[ss]
    /\ UNCHANGED queue_priority_count_bg
    /\ dequeue(ss)

Unqueue(ss, s) ==
    /\ state' = [state EXCEPT ![ss] = s]
    /\ IF ss \in Background
       THEN /\ queue_priority_count_bg' = queue_priority_count_bg - queued_priority[ss]
            /\ UNCHANGED queue_priority_count
       ELSE /\ queue_priority_count' = queue_priority_count - queued_priority[ss]
            /\ UNCHANGED queue_priority_count_bg
    /\ dequeue(ss)

RunFinishes(ss) == RunNode(ss) /\ Unqueue(ss, "idle") /\ UNCHANGED asleep

\* Bug: ignite() does not tell that fire() slept.
RunSleepsUnseen(ss) ==
    /\ ss \in Sleepers /\ asleep[ss] < MaxAsleep
    /\ RunNode(ss)
    /\ Unqueue(ss, "idle")
    /\ asleep' = [asleep EXCEPT ![ss] = @ + 1]

RunSleeps(ss) ==
    /\ ss \in Sleepers /\ asleep[ss] < MaxAsleep
    /\ RunNode(ss)
    /\ Unqueue(ss, "sleeping")
    /\ asleep' = [asleep EXCEPT ![ss] = @ + 1]

\* MC_TICK_CHECK: the subsystem stays in the queue.
RunPauses(ss) ==
    /\ ss \notin NoTickCheck
    /\ RunNode(ss)
    /\ state' = [state EXCEPT ![ss] = "paused"]
    /\ UNCHANGED <<linkVars, countVars, asleep>>

Run(ss) == RunFinishes(ss) \/ RunSleeps(ss) \/ RunPauses(ss)
----------------------------------------------------------------------------
(* The rest of a fire() that slept, and of its ignite() *)

Wakes(ss) ==
    /\ phase \in {"sleep", "prep"}
    /\ asleep[ss] > 0
    /\ asleep' = [asleep EXCEPT ![ss] = @ - 1]
    /\ UNCHANGED <<phase, due, iteration, runVars>>

\* Bug: ignite() leaves SS_SLEEPING.
WakeReturnsAsleep(ss) ==
    /\ Wakes(ss)
    /\ UNCHANGED <<state, linkVars, queued_priority, countVars>>

\* fire() returns; a state other than SS_SLEEPING is left alone.
WakeReturns(ss) ==
    /\ Wakes(ss)
    /\ state' = [state EXCEPT ![ss] = IF @ = "sleeping" THEN "idle" ELSE @]
    /\ UNCHANGED <<linkVars, queued_priority, countVars>>

\* MC_TICK_CHECK finds another state than SS_RUNNING: SS_PAUSING, and ignite()
\* queues the subsystem again.
WakePauses(ss) ==
    /\ ss \notin NoTickCheck /\ state[ss] = "sleeping"
    /\ Wakes(ss)
    /\ enqueue(ss, "paused")
----------------------------------------------------------------------------
(* Failures *)

ClearQueue ==
    /\ state' = [ss \in Subsystems |-> "idle"]
    /\ queue_next' = [ss \in Subsystems |-> Null]
    /\ queue_prev' = [ss \in Subsystems |-> Null]
    /\ queue_head' = Null /\ queue_tail' = Null

\* A queue proc runtimes.
SoftReset ==
    /\ Failures /\ phase \in {"check", "run"}
    /\ ClearQueue
    /\ queued_priority' = [ss \in Subsystems |-> 0]
    /\ queue_priority_count' = 0 /\ queue_priority_count_bg' = 0
    /\ phase' = "sleep" /\ due' = {}
    /\ iteration' \in {iteration, (iteration + 1) % 3}
    /\ queue_node' = Null /\ ran' = FALSE /\ ran_non_ticker' = FALSE
    /\ UNCHANGED asleep

\* The Failsafe or an admin replaces the master while its Loop() sleeps.
Recreate_MC ==
    /\ Failures /\ phase = "sleep"
    /\ queue_head' = Null /\ queue_tail' = Null
    /\ queue_priority_count' = 0 /\ queue_priority_count_bg' = 0
    /\ phase' = "prep"
    /\ UNCHANGED <<state, queue_next, queue_prev, queued_priority, asleep, due,
                   iteration, runVars>>

\* The new master's Loop() starts; the counts are not among what it resets.
StartLoop ==
    /\ phase = "prep"
    /\ ClearQueue
    /\ phase' = "sleep" /\ iteration' = 1
    /\ UNCHANGED <<queued_priority, countVars, asleep, due, runVars>>

OnSubsystem(ss) ==
    \/ CheckQueue(ss) \/ Bump(ss) \/ Run(ss) \/ WakeReturns(ss) \/ WakePauses(ss)

Next ==
    \/ StartIteration \/ StartRun \/ SkipRun \/ NextPass \/ EndRun
    \/ \E ss \in Subsystems : OnSubsystem(ss)
    \/ SoftReset \/ Recreate_MC \/ StartLoop

Spec == Init /\ [][Next]_vars

LoopStep ==
    \/ StartIteration \/ StartRun \/ SkipRun \/ NextPass \/ EndRun
    \/ \E ss \in Subsystems : CheckQueue(ss) \/ Bump(ss) \/ Run(ss)

\* Loop() goes on, and a run of the queue ends.  The server is not overloaded for
\* ever: now and then a queue that is not empty is gone through to its end.  A
\* fire() that pauses resumes from where it stopped, so it is done at last.
Fairness ==
    /\ WF_vars(LoopStep)
    /\ SF_vars(EndRun)
    /\ []<>(phase = "check" /\ due = {} /\ queue_head # Null) =>
          []<>(phase = "run" /\ queue_node = Null)
    /\ \A ss \in Subsystems \ NoTickCheck : SF_vars(RunFinishes(ss) \/ RunSleeps(ss))

LiveSpec == Spec /\ Fairness
----------------------------------------------------------------------------
(* Properties *)

\* The doubly linked list is sound whenever a master runs: it holds exactly the
\* subsystems that are queued or paused, each once, both ways round.
QueueIsList ==
    phase # "prep" =>
      /\ Queued = {ss \in Subsystems : state[ss] \in {"queued", "paused"}}
      /\ Nth[Count] = Null
      /\ queue_tail = IF Queued = {} THEN Null
                      ELSE CHOOSE ss \in Queued : queue_next[ss] = Null
      /\ \A ss \in Queued : queue_prev[ss] =
           IF ss = queue_head THEN Null
           ELSE CHOOSE x \in Queued : queue_next[x] = ss

\* Tickers are ahead of normal subsystems and those ahead of background ones; in
\* a class a subsystem that was never bumped has none of lower priority ahead.
RunOrder ==
    phase # "prep" =>
      \A m, n \in 0..Count :
        (m < n /\ Nth[n] # Null) =>
          /\ Class(Nth[m]) <= Class(Nth[n])
          /\ (Class(Nth[m]) = Class(Nth[n]) /\ Nth[n] \notin NoTickCheck) =>
               queued_priority[Nth[m]] >= queued_priority[Nth[n]]

\* The run queue, whatever fails or is restarted: a sound list in the order of the
\* classes and priorities.
QueueInOrder == TypeOK /\ QueueIsList /\ RunOrder

\* The running totals RunQueue splits the tick with are the sums of the
\* priorities in the queue (comment of queue_priority_count).
Total(S) == MapThenSumSet(LAMBDA ss : queued_priority[ss], S)
PriorityTotals ==
    /\ queue_priority_count = Total(Queued \ Background)
    /\ queue_priority_count_bg = Total(Queued \cap Background)

\* A subsystem is left in SS_SLEEPING only with a fire() that will return and put
\* it back: none is lost to the scheduler.
SleepersComeBack ==
    \A ss \in Subsystems : state[ss] = "sleeping" => asleep[ss] > 0

\* "Sleeping in here prevents future fires until returned" (comment of fire()).
SleepPreventsFires ==
    [][\A ss \in Subsystems : asleep[ss] > 0 => ~Run(ss)]_vars

\* A queued subsystem runs in the end, one that waits for room in the tick too:
\* the bumps bring it ahead of the normal subsystems that are queued after it.
QueuedRuns ==
    \A ss \in Subsystems \ Background : (state[ss] = "queued") ~> (state[ss] # "queued")

\* Who is in the queue is fired in the end, and none while its last fire() is asleep.
FiresInTurn == SleepPreventsFires /\ QueuedRuns
============================================================================
