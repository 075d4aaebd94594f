-------------------------- MODULE SchedulerProofs --------------------------
(***************************************************************************)
(* No subsystem is lost asleep, and the run queue is a sound list in its   *)
(* order, whatever the subsystems, their flags and priorities, and whether *)
(* or not the queue procs fail; without failures its running totals are    *)
(* the sums they stand for.                                                *)
(***************************************************************************)
EXTENDS Scheduler, FiniteSetTheorems, WellFoundedInduction, TLAPS

\* What a step needs to know of the variables it reads: the queue and its counts
\* do not matter.
AsleepTypeOK ==
    /\ state \in [Subsystems -> {"idle", "queued", "paused", "sleeping"}]
    /\ asleep \in [Subsystems -> Nat]

IInv == AsleepTypeOK /\ SleepersComeBack

\* A subsystem that is put in another state than SS_SLEEPING.
LEMMA NotPutToSleep ==
    ASSUME IInv, NEW ss \in Subsystems, NEW s \in {"idle", "queued", "paused"},
           state' = [state EXCEPT ![ss] = s],
           \/ asleep' = asleep
           \/ asleep[ss] > 0 /\ asleep' = [asleep EXCEPT ![ss] = @ - 1]
    PROVE  IInv'
BY DEF IInv, AsleepTypeOK, SleepersComeBack

\* A queue that is cleared leaves nobody in SS_SLEEPING.
LEMMA NobodyLeft ==
    ASSUME IInv, ClearQueue, asleep' = asleep
    PROVE  IInv'
BY DEF IInv, AsleepTypeOK, SleepersComeBack, ClearQueue

LEMMA Initially == Init => IInv
BY DEF Init, IInv, AsleepTypeOK, SleepersComeBack

LEMMA Stutters == ASSUME IInv, UNCHANGED <<state, asleep>> PROVE IInv'
BY DEF IInv, AsleepTypeOK, SleepersComeBack

LEMMA RunKeeps == ASSUME IInv, NEW ss \in Subsystems, Run(ss) PROVE IInv'
<1>1. CASE RunFinishes(ss)
  <2>1. state' = [state EXCEPT ![ss] = "idle"] /\ asleep' = asleep
    BY <1>1 DEF RunFinishes, Unqueue
  <2>2. QED BY <2>1, NotPutToSleep
<1>2. CASE RunSleeps(ss)
  <2>1. /\ state' = [state EXCEPT ![ss] = "sleeping"]
        /\ asleep' = [asleep EXCEPT ![ss] = @ + 1]
    BY <1>2 DEF RunSleeps, Unqueue
  <2>2. QED BY <2>1 DEF IInv, AsleepTypeOK, SleepersComeBack
<1>3. CASE RunPauses(ss)
  <2>1. state' = [state EXCEPT ![ss] = "paused"] /\ asleep' = asleep
    BY <1>3 DEF RunPauses
  <2>2. QED BY <2>1, NotPutToSleep
<1>4. QED BY <1>1, <1>2, <1>3 DEF Run

LEMMA WakeKeeps ==
    ASSUME IInv, NEW ss \in Subsystems, WakeReturns(ss) \/ WakePauses(ss)
    PROVE  IInv'
<1>1. asleep[ss] > 0 /\ asleep' = [asleep EXCEPT ![ss] = @ - 1]
  BY DEF WakeReturns, WakePauses, Wakes
<1>2. CASE WakeReturns(ss)
  <2>1. state' = [state EXCEPT ![ss] = IF @ = "sleeping" THEN "idle" ELSE @]
    BY <1>2 DEF WakeReturns
  <2>2. \E s \in {"idle", "queued", "paused"} : state' = [state EXCEPT ![ss] = s]
    BY <2>1 DEF IInv, AsleepTypeOK
  <2>3. QED BY <1>1, <2>2, NotPutToSleep
<1>3. CASE WakePauses(ss)
  <2>1. state' = [state EXCEPT ![ss] = "paused"]
    BY <1>3 DEF WakePauses, enqueue
  <2>2. QED BY <1>1, <2>1, NotPutToSleep
<1>4. QED BY <1>2, <1>3

LEMMA StepKeeps == ASSUME IInv, [Next]_vars PROVE IInv'
<1>1. CASE StartIteration \/ StartRun \/ SkipRun \/ NextPass \/ EndRun \/ Recreate_MC
  <2>1. UNCHANGED <<state, asleep>>
    BY <1>1 DEF StartIteration, StartRun, SkipRun, NextPass, EndRun, EndIteration, Recreate_MC
  <2>2. QED BY <2>1, Stutters
<1>2. ASSUME NEW ss \in Subsystems, OnSubsystem(ss) PROVE IInv'
  <2>1. CASE CheckQueue(ss)
    <3>1. state' = [state EXCEPT ![ss] = "queued"] /\ asleep' = asleep
      BY <2>1 DEF CheckQueue, enqueue
    <3>2. QED BY <3>1, NotPutToSleep
  <2>2. CASE Bump(ss)
    <3>1. UNCHANGED <<state, asleep>> BY <2>2 DEF Bump
    <3>2. QED BY <3>1, Stutters
  <2>3. CASE Run(ss) BY <2>3, RunKeeps
  <2>4. CASE WakeReturns(ss) \/ WakePauses(ss) BY <2>4, WakeKeeps
  <2>5. QED BY <1>2, <2>1, <2>2, <2>3, <2>4 DEF OnSubsystem
<1>3. CASE SoftReset \/ StartLoop
  <2>1. ClearQueue /\ asleep' = asleep BY <1>3 DEF SoftReset, StartLoop
  <2>2. QED BY <2>1, NobodyLeft
<1>4. CASE UNCHANGED vars
  <2>1. UNCHANGED <<state, asleep>> BY <1>4 DEF vars
  <2>2. QED BY <2>1, Stutters
<1>5. QED BY <1>1, <1>2, <1>3, <1>4 DEF Next

\* A subsystem left in SS_SLEEPING has a fire() that will return and put it back
\* (ignite()), also after runtimes of the queue procs and restarts of the master.
THEOREM SleepersComeBackHolds == Spec => []SleepersComeBack
<1>1. Init => IInv BY Initially
<1>2. IInv /\ [Next]_vars => IInv' BY StepKeeps
<1>3. IInv => SleepersComeBack BY DEF IInv
<1>4. QED BY <1>1, <1>2, <1>3, PTL DEF Spec

----------------------------------------------------------------------------
(* The linked list *)

\* A set of natural numbers has a least one: what holds of 0 and, with a number, of the
\* next one, holds of all.
LEMMA LeastNat ==
    ASSUME NEW S \in SUBSET Nat, S # {}
    PROVE  \E x \in S : \A y \in S : x <= y
<1> DEFINE R == OpToRel(<, Nat)
<1>1. IsWellFoundedOn(R, Nat)
  BY NatLessThanWellFounded
<1>2. R = {ss \in Nat \X Nat : ss[1] < ss[2]}
  BY DEF OpToRel
<1> HIDE DEF R
<1>3. PICK x \in S : \A y \in S : <<y, x>> \notin R
  BY <1>1, WFMin
<1>4. \A y \in S : x <= y
  <2> SUFFICES ASSUME NEW y \in S PROVE x <= y
    OBVIOUS
  <2>1. <<y, x>> \in R <=> y < x
    BY <1>2
  <2> QED
    BY <1>3, <2>1
<1> QED
  BY <1>3, <1>4

\* The links hold the N subsystems of q, in this order.
Chain(N, q) ==
    /\ q \in [0..(N - 1) -> Subsystems]
    /\ \A i, j \in 0..(N - 1) : q[i] = q[j] => i = j
    /\ queue_head = IF N = 0 THEN Null ELSE q[0]
    /\ queue_tail = IF N = 0 THEN Null ELSE q[N - 1]
    /\ \A i \in 0..(N - 1) :
          /\ queue_next[q[i]] = IF i = N - 1 THEN Null ELSE q[i + 1]
          /\ queue_prev[q[i]] = IF i = 0 THEN Null ELSE q[i - 1]

Members(N, q) == {q[i] : i \in 0..(N - 1)}

\* In front come the higher class and, in a class, the higher priority.
Ordered(N, q) ==
    \A i, j \in 0..(N - 1) :
       i < j =>
         /\ Class(q[i]) <= Class(q[j])
         /\ Class(q[i]) = Class(q[j]) /\ q[j] \notin NoTickCheck =>
               queued_priority[q[i]] >= queued_priority[q[j]]

\* As many as there are subsystems, at most.
LEMMA ChainLength ==
    ASSUME NEW N \in Nat, NEW q \in [0..(N - 1) -> Subsystems],
           \A i, j \in 0..(N - 1) : q[i] = q[j] => i = j
    PROVE  Count \in Nat /\ N <= Count
<1>1. IsFiniteSet(Subsystems)
  BY FlagAssumption
<1>2. Count \in Nat
  BY <1>1, FS_CardinalityType DEF Count
<1>3. q \in Injection(0..(N - 1), Subsystems)
  BY DEF Injection, IsInjective
<1>4. Cardinality(0..(N - 1)) <= Count
  BY <1>1, <1>3, FS_Injection DEF Count
<1>5. Cardinality(0..(N - 1)) = N
  BY FS_Interval
<1> QED
  BY <1>2, <1>4, <1>5

\* The walk from the head meets them one by one, and then stays at the end.
LEMMA Walk ==
    ASSUME NEW N \in Nat, NEW q, Chain(N, q)
    PROVE  /\ Count \in Nat /\ N <= Count
           /\ \A n \in 0..Count : Nth[n] = IF n < N THEN q[n] ELSE Null
<1> DEFINE step(f, n) ==
             IF n = 0 THEN queue_head
             ELSE LET node == f[n - 1]
                  IN  IF node = Null THEN Null ELSE queue_next[node]
           IsWalk(f) == f = [n \in 0..Count |-> step(f, n)]
           walk == [n \in 0..Count |-> IF n < N THEN q[n] ELSE Null]
<1>1. Count \in Nat /\ N <= Count
  BY ChainLength DEF Chain
<1>2. /\ \A n \in 0..(N - 1) : q[n] \in Subsystems /\ q[n] # Null
      /\ q \in [0..(N - 1) -> Subsystems]
  BY FlagAssumption DEF Chain
<1>3. IsWalk(walk)
  <2> SUFFICES ASSUME NEW n \in 0..Count PROVE walk[n] = step(walk, n)
    BY Zenon
  <2>1. CASE n = 0
    BY <1>1, <2>1 DEF Chain
  <2>2. CASE n # 0
    <3>1. n - 1 \in 0..Count /\ walk[n - 1] = IF n - 1 < N THEN q[n - 1] ELSE Null
      BY <1>1, <2>2
    <3>2. CASE n - 1 < N
      <4>1. n - 1 \in 0..(N - 1)
        BY <1>1, <2>2, <3>2
      <4>2. queue_next[q[n - 1]] = IF n - 1 = N - 1 THEN Null ELSE q[(n - 1) + 1]
        BY <4>1 DEF Chain
      <4>3. n - 1 = N - 1 <=> ~(n < N)
        BY <1>1, <3>2
      <4> QED
        BY <1>1, <1>2, <2>2, <3>1, <3>2, <4>1, <4>2, <4>3
    <3>3. CASE ~(n - 1 < N)
      BY <1>1, <2>2, <3>1, <3>3
    <3> QED
      BY <3>2, <3>3
  <2> QED
    BY <2>1, <2>2
<1>4. IsWalk(Nth)
  <2>1. Nth = CHOOSE f : IsWalk(f)
    BY Zenon DEF Nth
  <2> HIDE DEF IsWalk
  <2> QED
    BY <1>3, <2>1
<1>5. \A n \in 0..Count : Nth[n] = step(Nth, n)
  BY <1>4
<1>6. \A n \in 0..Count : walk[n] = step(walk, n)
  BY <1>3
<1> HIDE DEF walk
<1>7. \A n \in 0..Count : Nth[n] = walk[n]
  <2> DEFINE wrong == {n \in 0..Count : Nth[n] # walk[n]}
  <2> SUFFICES ASSUME wrong # {} PROVE FALSE
    OBVIOUS
  <2>1. PICK n \in wrong : \A m \in wrong : n <= m
    <3>1. wrong \in SUBSET Nat
      BY <1>1
    <3> HIDE DEF wrong
    <3> QED
      BY <3>1, LeastNat
  <2>2. n \in 0..Count /\ Nth[n] # walk[n]
    BY <2>1
  <2>3. n # 0
    BY <1>5, <1>6, <2>2
  <2>4. n - 1 \in 0..Count /\ n - 1 \notin wrong
    BY <1>1, <2>1, <2>2, <2>3
  <2>5. Nth[n - 1] = walk[n - 1]
    BY <2>4
  <2> QED
    BY <1>5, <1>6, <2>2, <2>3, <2>5
<1> QED
  BY <1>1, <1>7 DEF walk

\* A subsystem taken out of the queue: the links of its neighbours close over it.
Without(N, q, k) == [i \in 0..(N - 2) |-> IF i < k THEN q[i] ELSE q[i + 1]]

LEMMA DequeueDoes ==
    ASSUME NEW N \in Nat, NEW q, Chain(N, q), NEW k \in 0..(N - 1),
           queue_next \in [Subsystems -> Nodes], queue_prev \in [Subsystems -> Nodes],
           dequeue(q[k])
    PROVE  /\ N - 1 \in Nat
           /\ Chain(N - 1, Without(N, q, k))'
           /\ Members(N - 1, Without(N, q, k)) = Members(N, q) \ {q[k]}
           /\ queue_next'[q[k]] \in (Members(N, q) \ {q[k]}) \cup {Null}
           /\ queue_next'[q[k]] = queue_next[q[k]]
<1> DEFINE r == Without(N, q, k)
           next == queue_next[q[k]]
           prev == queue_prev[q[k]]
<1>1. /\ N - 1 \in Nat /\ N - 2 = (N - 1) - 1
      /\ \A i \in 0..(N - 1) : q[i] \in Subsystems /\ q[i] # Null
      /\ \A i, j \in 0..(N - 1) : q[i] = q[j] => i = j
  BY FlagAssumption DEF Chain
<1>2. /\ next = IF k = N - 1 THEN Null ELSE q[k + 1]
      /\ prev = IF k = 0 THEN Null ELSE q[k - 1]
  BY DEF Chain
<1>3. \A i \in 0..(N - 2) : r[i] = IF i < k THEN q[i] ELSE q[i + 1]
  BY DEF Without
<1>4. r \in [0..((N - 1) - 1) -> Subsystems]
  <2>1. \A i \in 0..(N - 2) : (IF i < k THEN q[i] ELSE q[i + 1]) \in Subsystems
    BY <1>1
  <2> QED
    BY <1>1, <2>1 DEF Without
<1> HIDE DEF r
<1>5. \A i, j \in 0..(N - 2) : r[i] = r[j] => i = j
  <2> SUFFICES ASSUME NEW i \in 0..(N - 2), NEW j \in 0..(N - 2), r[i] = r[j]
               PROVE  i = j
    OBVIOUS
  <2> DEFINE at(n) == IF n < k THEN n ELSE n + 1
  <2>1. at(i) \in 0..(N - 1) /\ at(j) \in 0..(N - 1) /\ r[i] = q[at(i)] /\ r[j] = q[at(j)]
    BY <1>1, <1>3
  <2>2. at(i) = at(j)
    <3> HIDE DEF at
    <3> QED
      BY <1>1, <2>1
  <2> QED
    BY <2>2
<1>6. queue_head' = IF N - 1 = 0 THEN Null ELSE r[0]
  <2>1. queue_head' = IF q[k] = queue_head THEN next ELSE queue_head
    BY DEF dequeue
  <2>2. queue_head = q[0] /\ (q[k] = q[0] <=> k = 0)
    BY <1>1 DEF Chain
  <2> QED
    BY <1>1, <1>2, <1>3, <2>1, <2>2
<1>7. queue_tail' = IF N - 1 = 0 THEN Null ELSE r[(N - 1) - 1]
  <2>1. queue_tail' = IF q[k] = queue_tail THEN prev ELSE queue_tail
    BY DEF dequeue
  <2>2. queue_tail = q[N - 1] /\ (q[k] = q[N - 1] <=> k = N - 1)
    BY <1>1 DEF Chain
  <2>3. CASE k = N - 1
    BY <1>1, <1>2, <1>3, <2>1, <2>2, <2>3
  <2>4. CASE k # N - 1
    <3>1. N - 2 \in 0..(N - 2) /\ ~(N - 2 < k) /\ N - 1 # 0
      BY <1>1, <2>4
    <3>2. r[N - 2] = q[(N - 2) + 1]
      BY <1>3, <3>1
    <3> QED
      BY <1>1, <2>1, <2>2, <2>4, <3>1, <3>2
  <2> QED
    BY <2>3, <2>4
<1>8. \A i \in 0..(N - 2) :
         /\ queue_next'[r[i]] = IF i = (N - 1) - 1 THEN Null ELSE r[i + 1]
         /\ queue_prev'[r[i]] = IF i = 0 THEN Null ELSE r[i - 1]
  <2> SUFFICES ASSUME NEW i \in 0..(N - 2)
               PROVE  /\ queue_next'[r[i]] = IF i = N - 2 THEN Null ELSE r[i + 1]
                      /\ queue_prev'[r[i]] = IF i = 0 THEN Null ELSE r[i - 1]
    BY <1>1
  <2> DEFINE a == IF i < k THEN i ELSE i + 1
  <2>1. a \in 0..(N - 1) /\ r[i] = q[a] /\ q[a] \in Subsystems
    BY <1>1, <1>3
  <2>2. /\ queue_next'[q[a]] = IF q[a] = prev THEN next ELSE queue_next[q[a]]
        /\ queue_prev'[q[a]] = IF q[a] = next THEN prev ELSE queue_prev[q[a]]
    BY <2>1 DEF dequeue
  <2>3. /\ queue_next[q[a]] = IF a = N - 1 THEN Null ELSE q[a + 1]
        /\ queue_prev[q[a]] = IF a = 0 THEN Null ELSE q[a - 1]
    BY <2>1 DEF Chain
  <2>4. (q[a] = prev <=> a = k - 1) /\ (q[a] = next <=> a = k + 1)
    BY <1>1, <1>2, <2>1
  <2>5. queue_next'[r[i]] = IF i = N - 2 THEN Null ELSE r[i + 1]
    <3>1. CASE i = N - 2
      BY <1>1, <1>2, <2>1, <2>2, <2>3, <2>4, <3>1
    <3>2. CASE i # N - 2
      <4>1. i + 1 \in 0..(N - 2)
        BY <1>1, <3>2
      <4>2. r[i + 1] = IF i + 1 < k THEN q[i + 1] ELSE q[(i + 1) + 1]
        BY <1>3, <4>1
      <4> QED
        BY <1>1, <1>2, <2>1, <2>2, <2>3, <2>4, <3>2, <4>2
    <3> QED
      BY <3>1, <3>2
  <2>6. queue_prev'[r[i]] = IF i = 0 THEN Null ELSE r[i - 1]
    <3>1. CASE i = 0
      BY <1>1, <1>2, <2>1, <2>2, <2>3, <2>4, <3>1
    <3>2. CASE i # 0
      <4>1. i - 1 \in 0..(N - 2)
        BY <1>1, <3>2
      <4>2. r[i - 1] = IF i - 1 < k THEN q[i - 1] ELSE q[(i - 1) + 1]
        BY <1>3, <4>1
      <4> QED
        BY <1>1, <1>2, <2>1, <2>2, <2>3, <2>4, <3>2, <4>2
    <3> QED
      BY <3>1, <3>2
  <2> QED
    BY <2>5, <2>6
<1>9. Chain(N - 1, r)'
  BY <1>1, <1>4, <1>5, <1>6, <1>7, <1>8 DEF Chain
<1>10. Members(N - 1, r) = Members(N, q) \ {q[k]}
  <2>1. ASSUME NEW i \in 0..(N - 2) PROVE r[i] \in Members(N, q) \ {q[k]}
    <3> DEFINE a == IF i < k THEN i ELSE i + 1
    <3>1. a \in 0..(N - 1) /\ a # k /\ r[i] = q[a]
      BY <1>1, <1>3
    <3> QED
      BY <1>1, <3>1 DEF Members
  <2>2. ASSUME NEW a \in 0..(N - 1), a # k PROVE q[a] \in Members(N - 1, r)
    <3> DEFINE i == IF a < k THEN a ELSE a - 1
    <3>1. i \in 0..(N - 2) /\ r[i] = q[a]
      BY <1>1, <1>3, <2>2
    <3> QED
      BY <1>1, <3>1 DEF Members
  <2> QED
    BY <1>1, <2>1, <2>2 DEF Members
<1>11. next \in (Members(N, q) \ {q[k]}) \cup {Null}
  BY <1>1, <1>2 DEF Members
<1>12. queue_next'[q[k]] = next
  <2>1. queue_next'[q[k]] = IF q[k] = prev THEN next ELSE queue_next[q[k]]
    BY <1>1 DEF dequeue
  <2> QED
    BY <2>1
<1> QED
  BY <1>1, <1>9, <1>10, <1>11, <1>12 DEF r

\* A subsystem put into the queue at the place k.
With(N, q, k, ss) ==
    [i \in 0..N |-> IF i < k THEN q[i] ELSE IF i = k THEN ss ELSE q[i - 1]]

\* The place of a newcomer: behind all it does not outrank.
LEMMA PlaceOf ==
    ASSUME NEW N \in Nat, NEW q, Chain(N, q), NEW ss \in Subsystems
    PROVE  \E k \in 0..N :
              /\ Successor(ss) = IF k = N THEN Null ELSE q[k]
              /\ Predecessor(Successor(ss)) = IF k = 0 THEN Null ELSE q[k - 1]
              /\ \A i \in 0..(N - 1) : i < k => ~Outranks(ss, q[i])
              /\ k < N => Outranks(ss, q[k])
<1> DEFINE behind == {n \in 0..Count : Nth[n] # Null /\ Outranks(ss, Nth[n])}
<1>1. /\ Count \in Nat /\ N <= Count
      /\ \A n \in 0..Count : Nth[n] = IF n < N THEN q[n] ELSE Null
  BY Walk
<1>2. /\ \A i \in 0..(N - 1) : q[i] \in Subsystems /\ q[i] # Null
      /\ \A i, j \in 0..(N - 1) : q[i] = q[j] => i = j
  BY FlagAssumption DEF Chain
<1>3. \A n : n \in behind <=> n \in 0..(N - 1) /\ Outranks(ss, q[n])
  BY <1>1, <1>2
<1>4. Successor(ss) = IF behind = {} THEN Null ELSE Nth[Min(behind)]
  BY Zenon DEF Successor
<1> HIDE DEF behind
<1>5. PICK k \in 0..N :
         /\ Successor(ss) = IF k = N THEN Null ELSE q[k]
         /\ \A i \in 0..(N - 1) : i < k => ~Outranks(ss, q[i])
         /\ k < N => Outranks(ss, q[k])
  <2>1. CASE behind = {}
    BY <1>3, <1>4, <2>1
  <2>2. CASE behind # {}
    <3>1. behind \in SUBSET Nat
      BY <1>3
    <3>2. \E k \in behind : \A n \in behind : k <= n
      BY <2>2, <3>1, LeastNat
    <3>3. /\ Min(behind) \in behind
          /\ \A n \in behind : Min(behind) <= n
      BY <3>2 DEF Min
    <3> DEFINE k == Min(behind)
    <3> HIDE DEF k
    <3>4. k \in 0..(N - 1) /\ Outranks(ss, q[k]) /\ \A n \in behind : k <= n
      BY <1>3, <3>3 DEF k
    <3>5. Successor(ss) = q[k]
      BY <1>1, <1>4, <2>2, <3>4 DEF k
    <3>6. \A i \in 0..(N - 1) : i < k => ~Outranks(ss, q[i])
      BY <1>3, <3>4
    <3> QED
      BY <3>4, <3>5, <3>6
  <2> QED
    BY <2>1, <2>2
<1>6. Predecessor(Successor(ss)) = IF k = 0 THEN Null ELSE q[k - 1]
  <2>1. CASE k = N
    BY <1>5, <2>1 DEF Predecessor, Chain
  <2>2. CASE k # N
    <3>1. k \in 0..(N - 1) /\ Successor(ss) = q[k] /\ q[k] # Null
      BY <1>2, <1>5, <2>2
    <3>2. queue_head = q[0] /\ 0 \in 0..(N - 1)
      BY <3>1 DEF Chain
    <3>3. queue_prev[q[k]] = IF k = 0 THEN Null ELSE q[k - 1]
      BY <3>1 DEF Chain
    <3>4. q[k] = queue_head <=> k = 0
      BY <1>2, <3>1, <3>2
    <3> QED
      BY <3>1, <3>3, <3>4 DEF Predecessor
  <2> QED
    BY <2>1, <2>2
<1> QED
  BY <1>5, <1>6

LEMMA EnqueueDoes ==
    ASSUME NEW N \in Nat, NEW q, Chain(N, q), NEW ss \in Subsystems \ Members(N, q),
           NEW s, enqueue(ss, s)
    PROVE  \E k \in 0..N :
              /\ Chain(N + 1, With(N, q, k, ss))'
              /\ Members(N + 1, With(N, q, k, ss)) = Members(N, q) \cup {ss}
              /\ \A i \in 0..(N - 1) : i < k => ~Outranks(ss, q[i])
              /\ k < N => Outranks(ss, q[k])
<1>1. PICK k \in 0..N :
         /\ Successor(ss) = IF k = N THEN Null ELSE q[k]
         /\ Predecessor(Successor(ss)) = IF k = 0 THEN Null ELSE q[k - 1]
         /\ \A i \in 0..(N - 1) : i < k => ~Outranks(ss, q[i])
         /\ k < N => Outranks(ss, q[k])
  BY PlaceOf
<1> DEFINE r == With(N, q, k, ss)
           next == IF k = N THEN Null ELSE q[k]
           prev == IF k = 0 THEN Null ELSE q[k - 1]
<1>2. /\ queue_next' = [x \in Subsystems |->
             IF x = ss THEN next ELSE IF x = prev THEN ss ELSE queue_next[x]]
      /\ queue_prev' = [x \in Subsystems |->
             IF x = ss THEN prev ELSE IF x = next THEN ss ELSE queue_prev[x]]
      /\ queue_head' = IF prev = Null THEN ss ELSE queue_head
      /\ queue_tail' = IF next = Null THEN ss ELSE queue_tail
  BY <1>1 DEF enqueue
<1>3. /\ (N + 1) - 1 = N /\ ss \in Subsystems /\ ss # Null
      /\ \A i \in 0..(N - 1) : q[i] \in Subsystems /\ q[i] # Null /\ q[i] # ss
      /\ \A i, j \in 0..(N - 1) : q[i] = q[j] => i = j
  BY FlagAssumption DEF Chain, Members
<1>4. \A i \in 0..N : r[i] = IF i < k THEN q[i] ELSE IF i = k THEN ss ELSE q[i - 1]
  BY DEF With
<1>5. r \in [0..((N + 1) - 1) -> Subsystems]
  <2>1. \A i \in 0..N : (IF i < k THEN q[i] ELSE IF i = k THEN ss ELSE q[i - 1]) \in Subsystems
    BY <1>3
  <2> QED
    BY <1>3, <2>1 DEF With
<1> HIDE DEF r
<1>6. \A i, j \in 0..N : r[i] = r[j] => i = j
  <2> SUFFICES ASSUME NEW i \in 0..N, NEW j \in 0..N, r[i] = r[j] PROVE i = j
    OBVIOUS
  <2> DEFINE at(n) == IF n < k THEN n ELSE n - 1
  <2>1. CASE i # k /\ j # k
    <3>1. at(i) \in 0..(N - 1) /\ at(j) \in 0..(N - 1) /\ r[i] = q[at(i)] /\ r[j] = q[at(j)]
      BY <1>3, <1>4, <2>1
    <3>2. at(i) = at(j)
      <4> HIDE DEF at
      <4> QED
        BY <1>3, <3>1
    <3> QED
      BY <2>1, <3>2
  <2>2. CASE i = k \/ j = k
    BY <1>3, <1>4, <2>2
  <2> QED
    BY <2>1, <2>2
<1>7. queue_head' = IF N + 1 = 0 THEN Null ELSE r[0]
  <2>1. N # 0 => queue_head = q[0]
    BY DEF Chain
  <2> QED
    BY <1>2, <1>3, <1>4, <2>1
<1>8. queue_tail' = IF N + 1 = 0 THEN Null ELSE r[(N + 1) - 1]
  <2>1. N # 0 => queue_tail = q[N - 1]
    BY DEF Chain
  <2> QED
    BY <1>2, <1>3, <1>4, <2>1
<1>9. \A i \in 0..N :
         /\ queue_next'[r[i]] = IF i = (N + 1) - 1 THEN Null ELSE r[i + 1]
         /\ queue_prev'[r[i]] = IF i = 0 THEN Null ELSE r[i - 1]
  <2> SUFFICES ASSUME NEW i \in 0..N
               PROVE  /\ queue_next'[r[i]] = IF i = N THEN Null ELSE r[i + 1]
                      /\ queue_prev'[r[i]] = IF i = 0 THEN Null ELSE r[i - 1]
    BY <1>3
  <2>1. CASE i = k
    <3>1. r[i] = ss /\ queue_next'[r[i]] = next /\ queue_prev'[r[i]] = prev
      BY <1>2, <1>3, <1>4, <2>1
    <3>2. k # N => k + 1 \in 0..N /\ r[k + 1] = q[(k + 1) - 1]
      BY <1>4
    <3>3. k # 0 => r[k - 1] = q[k - 1]
      BY <1>4
    <3> QED
      BY <2>1, <3>1, <3>2, <3>3
  <2>2. CASE i # k
    <3> DEFINE a == IF i < k THEN i ELSE i - 1
    <3>1. a \in 0..(N - 1) /\ r[i] = q[a] /\ q[a] \in Subsystems /\ q[a] # ss
      BY <1>3, <1>4, <2>2
    <3>2. /\ queue_next'[q[a]] = IF q[a] = prev THEN ss ELSE queue_next[q[a]]
          /\ queue_prev'[q[a]] = IF q[a] = next THEN ss ELSE queue_prev[q[a]]
      BY <1>2, <3>1
    <3>3. /\ queue_next[q[a]] = IF a = N - 1 THEN Null ELSE q[a + 1]
          /\ queue_prev[q[a]] = IF a = 0 THEN Null ELSE q[a - 1]
      BY <3>1 DEF Chain
    <3>4. (q[a] = prev <=> a = k - 1) /\ (q[a] = next <=> a = k)
      BY <1>3, <3>1
    <3>5. queue_next'[r[i]] = IF i = N THEN Null ELSE r[i + 1]
      <4>1. CASE i = N
        BY <1>3, <2>2, <3>1, <3>2, <3>3, <3>4, <4>1
      <4>2. CASE i # N
        <5>1. /\ i + 1 \in 0..N
              /\ r[i + 1] = IF i + 1 < k THEN q[i + 1]
                            ELSE IF i + 1 = k THEN ss ELSE q[(i + 1) - 1]
          BY <1>4, <4>2
        <5> QED
          BY <1>3, <2>2, <3>1, <3>2, <3>3, <3>4, <4>2, <5>1
      <4> QED
        BY <4>1, <4>2
    <3>6. queue_prev'[r[i]] = IF i = 0 THEN Null ELSE r[i - 1]
      <4>1. CASE i = 0
        BY <1>3, <2>2, <3>1, <3>2, <3>3, <3>4, <4>1
      <4>2. CASE i # 0
        <5>1. /\ i - 1 \in 0..N
              /\ r[i - 1] = IF i - 1 < k THEN q[i - 1]
                            ELSE IF i - 1 = k THEN ss ELSE q[(i - 1) - 1]
          BY <1>4, <4>2
        <5> QED
          BY <1>3, <2>2, <3>1, <3>2, <3>3, <3>4, <4>2, <5>1
      <4> QED
        BY <4>1, <4>2
    <3> QED
      BY <3>5, <3>6
  <2> QED
    BY <2>1, <2>2
<1>10. Chain(N + 1, r)'
  BY <1>3, <1>5, <1>6, <1>7, <1>8, <1>9 DEF Chain
<1>11. Members(N + 1, r) = Members(N, q) \cup {ss}
  <2>1. ASSUME NEW i \in 0..N PROVE r[i] \in Members(N, q) \cup {ss}
    BY <1>3, <1>4 DEF Members
  <2>2. ASSUME NEW a \in 0..(N - 1) PROVE q[a] \in Members(N + 1, r)
    <3> DEFINE i == IF a < k THEN a ELSE a + 1
    <3>1. i \in 0..N /\ r[i] = q[a]
      BY <1>3, <1>4
    <3> QED
      BY <1>3, <3>1 DEF Members
  <2>3. ss \in Members(N + 1, r)
    BY <1>3, <1>4 DEF Members
  <2> QED
    BY <1>3, <2>1, <2>2, <2>3 DEF Members
<1> QED
  BY <1>1, <1>10, <1>11 DEF r

----------------------------------------------------------------------------
(* The queue holds who it should, in order *)

InQueue == {ss \in Subsystems : state[ss] \in {"queued", "paused"}}

\* The links hold exactly the subsystems Q, in order.
Listed(Q) ==
    \E N \in Nat : \E q : Chain(N, q) /\ Ordered(N, q) /\ Members(N, q) = Q

\* A master that waits to start has an empty queue, or what was queued since.
QueueInv ==
    /\ TypeOK
    /\ \E Q \in SUBSET InQueue : Listed(Q) /\ (phase # "prep" => Q = InQueue)
    /\ phase = "run" => queue_node \in InQueue \cup {Null}
    /\ \A ss \in due : phase = "check" /\ state[ss] = "idle"

LEMMA ClassType == \A ss : Class(ss) \in 0..2
  BY DEF Class

LEMMA EnqueueKeepsOrder ==
    ASSUME TypeOK, NEW N \in Nat, NEW q, Chain(N, q), Ordered(N, q),
           NEW ss \in Subsystems \ Members(N, q), NEW k \in 0..N,
           \A i \in 0..(N - 1) : i < k => ~Outranks(ss, q[i]),
           k < N => Outranks(ss, q[k]),
           queued_priority' = [queued_priority EXCEPT ![ss] = priority[ss]]
    PROVE  Ordered(N + 1, With(N, q, k, ss))'
<1> DEFINE r == With(N, q, k, ss)
<1>1. /\ \A i \in 0..N : r[i] = IF i < k THEN q[i] ELSE IF i = k THEN ss ELSE q[i - 1]
      /\ (N + 1) - 1 = N
  BY DEF With
<1> HIDE DEF r
<1>2. /\ \A i \in 0..(N - 1) : q[i] \in Subsystems /\ q[i] # ss
      /\ \A x \in Subsystems : queued_priority[x] \in Int
      /\ priority[ss] \in Int
  <2>1. \A i \in 0..(N - 1) : q[i] \in Subsystems /\ q[i] # ss
    BY DEF Chain, Members
  <2>2. TopPriority \in Nat /\ priority[ss] \in 1..TopPriority
    BY PriorityAssumption
  <2>3. \A x \in Subsystems : queued_priority[x] \in 0..TopPriority
    BY DEF TypeOK
  <2> QED
    BY <2>1, <2>2, <2>3
<1>3. /\ queued_priority'[ss] = priority[ss]
      /\ \A i \in 0..(N - 1) : queued_priority'[q[i]] = queued_priority[q[i]]
  BY <1>2 DEF TypeOK
<1>4. ASSUME NEW i \in 0..N, NEW j \in 0..N, i < j
      PROVE  /\ Class(r[i]) <= Class(r[j])
             /\ Class(r[i]) = Class(r[j]) /\ r[j] \notin NoTickCheck =>
                   queued_priority'[r[i]] >= queued_priority'[r[j]]
  <2>1. CASE j = k
    <3>1. i \in 0..(N - 1) /\ r[i] = q[i] /\ r[j] = ss /\ ~Outranks(ss, q[i])
      BY <1>1, <1>4, <2>1
    <3> QED
      BY <1>2, <1>3, <3>1, ClassType DEF Outranks
  <2>2. CASE i = k
    <3>1. /\ j - 1 \in 0..(N - 1) /\ k \in 0..(N - 1) /\ k <= j - 1
          /\ r[i] = ss /\ r[j] = q[j - 1] /\ Outranks(ss, q[k])
      BY <1>1, <1>4, <2>2
    <3>2. /\ Class(ss) <= Class(q[k])
          /\ Class(ss) = Class(q[k]) => queued_priority[q[k]] < priority[ss]
      BY <3>1, ClassType DEF Outranks
    <3>3. \/ j - 1 = k
          \/ /\ Class(q[k]) <= Class(q[j - 1])
             /\ Class(q[k]) = Class(q[j - 1]) /\ q[j - 1] \notin NoTickCheck =>
                   queued_priority[q[k]] >= queued_priority[q[j - 1]]
      BY <3>1 DEF Ordered
    <3> QED
      BY <1>2, <1>3, <3>1, <3>2, <3>3, ClassType
  <2>3. CASE i # k /\ j # k
    <3> DEFINE a == IF i < k THEN i ELSE i - 1
               b == IF j < k THEN j ELSE j - 1
    <3>1. a \in 0..(N - 1) /\ b \in 0..(N - 1) /\ a < b /\ r[i] = q[a] /\ r[j] = q[b]
      BY <1>1, <1>4, <2>3
    <3> HIDE DEF a, b
    <3> QED
      BY <1>3, <3>1 DEF Ordered
  <2> QED
    BY <2>1, <2>2, <2>3
<1> QED
  BY <1>1, <1>4 DEF Ordered, r, Class

LEMMA EnqueueLists ==
    ASSUME TypeOK, NEW Q, Listed(Q), NEW ss \in Subsystems \ Q, NEW s, enqueue(ss, s)
    PROVE  Listed(Q \cup {ss})'
<1>n. PICK N \in Nat : \E q : Chain(N, q) /\ Ordered(N, q) /\ Members(N, q) = Q
  BY DEF Listed
<1>1. PICK q : Chain(N, q) /\ Ordered(N, q) /\ Members(N, q) = Q
  BY <1>n
<1>2. PICK k \in 0..N :
         /\ Chain(N + 1, With(N, q, k, ss))'
         /\ Members(N + 1, With(N, q, k, ss)) = Members(N, q) \cup {ss}
         /\ \A i \in 0..(N - 1) : i < k => ~Outranks(ss, q[i])
         /\ k < N => Outranks(ss, q[k])
  BY <1>1, EnqueueDoes
<1>3. queued_priority' = [queued_priority EXCEPT ![ss] = priority[ss]]
  BY DEF enqueue
<1>4. Ordered(N + 1, With(N, q, k, ss))'
  BY <1>1, <1>2, <1>3, EnqueueKeepsOrder
<1> DEFINE r == With(N, q, k, ss)
<1>5. N + 1 \in Nat /\ Chain(N + 1, r)' /\ Ordered(N + 1, r)' /\ Members(N + 1, r) = Q \cup {ss}
  BY <1>1, <1>2, <1>4
<1> HIDE DEF r
<1> QED
  BY <1>5 DEF Listed, Members

LEMMA DequeueLists ==
    ASSUME TypeOK, NEW Q, Listed(Q), NEW ss \in Q, dequeue(ss), UNCHANGED queued_priority
    PROVE  /\ Listed(Q \ {ss})'
           /\ queue_next[ss] \in (Q \ {ss}) \cup {Null}
<1>n. PICK N \in Nat : \E q : Chain(N, q) /\ Ordered(N, q) /\ Members(N, q) = Q
  BY DEF Listed
<1>1. PICK q : Chain(N, q) /\ Ordered(N, q) /\ Members(N, q) = Q
  BY <1>n
<1>2. PICK k \in 0..(N - 1) : ss = q[k]
  BY <1>1 DEF Members
<1> DEFINE r == Without(N, q, k)
<1>3. /\ N - 1 \in Nat /\ Chain(N - 1, r)' /\ Members(N - 1, r) = Q \ {ss}
      /\ queue_next[ss] \in (Q \ {ss}) \cup {Null}
  BY <1>1, <1>2, DequeueDoes DEF TypeOK
<1>4. Ordered(N - 1, r)'
  <2>1. \A i \in 0..(N - 2) : r[i] = IF i < k THEN q[i] ELSE q[i + 1]
    BY DEF Without
  <2> HIDE DEF r
  <2> SUFFICES ASSUME NEW i \in 0..(N - 2), NEW j \in 0..(N - 2), i < j
               PROVE  /\ Class(r[i]) <= Class(r[j])
                      /\ Class(r[i]) = Class(r[j]) /\ r[j] \notin NoTickCheck =>
                            queued_priority[r[i]] >= queued_priority[r[j]]
    BY DEF Ordered, Class
  <2> DEFINE a == IF i < k THEN i ELSE i + 1
             b == IF j < k THEN j ELSE j + 1
  <2>2. a \in 0..(N - 1) /\ b \in 0..(N - 1) /\ a < b /\ r[i] = q[a] /\ r[j] = q[b]
    BY <2>1
  <2> HIDE DEF a, b
  <2> QED
    BY <1>1, <2>2 DEF Ordered
<1> HIDE DEF r
<1> QED
  BY <1>3, <1>4 DEF Listed, Members

\* The list and the priorities in it do not change.
LEMMA ListStays ==
    ASSUME NEW Q, Listed(Q), UNCHANGED <<linkVars, queued_priority>>
    PROVE  Listed(Q)'
  BY DEF Listed, Chain, Ordered, Members, Class, linkVars

\* The next one of a subsystem in the queue is in it, or there is none.
LEMMA NextListed ==
    ASSUME NEW Q, Listed(Q), NEW ss \in Q
    PROVE  queue_next[ss] \in Q \cup {Null}
<1>n. PICK N \in Nat : \E q : Chain(N, q) /\ Members(N, q) = Q
  BY DEF Listed
<1>1. PICK q : Chain(N, q) /\ Members(N, q) = Q
  BY <1>n
<1>2. PICK k \in 0..(N - 1) : ss = q[k]
  BY <1>1 DEF Members
<1>3. queue_next[ss] = IF k = N - 1 THEN Null ELSE q[k + 1]
  BY <1>1, <1>2 DEF Chain
<1> QED
  BY <1>1, <1>2, <1>3 DEF Members

LEMMA HeadListed ==
    ASSUME NEW Q, Listed(Q) PROVE queue_head \in Q \cup {Null}
  BY DEF Listed, Chain, Members

\* An empty queue.
LEMMA EmptyListed ==
    ASSUME queue_head' = Null, queue_tail' = Null PROVE Listed({})'
<1> DEFINE q == [i \in 0..(0 - 1) |-> Null]
<1>1. q \in [0..(0 - 1) -> Subsystems]
  OBVIOUS
<1>2. Chain(0, q)' /\ Ordered(0, q)' /\ Members(0, q) = {}
  BY <1>1 DEF Chain, Ordered, Members
<1> HIDE DEF q
<1> QED
  BY <1>2 DEF Listed, Members

LEMMA RaiseType ==
    ASSUME NEW p \in 0..TopPriority, queue_priority_count \in Int
    PROVE  Raise(p) \in 0..TopPriority /\ Raise(p) >= p
<1> DEFINE share == p + (queue_priority_count + 9) \div 10
           up == Min({TopPriority, share})
<1>1. TopPriority \in Nat /\ share \in Int
  BY PriorityAssumption
<1> HIDE DEF share
<1>2. up \in Int /\ up <= TopPriority
  <2>1. \E x \in {TopPriority, share} : \A y \in {TopPriority, share} : x <= y
    BY <1>1
  <2>2. /\ up \in {TopPriority, share}
        /\ \A y \in {TopPriority, share} : up <= y
    BY <2>1 DEF Min
  <2> QED
    BY <1>1, <2>2
<1>3. Raise(p) = Max({p, up})
  BY DEF Raise, share
<1> HIDE DEF up
<1>4. /\ Max({p, up}) \in {p, up}
      /\ \A y \in {p, up} : Max({p, up}) >= y
  <2>1. \E x \in {p, up} : \A y \in {p, up} : x >= y
    BY <1>1, <1>2
  <2> QED
    BY <2>1 DEF Max
<1> QED
  BY <1>1, <1>2, <1>3, <1>4

\* Only a ticker that may not pause, or another such subsystem, is raised: nobody's place
\* in the queue is wrong afterwards.
LEMMA BumpKeepsOrder ==
    ASSUME TypeOK, NEW N \in Nat, NEW q, Chain(N, q), Ordered(N, q),
           NEW ss \in Subsystems, Bump(ss)
    PROVE  Ordered(N, q)'
<1>1. /\ ss \in NoTickCheck
      /\ queued_priority' = [queued_priority EXCEPT ![ss] = Raise(queued_priority[ss])]
  BY DEF Bump
<1>2. /\ \A x \in Subsystems : queued_priority[x] \in Int
      /\ Raise(queued_priority[ss]) \in Int
      /\ Raise(queued_priority[ss]) >= queued_priority[ss]
  <2>1. TopPriority \in Nat /\ \A x \in Subsystems : queued_priority[x] \in 0..TopPriority
    BY PriorityAssumption DEF TypeOK
  <2> QED
    BY <2>1, RaiseType DEF TypeOK
<1>3. \A x \in Subsystems :
        /\ queued_priority'[x] \in Int /\ queued_priority'[x] >= queued_priority[x]
        /\ x # ss => queued_priority'[x] = queued_priority[x]
  BY <1>1, <1>2 DEF TypeOK
<1>4. \A i \in 0..(N - 1) : q[i] \in Subsystems
  BY DEF Chain
<1> SUFFICES ASSUME NEW i \in 0..(N - 1), NEW j \in 0..(N - 1), i < j
             PROVE  /\ Class(q[i]) <= Class(q[j])
                    /\ Class(q[i]) = Class(q[j]) /\ q[j] \notin NoTickCheck =>
                          queued_priority'[q[i]] >= queued_priority'[q[j]]
  BY DEF Ordered, Class
<1>5. /\ Class(q[i]) <= Class(q[j])
      /\ Class(q[i]) = Class(q[j]) /\ q[j] \notin NoTickCheck =>
            queued_priority[q[i]] >= queued_priority[q[j]]
  BY DEF Ordered
<1> QED
  BY <1>1, <1>2, <1>3, <1>4, <1>5

LEMMA QueueAtStart == Init => QueueInv
<1> SUFFICES ASSUME Init PROVE QueueInv
  OBVIOUS
<1>1. Listed({})
  <2> DEFINE q == [i \in 0..(0 - 1) |-> Null]
  <2>1. q \in [0..(0 - 1) -> Subsystems]
    OBVIOUS
  <2>2. Chain(0, q) /\ Ordered(0, q) /\ Members(0, q) = {}
    BY <2>1 DEF Chain, Ordered, Members, Init
  <2> HIDE DEF q
  <2> QED
    BY <2>2 DEF Listed
<1>2. TypeOK
  <2>1. 0 \in 0..TopPriority /\ 0 \in 0..MaxAsleep
    BY PriorityAssumption
  <2>2. /\ state \in [Subsystems -> {"idle", "queued", "paused", "sleeping"}]
        /\ queue_next \in [Subsystems -> Nodes] /\ queue_prev \in [Subsystems -> Nodes]
        /\ queued_priority \in [Subsystems -> 0..TopPriority]
        /\ asleep \in [Subsystems -> 0..MaxAsleep]
    BY <2>1 DEF Init, Nodes
  <2>3. ran \in BOOLEAN /\ ran_non_ticker \in BOOLEAN
    <3>1. ran = FALSE /\ ran_non_ticker = FALSE
      BY DEF Init
    <3> QED
      BY <3>1
  <2>4. /\ queue_head \in Nodes /\ queue_tail \in Nodes /\ queue_node \in Nodes
        /\ queue_priority_count \in Int /\ queue_priority_count_bg \in Int
        /\ phase \in {"sleep", "check", "run", "prep"}
        /\ due \subseteq Subsystems /\ iteration \in 0..2
    BY DEF Init, Nodes
  <2> QED
    BY <2>2, <2>3, <2>4 DEF TypeOK
<1>3. InQueue = {}
  BY DEF Init, InQueue
<1> QED
  BY <1>1, <1>2, <1>3 DEF Init, QueueInv

\* A subsystem that was not queued is.
LEMMA EnqueueKeeps ==
    ASSUME QueueInv, NEW ss \in Subsystems, state[ss] \in {"idle", "sleeping"},
           NEW s \in {"queued", "paused"}, enqueue(ss, s),
           UNCHANGED <<phase, queue_node>>, phase # "run"
    PROVE  /\ \E Q \in SUBSET InQueue' : Listed(Q)' /\ (phase' # "prep" => Q = InQueue')
           /\ InQueue' = InQueue \cup {ss}
<1>1. PICK Q \in SUBSET InQueue : Listed(Q) /\ (phase # "prep" => Q = InQueue)
  BY DEF QueueInv
<1>2. ss \in Subsystems \ Q /\ TypeOK
  BY <1>1 DEF InQueue, QueueInv
<1>3. Listed(Q \cup {ss})'
  BY <1>1, <1>2, EnqueueLists
<1>4. state' = [state EXCEPT ![ss] = s]
  BY DEF enqueue
<1>5. InQueue' = InQueue \cup {ss}
  BY <1>2, <1>4 DEF InQueue, TypeOK
<1> QED
  BY <1>1, <1>3, <1>5

LEMMA EnqueueType ==
    ASSUME QueueInv, NEW ss \in Subsystems, NEW s \in {"queued", "paused"}, enqueue(ss, s)
    PROVE  /\ state' \in [Subsystems -> {"idle", "queued", "paused", "sleeping"}]
           /\ queue_next' \in [Subsystems -> Nodes] /\ queue_prev' \in [Subsystems -> Nodes]
           /\ queued_priority' \in [Subsystems -> 0..TopPriority]
           /\ queue_head' \in Nodes /\ queue_tail' \in Nodes
           /\ queue_priority_count' \in Int /\ queue_priority_count_bg' \in Int
<1>1. PICK Q : Listed(Q)
  BY DEF QueueInv
<1>n. PICK N \in Nat : \E q : Chain(N, q)
  BY <1>1 DEF Listed
<1>2. PICK q : Chain(N, q)
  BY <1>n
<1>3. PICK k \in 0..N :
         /\ Successor(ss) = IF k = N THEN Null ELSE q[k]
         /\ Predecessor(Successor(ss)) = IF k = 0 THEN Null ELSE q[k - 1]
  BY <1>2, PlaceOf
<1>4. Successor(ss) \in Nodes /\ Predecessor(Successor(ss)) \in Nodes
  BY <1>2, <1>3 DEF Chain, Nodes
<1>5. priority[ss] \in 0..TopPriority /\ priority[ss] \in Int
  BY PriorityAssumption
<1> QED
  BY <1>4, <1>5 DEF enqueue, QueueInv, TypeOK, Nodes

\* The loop goes from one phase to the next.
LEMMA LoopKeeps ==
    ASSUME QueueInv, StartIteration \/ StartRun \/ SkipRun \/ NextPass \/ EndRun
    PROVE  QueueInv'
<1>1. PICK Q \in SUBSET InQueue : Listed(Q) /\ (phase # "prep" => Q = InQueue)
  BY DEF QueueInv
<1>2. TypeOK
  BY DEF QueueInv
<1>3. /\ UNCHANGED <<state, linkVars, queued_priority, asleep>>
      /\ phase # "prep" /\ phase' # "prep"
  BY DEF StartIteration, StartRun, SkipRun, NextPass, EndRun, EndIteration
<1>4. InQueue' = InQueue /\ Listed(Q)' /\ Q = InQueue
  BY <1>1, <1>3, ListStays DEF InQueue
<1>5. queue_head \in InQueue \cup {Null}
  BY <1>1, <1>4, HeadListed
<1>6. iteration' \in 0..2
  BY <1>2 DEF StartIteration, StartRun, SkipRun, NextPass, EndRun, EndIteration, TypeOK
<1>7. /\ queue_priority_count' \in Int /\ queue_priority_count_bg' \in Int
      /\ phase' \in {"sleep", "check", "run", "prep"}
      /\ ran' \in BOOLEAN /\ ran_non_ticker' \in BOOLEAN
  <2>1. /\ queue_priority_count \in Int /\ queue_priority_count_bg \in Int
        /\ phase \in {"sleep", "check", "run", "prep"}
        /\ ran \in BOOLEAN /\ ran_non_ticker \in BOOLEAN
    BY <1>2 DEF TypeOK
  <2>2. CASE SkipRun \/ EndRun
    <3>1. EndIteration
      BY <2>2 DEF SkipRun, EndRun
    <3>2. ran' = FALSE /\ ran_non_ticker' = FALSE
      BY <3>1 DEF EndIteration
    <3>3. /\ phase' = "sleep"
          /\ \/ queue_priority_count' = 0 /\ queue_priority_count_bg' = 0
             \/ UNCHANGED <<queue_priority_count, queue_priority_count_bg>>
      BY <3>1 DEF EndIteration, countVars
    <3>4. ran' \in BOOLEAN /\ ran_non_ticker' \in BOOLEAN
      BY <3>2
    <3>5. /\ queue_priority_count' \in Int /\ queue_priority_count_bg' \in Int
          /\ phase' \in {"sleep", "check", "run", "prep"}
      BY <2>1, <3>3
    <3> QED
      BY <3>4, <3>5
  <2>3. CASE StartIteration
    BY <2>1, <2>3 DEF StartIteration, countVars, runVars
  <2>4. CASE StartRun \/ NextPass
    BY <2>1, <2>4 DEF StartRun, NextPass, countVars
  <2> QED
    BY <2>2, <2>3, <2>4
<1>8. /\ queue_node' \in Nodes
      /\ phase' = "run" => queue_node' \in InQueue \cup {Null}
  BY <1>2, <1>5
  DEF StartIteration, StartRun, SkipRun, NextPass, EndRun, EndIteration, TypeOK, runVars,
      InQueue, Nodes
<1>9. due' \subseteq Subsystems /\ \A ss \in due' : phase' = "check" /\ state[ss] = "idle"
  <2>1. CASE StartIteration
    <3>1. subsystems_to_check \subseteq Subsystems
      BY FlagAssumption DEF subsystems_to_check
    <3> QED
      BY <2>1, <3>1 DEF StartIteration
  <2>2. CASE StartRun \/ SkipRun \/ NextPass \/ EndRun
    <3>1. due' = due /\ due = {}
      BY <2>2 DEF QueueInv, StartRun, SkipRun, NextPass, EndRun, EndIteration
    <3> QED
      BY <3>1
  <2> QED
    BY <2>1, <2>2
<1>10. TypeOK'
  BY <1>2, <1>3, <1>6, <1>7, <1>8, <1>9 DEF TypeOK, linkVars
<1> QED
  BY <1>3, <1>4, <1>8, <1>9, <1>10 DEF QueueInv

LEMMA CheckKeeps == ASSUME QueueInv, NEW ss \in Subsystems, CheckQueue(ss) PROVE QueueInv'
<1>1. /\ state[ss] = "idle" /\ phase = "check" /\ enqueue(ss, "queued")
      /\ due' = due \ {ss} /\ UNCHANGED <<asleep, phase, iteration, runVars>>
  BY DEF QueueInv, CheckQueue
<1>2. /\ \E Q \in SUBSET InQueue' : Listed(Q)' /\ (phase' # "prep" => Q = InQueue')
      /\ UNCHANGED <<phase, queue_node>>
  BY <1>1, EnqueueKeeps DEF runVars
<1>3. state' = [state EXCEPT ![ss] = "queued"]
  BY <1>1 DEF enqueue
<1>4. \A x \in due' : phase' = "check" /\ state'[x] = "idle"
  BY <1>1, <1>3 DEF QueueInv, TypeOK
<1>5. TypeOK'
  BY <1>1, EnqueueType DEF QueueInv, TypeOK, runVars
<1> QED
  BY <1>1, <1>2, <1>4, <1>5 DEF QueueInv

LEMMA BumpKeeps == ASSUME QueueInv, NEW ss \in Subsystems, Bump(ss) PROVE QueueInv'
<1>1. PICK Q \in SUBSET InQueue : Listed(Q) /\ (phase # "prep" => Q = InQueue)
  BY DEF QueueInv
<1>2. /\ TypeOK /\ phase = "run" /\ phase' = "run" /\ Q = InQueue /\ ss \in Q
      /\ UNCHANGED <<state, linkVars, asleep, due>> /\ InQueue' = InQueue
      /\ queue_node' = queue_next[ss]
  BY <1>1, FlagAssumption DEF QueueInv, Bump, InQueue
<1>3. Listed(Q)'
  <2>n. PICK N \in Nat : \E q : Chain(N, q) /\ Ordered(N, q) /\ Members(N, q) = Q
    BY <1>1 DEF Listed
  <2>1. PICK q : Chain(N, q) /\ Ordered(N, q) /\ Members(N, q) = Q
    BY <2>n
  <2>2. Chain(N, q)'
    BY <1>2, <2>1 DEF Chain, linkVars
  <2>3. Ordered(N, q)'
    BY <1>2, <2>1, BumpKeepsOrder
  <2> QED
    BY <2>1, <2>2, <2>3 DEF Listed, Members
<1>4. queue_node' \in InQueue \cup {Null} /\ queue_node' \in Nodes
  BY <1>1, <1>2, NextListed DEF InQueue, Nodes
<1>5. /\ queued_priority' \in [Subsystems -> 0..TopPriority]
      /\ queue_priority_count' \in Int
  <2>1. queued_priority[ss] \in 0..TopPriority
    BY <1>2 DEF TypeOK
  <2>2. Raise(queued_priority[ss]) \in 0..TopPriority
    BY <1>2, <2>1, RaiseType DEF TypeOK
  <2>3. queued_priority' = [queued_priority EXCEPT ![ss] = Raise(queued_priority[ss])]
    BY DEF Bump
  <2>4. queued_priority'[ss] \in 0..TopPriority /\ TopPriority \in Nat
    BY <1>2, <2>2, <2>3, PriorityAssumption DEF TypeOK
  <2>5. queue_priority_count' =
           queue_priority_count - queued_priority[ss] + queued_priority'[ss]
    BY DEF Bump
  <2>6. queued_priority' \in [Subsystems -> 0..TopPriority]
    BY <1>2, <2>2, <2>3 DEF TypeOK
  <2>7. queue_priority_count' \in Int
    <3>1. queue_priority_count \in Int
      BY <1>2 DEF TypeOK
    <3> QED
      BY <2>1, <2>4, <2>5, <3>1
  <2> QED
    BY <2>6, <2>7
<1>6. TypeOK'
  BY <1>2, <1>4, <1>5 DEF TypeOK, Bump, linkVars
<1>7. \A x \in due' : phase' = "check" /\ state'[x] = "idle"
  BY <1>2 DEF QueueInv
<1> QED
  BY <1>1, <1>2, <1>3, <1>4, <1>6, <1>7 DEF QueueInv

\* The subsystem whose turn it was has run, and is queued no more unless it paused.
LEMMA RunKeepsQueue == ASSUME QueueInv, NEW ss \in Subsystems, Run(ss) PROVE QueueInv'
<1>1. PICK Q \in SUBSET InQueue : Listed(Q) /\ (phase # "prep" => Q = InQueue)
  BY DEF QueueInv
<1>2. RunNode(ss) /\ TypeOK
  BY DEF Run, RunFinishes, RunSleeps, RunPauses, QueueInv
<1>3. /\ phase = "run" /\ phase' = "run" /\ Q = InQueue /\ ss \in Q
      /\ queue_node' = queue_next[ss] /\ UNCHANGED <<queued_priority, due, iteration>>
      /\ ran' \in BOOLEAN /\ ran_non_ticker' \in BOOLEAN /\ due = {}
  BY <1>1, <1>2, FlagAssumption DEF QueueInv, RunNode, TypeOK
<1>4. asleep' \in [Subsystems -> 0..MaxAsleep]
  <2>1. CASE RunSleeps(ss)
    <3>1. asleep[ss] \in 0..MaxAsleep /\ asleep[ss] < MaxAsleep /\ MaxAsleep \in Nat
      BY <1>2, <2>1, PriorityAssumption DEF TypeOK, RunSleeps
    <3>2. asleep[ss] + 1 \in 0..MaxAsleep
      BY <3>1
    <3> QED
      BY <1>2, <2>1, <3>2 DEF TypeOK, RunSleeps
  <2> QED
    BY <1>2, <2>1 DEF Run, RunFinishes, RunPauses, TypeOK
<1>5. CASE RunPauses(ss)
  <2>1. state' = [state EXCEPT ![ss] = "paused"] /\ UNCHANGED <<linkVars, countVars>>
    BY <1>5 DEF RunPauses
  <2>2. InQueue' = InQueue
    BY <1>2, <1>3, <2>1 DEF InQueue, TypeOK
  <2>3. Listed(Q)'
    BY <1>1, <1>3, <2>1, ListStays
  <2>4. queue_node' \in InQueue \cup {Null} /\ queue_node' \in Nodes
    BY <1>1, <1>3, NextListed DEF InQueue, Nodes
  <2>5. TypeOK'
    BY <1>2, <1>3, <1>4, <2>1, <2>4 DEF TypeOK, linkVars, countVars
  <2> QED
    BY <1>3, <2>2, <2>3, <2>4, <2>5 DEF QueueInv
<1>6. CASE RunFinishes(ss) \/ RunSleeps(ss)
  <2>1. PICK s \in {"idle", "sleeping"} : Unqueue(ss, s)
    BY <1>6 DEF RunFinishes, RunSleeps
  <2>2. state' = [state EXCEPT ![ss] = s] /\ dequeue(ss)
    BY <2>1 DEF Unqueue
  <2>3. InQueue' = InQueue \ {ss}
    BY <1>2, <2>1, <2>2 DEF InQueue, TypeOK
  <2>4. Listed(Q \ {ss})' /\ queue_next[ss] \in (Q \ {ss}) \cup {Null}
    BY <1>1, <1>2, <1>3, <2>2, DequeueLists
  <2>5. queue_node' \in InQueue' \cup {Null} /\ queue_node' \in Nodes
    BY <1>3, <2>3, <2>4 DEF InQueue, Nodes
  <2>6. queue_priority_count' \in Int /\ queue_priority_count_bg' \in Int
    <3>1. queued_priority[ss] \in Int
      <4>1. queued_priority[ss] \in 0..TopPriority /\ TopPriority \in Nat
        BY <1>2, PriorityAssumption DEF TypeOK
      <4> QED
        BY <4>1
    <3> QED
      BY <1>2, <2>1, <3>1 DEF Unqueue, TypeOK
  <2>7. queue_next[ss] \in Nodes /\ queue_prev[ss] \in Nodes
    BY <1>2 DEF TypeOK
  <2>8. /\ queue_next' \in [Subsystems -> Nodes] /\ queue_prev' \in [Subsystems -> Nodes]
        /\ queue_head' \in Nodes /\ queue_tail' \in Nodes
    BY <1>2, <2>2, <2>7 DEF dequeue, TypeOK
  <2>9. state' \in [Subsystems -> {"idle", "queued", "paused", "sleeping"}]
    BY <1>2, <2>1, <2>2 DEF TypeOK
  <2>10. TypeOK'
    BY <1>2, <1>3, <1>4, <2>5, <2>6, <2>8, <2>9 DEF TypeOK
  <2>11. \E R \in SUBSET InQueue' : Listed(R)' /\ (phase' # "prep" => R = InQueue')
    BY <1>3, <2>3, <2>4
  <2> QED
    BY <1>3, <2>5, <2>10, <2>11 DEF QueueInv
<1> QED
  BY <1>5, <1>6 DEF Run

LEMMA WakeKeepsQueue ==
    ASSUME QueueInv, NEW ss \in Subsystems, WakeReturns(ss) \/ WakePauses(ss)
    PROVE  QueueInv'
<1>1. PICK Q \in SUBSET InQueue : Listed(Q) /\ (phase # "prep" => Q = InQueue)
  BY DEF QueueInv
<1>2. /\ TypeOK /\ phase \in {"sleep", "prep"} /\ asleep[ss] > 0
      /\ asleep' = [asleep EXCEPT ![ss] = @ - 1]
      /\ UNCHANGED <<phase, due, iteration, runVars>> /\ due = {}
  BY DEF QueueInv, WakeReturns, WakePauses, Wakes
<1>3. asleep' \in [Subsystems -> 0..MaxAsleep]
  <2>1. asleep[ss] - 1 \in 0..MaxAsleep
    <3>1. asleep[ss] \in 0..MaxAsleep /\ MaxAsleep \in Nat
      BY <1>2, PriorityAssumption DEF TypeOK
    <3> QED
      BY <1>2, <3>1
  <2> QED
    BY <1>2, <2>1 DEF TypeOK
<1>4. CASE WakeReturns(ss)
  <2>1. /\ state' = [state EXCEPT ![ss] = IF @ = "sleeping" THEN "idle" ELSE @]
        /\ UNCHANGED <<linkVars, queued_priority, countVars>>
    BY <1>4 DEF WakeReturns
  <2>2. InQueue' = InQueue
    BY <1>2, <2>1 DEF InQueue, TypeOK
  <2>3. Listed(Q)'
    BY <1>1, <2>1, ListStays
  <2>4. TypeOK'
    <3>1. state' \in [Subsystems -> {"idle", "queued", "paused", "sleeping"}]
      BY <1>2, <2>1 DEF TypeOK
    <3> QED
      BY <1>2, <1>3, <2>1, <3>1 DEF TypeOK, linkVars, countVars, runVars
  <2> QED
    BY <1>1, <1>2, <2>2, <2>3, <2>4 DEF QueueInv
<1>5. CASE WakePauses(ss)
  <2>1. state[ss] = "sleeping" /\ enqueue(ss, "paused")
    BY <1>5 DEF WakePauses
  <2>2. /\ \E R \in SUBSET InQueue' : Listed(R)' /\ (phase' # "prep" => R = InQueue')
        /\ UNCHANGED <<phase, queue_node>>
    BY <1>2, <2>1, EnqueueKeeps DEF runVars
  <2>3. TypeOK'
    BY <1>2, <1>3, <2>1, EnqueueType DEF TypeOK, runVars
  <2> QED
    BY <1>2, <2>2, <2>3 DEF QueueInv
<1> QED
  BY <1>4, <1>5

\* After a runtime, a restart or the start of a new master the queue is empty.
LEMMA FailureKeepsQueue ==
    ASSUME QueueInv, SoftReset \/ Recreate_MC \/ StartLoop PROVE QueueInv'
<1>1. TypeOK /\ TopPriority \in Nat
  BY PriorityAssumption DEF QueueInv
<1>2. Listed({})'
  BY EmptyListed DEF SoftReset, Recreate_MC, StartLoop, ClearQueue
<1>3. due' = {} /\ phase' \in {"sleep", "prep"}
  BY DEF QueueInv, SoftReset, Recreate_MC, StartLoop
<1>4. phase' # "prep" => InQueue' = {}
  BY DEF SoftReset, Recreate_MC, StartLoop, ClearQueue, InQueue
<1>5. /\ state' \in [Subsystems -> {"idle", "queued", "paused", "sleeping"}]
      /\ queue_next' \in [Subsystems -> Nodes] /\ queue_prev' \in [Subsystems -> Nodes]
      /\ queue_head' \in Nodes /\ queue_tail' \in Nodes
  BY <1>1 DEF SoftReset, Recreate_MC, StartLoop, ClearQueue, TypeOK, Nodes
<1>6. /\ queued_priority' \in [Subsystems -> 0..TopPriority]
      /\ queue_priority_count' \in Int /\ queue_priority_count_bg' \in Int
  BY <1>1 DEF SoftReset, Recreate_MC, StartLoop, TypeOK, countVars
<1>7. asleep' = asleep /\ iteration' \in 0..2
  BY <1>1 DEF SoftReset, Recreate_MC, StartLoop, TypeOK
<1>8. queue_node' \in Nodes
  BY <1>1 DEF SoftReset, Recreate_MC, StartLoop, TypeOK, Nodes, runVars
<1>9. ran' \in BOOLEAN /\ ran_non_ticker' \in BOOLEAN
  <2>1. CASE SoftReset
    <3>1. ran' = FALSE /\ ran_non_ticker' = FALSE
      BY <2>1 DEF SoftReset
    <3> QED
      BY <3>1
  <2>2. CASE Recreate_MC \/ StartLoop
    BY <1>1, <2>2 DEF Recreate_MC, StartLoop, TypeOK, runVars
  <2> QED
    BY <2>1, <2>2
<1>10. TypeOK'
  BY <1>1, <1>3, <1>5, <1>6, <1>7, <1>8, <1>9 DEF TypeOK
<1> QED
  BY <1>2, <1>3, <1>4, <1>10 DEF QueueInv

LEMMA QueueStep == QueueInv /\ [Next]_vars => QueueInv'
<1> SUFFICES ASSUME QueueInv, [Next]_vars PROVE QueueInv'
  OBVIOUS
<1>1. ASSUME NEW ss \in Subsystems, OnSubsystem(ss) PROVE QueueInv'
  BY <1>1, CheckKeeps, BumpKeeps, RunKeepsQueue, WakeKeepsQueue DEF OnSubsystem
<1>2. CASE UNCHANGED vars
  <2>1. PICK Q \in SUBSET InQueue : Listed(Q) /\ (phase # "prep" => Q = InQueue)
    BY DEF QueueInv
  <2>2. Listed(Q)' /\ InQueue' = InQueue
    BY <1>2, <2>1, ListStays DEF vars, InQueue
  <2>3. TypeOK'
    BY <1>2 DEF QueueInv, TypeOK, vars, linkVars, countVars, runVars
  <2> QED
    BY <1>2, <2>1, <2>2, <2>3 DEF QueueInv, vars, runVars
<1> QED
  BY <1>1, <1>2, LoopKeeps, FailureKeepsQueue DEF Next

\* What the links hold is what the code's walk finds, and both ways round.
LEMMA ListIsSound ==
    ASSUME NEW Q, Listed(Q), Null \notin Subsystems
    PROVE  /\ Queued = Q /\ Nth[Count] = Null
           /\ queue_tail = IF Q = {} THEN Null ELSE CHOOSE ss \in Q : queue_next[ss] = Null
           /\ \A ss \in Q : queue_prev[ss] =
                IF ss = queue_head THEN Null ELSE CHOOSE x \in Q : queue_next[x] = ss
           /\ \A m, n \in 0..Count :
                m < n /\ Nth[n] # Null =>
                  /\ Class(Nth[m]) <= Class(Nth[n])
                  /\ Class(Nth[m]) = Class(Nth[n]) /\ Nth[n] \notin NoTickCheck =>
                        queued_priority[Nth[m]] >= queued_priority[Nth[n]]
<1>n. PICK N \in Nat : \E q : Chain(N, q) /\ Ordered(N, q) /\ Members(N, q) = Q
  BY DEF Listed
<1>1. PICK q : Chain(N, q) /\ Ordered(N, q) /\ Members(N, q) = Q
  BY <1>n
<1>2. /\ Count \in Nat /\ N <= Count
      /\ \A n \in 0..Count : Nth[n] = IF n < N THEN q[n] ELSE Null
  BY <1>1, Walk
<1>3. /\ \A i \in 0..(N - 1) : q[i] \in Subsystems /\ q[i] # Null
      /\ \A i, j \in 0..(N - 1) : q[i] = q[j] => i = j
      /\ \A i \in 0..(N - 1) :
            /\ queue_next[q[i]] = IF i = N - 1 THEN Null ELSE q[i + 1]
            /\ queue_prev[q[i]] = IF i = 0 THEN Null ELSE q[i - 1]
  BY <1>1 DEF Chain
<1>4. Queued = Q
  <2>1. ASSUME NEW n \in 0..Count, Nth[n] # Null PROVE Nth[n] \in Q
    <3>1. n \in 0..(N - 1) /\ Nth[n] = q[n]
      BY <1>2, <2>1
    <3> QED
      BY <1>1, <3>1 DEF Members
  <2>2. ASSUME NEW i \in 0..(N - 1) PROVE q[i] \in Queued
    <3>1. i \in 0..Count /\ Nth[i] = q[i]
      BY <1>2
    <3> QED
      BY <1>3, <3>1 DEF Queued
  <2> QED
    BY <1>1, <2>1, <2>2 DEF Queued, Members
<1>5. Nth[Count] = Null
  BY <1>2
<1>6. queue_tail = IF Q = {} THEN Null ELSE CHOOSE ss \in Q : queue_next[ss] = Null
  <2>1. CASE N = 0
    <3>1. Q = {}
      BY <1>1, <2>1 DEF Members
    <3> QED
      BY <1>1, <2>1, <3>1 DEF Chain
  <2>2. CASE N # 0
    <3>1. N - 1 \in 0..(N - 1) /\ queue_tail = q[N - 1]
      BY <1>1, <2>2 DEF Chain
    <3>2. q[N - 1] \in Q /\ queue_next[q[N - 1]] = Null
      BY <1>1, <1>3, <3>1 DEF Members
    <3>3. ASSUME NEW ss \in Q, queue_next[ss] = Null PROVE ss = q[N - 1]
      <4>1. PICK i \in 0..(N - 1) : ss = q[i]
        BY <1>1 DEF Members
      <4>2. i # N - 1 => i + 1 \in 0..(N - 1)
        BY <3>1
      <4> QED
        BY <1>3, <3>3, <4>1, <4>2
    <3> QED
      BY <3>1, <3>2, <3>3
  <2> QED
    BY <2>1, <2>2
<1>7. ASSUME NEW ss \in Q
      PROVE  queue_prev[ss] =
               IF ss = queue_head THEN Null ELSE CHOOSE x \in Q : queue_next[x] = ss
  <2>1. PICK i \in 0..(N - 1) : ss = q[i]
    BY <1>1 DEF Members
  <2>2. queue_head = q[0] /\ 0 \in 0..(N - 1)
    BY <1>1, <2>1 DEF Chain
  <2>3. CASE i = 0
    BY <1>3, <2>1, <2>2, <2>3
  <2>4. CASE i # 0
    <3>1. i - 1 \in 0..(N - 1) /\ i - 1 # N - 1 /\ (i - 1) + 1 = i
      BY <2>4
    <3>2. q[i - 1] \in Q /\ queue_next[q[i - 1]] = ss /\ queue_prev[ss] = q[i - 1]
      <4>1. queue_next[q[i - 1]] = q[(i - 1) + 1]
        BY <1>3, <3>1
      <4> QED
        BY <1>1, <1>3, <2>1, <2>4, <3>1, <4>1 DEF Members
    <3>3. ASSUME NEW x \in Q, queue_next[x] = ss PROVE x = q[i - 1]
      <4>1. PICK j \in 0..(N - 1) : x = q[j]
        BY <1>1 DEF Members
      <4>2. j # N - 1 /\ q[j + 1] = q[i]
        BY <1>3, <2>1, <3>3, <4>1
      <4>3. j + 1 \in 0..(N - 1)
        BY <4>2
      <4>4. j + 1 = i
        BY <1>3, <4>2, <4>3
      <4> QED
        BY <4>1, <4>4
    <3>4. ss # queue_head
      BY <1>3, <2>1, <2>2, <2>4
    <3> QED
      BY <3>2, <3>3, <3>4
  <2> QED
    BY <2>3, <2>4
<1>8. ASSUME NEW m \in 0..Count, NEW n \in 0..Count, m < n, Nth[n] # Null
      PROVE  /\ Class(Nth[m]) <= Class(Nth[n])
             /\ Class(Nth[m]) = Class(Nth[n]) /\ Nth[n] \notin NoTickCheck =>
                   queued_priority[Nth[m]] >= queued_priority[Nth[n]]
  <2>1. m \in 0..(N - 1) /\ n \in 0..(N - 1) /\ Nth[m] = q[m] /\ Nth[n] = q[n]
    BY <1>2, <1>8
  <2> QED
    BY <1>1, <1>8, <2>1 DEF Ordered
<1> QED
  BY <1>4, <1>5, <1>6, <1>7, <1>8

\* The run queue is a sound list of exactly those that wait, in the order of classes and
\* priorities, through every queueing, run, pause, bump, runtime and restart (enqueue(),
\* dequeue(), RunQueue(), SoftReset(), Recreate_MC()).
THEOREM QueueInOrderHolds == Spec => []QueueInOrder
<1>1. QueueInv => QueueInOrder
  <2> SUFFICES ASSUME QueueInv PROVE QueueInOrder
    OBVIOUS
  <2>1. CASE phase = "prep"
    BY <2>1 DEF QueueInv, QueueInOrder, QueueIsList, RunOrder
  <2>2. CASE phase # "prep"
    <3>1. Listed(InQueue)
      BY <2>2 DEF QueueInv
    <3>2. Null \notin Subsystems
      BY FlagAssumption
    <3>3. QueueIsList
      BY <3>1, <3>2, ListIsSound DEF QueueIsList, InQueue
    <3>4. RunOrder
      BY <3>1, <3>2, ListIsSound DEF RunOrder
    <3> QED
      BY <3>3, <3>4 DEF QueueInv, QueueInOrder
  <2> QED
    BY <2>1, <2>2
<1> QED
  BY <1>1, QueueAtStart, QueueStep, PTL DEF Spec

----------------------------------------------------------------------------
(* Sums over finite sets: the fold of the community modules takes the elements *)
(* one by one as it chooses, and any other order gives the same               *)

OneOf(s) == CHOOSE x \in s : TRUE

IsSum(f, S, g) ==
    g = [s \in SUBSET S |-> IF s = {} THEN 0 ELSE LET x == CHOOSE x \in s : TRUE
                                                 IN  f[x] + g[s \ {x}]]
SumOf(f, S) == (CHOOSE g : IsSum(f, S, g))[S]

\* g adds up f over each set of D, in the order of OneOf.
AddsUp(f, D, g) ==
    /\ g \in [D -> Int]
    /\ \A s \in D : g[s] = IF s = {} THEN 0 ELSE f[OneOf(s)] + g[s \ {OneOf(s)}]

LEMMA Smaller ==
    ASSUME NEW D, IsFiniteSet(D), NEW s \in SUBSET D
    PROVE  /\ Cardinality(s) \in Nat
           /\ Cardinality(s) = 0 <=> s = {}
           /\ \A x \in s : Cardinality(s \ {x}) = Cardinality(s) - 1
           /\ s # {} => OneOf(s) \in s
<1>1. IsFiniteSet(s)
  BY FS_Subset
<1>2. Cardinality(s) \in Nat /\ (Cardinality(s) = 0 <=> s = {})
  BY <1>1, FS_CardinalityType, FS_EmptySet
<1>3. \A x \in s : Cardinality(s \ {x}) = Cardinality(s) - 1
  BY <1>1, FS_RemoveElement
<1> QED
  BY <1>2, <1>3 DEF OneOf

LEMMA SumExists ==
    ASSUME NEW D, IsFiniteSet(D), NEW f \in [D -> Int]
    PROVE  \E g : AddsUp(f, SUBSET D, g)
<1> DEFINE Small(n) == {s \in SUBSET D : Cardinality(s) <= n}
           Reached(n) == \E g : AddsUp(f, Small(n), g)
<1>1. Reached(0)
  <2> DEFINE g == [s \in Small(0) |-> 0]
  <2>1. \A s \in Small(0) : s = {}
    BY Smaller
  <2>2. AddsUp(f, Small(0), g)
    BY <2>1 DEF AddsUp
  <2> QED
    BY <2>2
<1>2. ASSUME NEW n \in Nat, Reached(n) PROVE Reached(n + 1)
  <2>1. PICK g : AddsUp(f, Small(n), g)
    BY <1>2
  <2> DEFINE value(s) == IF s = {} THEN 0 ELSE f[OneOf(s)] + g[s \ {OneOf(s)}]
             h == [s \in Small(n + 1) |-> value(s)]
  <2>2. ASSUME NEW s \in Small(n + 1), s # {}
        PROVE  OneOf(s) \in s /\ OneOf(s) \in D /\ s \ {OneOf(s)} \in Small(n)
    <3>1. s \in SUBSET D /\ Cardinality(s) <= n + 1 /\ Cardinality(s) \in Nat
      BY Smaller
    <3>2. OneOf(s) \in s /\ Cardinality(s \ {OneOf(s)}) = Cardinality(s) - 1
      BY <2>2, <3>1, Smaller
    <3> QED
      BY <1>2, <3>1, <3>2
  <2>3. \A s \in Small(n) : g[s] = value(s) /\ g[s] \in Int
    BY <2>1 DEF AddsUp
  <2>4. Small(n) \subseteq Small(n + 1)
    BY <1>2, Smaller
  <2> HIDE DEF Small
  <2>5. ASSUME NEW s \in Small(n + 1) PROVE value(s) \in Int
    <3>1. CASE s = {}
      BY <3>1
    <3>2. CASE s # {}
      <4>1. f[OneOf(s)] \in Int /\ g[s \ {OneOf(s)}] \in Int
        BY <2>2, <2>3, <3>2
      <4> QED
        BY <3>2, <4>1
    <3> QED
      BY <3>1, <3>2
  <2>6. \A s \in Small(n) : h[s] = g[s]
    BY <2>3, <2>4
  <2>7. ASSUME NEW s \in Small(n + 1)
        PROVE  h[s] = IF s = {} THEN 0 ELSE f[OneOf(s)] + h[s \ {OneOf(s)}]
    BY <2>2, <2>6
  <2>8. AddsUp(f, Small(n + 1), h)
    BY <2>5, <2>7 DEF AddsUp
  <2> QED
    BY <2>8
<1>3. \A n \in Nat : Reached(n)
  <2> DEFINE missed == {n \in Nat : ~Reached(n)}
  <2> HIDE DEF Reached
  <2> SUFFICES ASSUME missed # {} PROVE FALSE
    OBVIOUS
  <2>1. missed \in SUBSET Nat
    OBVIOUS
  <2>2. PICK n \in missed : \A m \in missed : n <= m
    <3> HIDE DEF missed
    <3> QED
      BY <2>1, LeastNat
  <2>3. n \in Nat /\ ~Reached(n) /\ n # 0
    BY <1>1, <2>2
  <2>4. n - 1 \in Nat /\ n - 1 \notin missed /\ (n - 1) + 1 = n
    BY <2>2, <2>3
  <2>5. Reached(n - 1)
    BY <2>4
  <2> QED
    BY <1>2, <2>3, <2>4, <2>5
<1>4. Cardinality(D) \in Nat /\ SUBSET D = Small(Cardinality(D))
  <2>1. \A s \in SUBSET D : Cardinality(s) <= Cardinality(D)
    BY FS_Subset
  <2> QED
    BY <2>1, FS_CardinalityType
<1>5. Reached(Cardinality(D))
  BY <1>3, <1>4
<1> QED
  BY <1>4, <1>5

\* Whichever element is taken first, and there is no other such function.
LEMMA SumAnyOrder ==
    ASSUME NEW D, IsFiniteSet(D), NEW f \in [D -> Int], NEW g, AddsUp(f, SUBSET D, g)
    PROVE  \A s \in SUBSET D : \A x \in s : g[s] = f[x] + g[s \ {x}]
<1> DEFINE Right(s) == \A x \in s : g[s] = f[x] + g[s \ {x}]
           wrong == {n \in Nat : \E s \in SUBSET D : Cardinality(s) = n /\ ~Right(s)}
<1> SUFFICES ASSUME wrong # {} PROVE FALSE
  <2>1. ASSUME NEW s \in SUBSET D, ~Right(s) PROVE Cardinality(s) \in wrong
    BY <2>1, Smaller
  <2> QED
    BY <2>1
<1>1. PICK n \in wrong : \A m \in wrong : n <= m
  <2>1. wrong \in SUBSET Nat
    OBVIOUS
  <2> HIDE DEF wrong
  <2> QED
    BY <2>1, LeastNat
<1>2. PICK s \in SUBSET D : Cardinality(s) = n /\ ~Right(s)
  BY <1>1
<1>3. PICK x \in s : g[s] # f[x] + g[s \ {x}]
  BY <1>2
<1> DEFINE c == OneOf(s)
<1>4. c \in s /\ g[s] = f[c] + g[s \ {c}]
  BY <1>3, Smaller DEF AddsUp
<1>5. x # c
  BY <1>3, <1>4
<1>6. ASSUME NEW y \in s PROVE Right(s \ {y})
  <2>1. /\ s \ {y} \in SUBSET D /\ Cardinality(s \ {y}) = n - 1
        /\ Cardinality(s \ {y}) \in Nat /\ n \in Nat
    BY <1>2, Smaller
  <2>2. n - 1 \notin wrong
    <3> HIDE DEF wrong
    <3> QED
      BY <1>1, <2>1
  <2> QED
    BY <2>1, <2>2
<1>7. /\ g[s \ {c}] = f[x] + g[(s \ {c}) \ {x}]
      /\ g[s \ {x}] = f[c] + g[(s \ {x}) \ {c}]
  <2>1. x \in s \ {c} /\ c \in s \ {x}
    BY <1>4, <1>5
  <2>2. Right(s \ {c}) /\ Right(s \ {x})
    BY <1>4, <1>6
  <2> QED
    BY <2>1, <2>2
<1>8. (s \ {c}) \ {x} = (s \ {x}) \ {c}
  OBVIOUS
<1>9. f[x] \in Int /\ f[c] \in Int /\ g[(s \ {c}) \ {x}] \in Int
  BY <1>4 DEF AddsUp
<1> HIDE DEF c
<1>10. g[s] = f[c] + (f[x] + g[(s \ {c}) \ {x}])
  BY <1>4, <1>7
<1>11. f[x] + g[s \ {x}] = f[x] + (f[c] + g[(s \ {c}) \ {x}])
  BY <1>7, <1>8
<1> QED
  BY <1>3, <1>9, <1>10, <1>11

LEMMA SumUnique ==
    ASSUME NEW D, IsFiniteSet(D), NEW f \in [D -> Int], NEW g, AddsUp(f, SUBSET D, g),
           NEW S \in SUBSET D
    PROVE  SumOf(f, S) = g[S]
<1> DEFINE part == [s \in SUBSET S |-> g[s]]
           fold == CHOOSE h : IsSum(f, S, h)
<1>1. \A s \in SUBSET S : s \in SUBSET D
  OBVIOUS
<1>2. IsSum(f, S, part)
  <2>1. \A s \in SUBSET S :
          g[s] = IF s = {} THEN 0 ELSE f[OneOf(s)] + part[s \ {OneOf(s)}]
    BY <1>1 DEF AddsUp
  <2> QED
    BY <2>1, Zenon DEF IsSum, OneOf
<1>3. IsSum(f, S, fold)
  <2> HIDE DEF part
  <2> QED
    BY <1>2
<1> HIDE DEF fold
<1>4. \A s \in SUBSET S :
         fold[s] = IF s = {} THEN 0 ELSE f[OneOf(s)] + fold[s \ {OneOf(s)}]
  BY <1>3 DEF IsSum, OneOf
<1>5. \A s \in SUBSET S : g[s] = IF s = {} THEN 0 ELSE f[OneOf(s)] + g[s \ {OneOf(s)}]
  BY <1>1 DEF AddsUp
<1>6. \A s \in SUBSET S : fold[s] = g[s]
  <2> DEFINE wrong == {n \in Nat : \E s \in SUBSET S : Cardinality(s) = n /\ fold[s] # g[s]}
  <2> SUFFICES ASSUME wrong # {} PROVE FALSE
    <3>1. ASSUME NEW s \in SUBSET S, fold[s] # g[s] PROVE Cardinality(s) \in wrong
      BY <1>1, <3>1, Smaller
    <3> QED
      BY <3>1
  <2>1. PICK n \in wrong : \A m \in wrong : n <= m
    <3>1. wrong \in SUBSET Nat
      OBVIOUS
    <3> HIDE DEF wrong
    <3> QED
      BY <3>1, LeastNat
  <2>2. PICK s \in SUBSET S : Cardinality(s) = n /\ fold[s] # g[s]
    BY <2>1
  <2>3. s # {}
    BY <1>4, <1>5, <2>2
  <2>4. /\ OneOf(s) \in s /\ Cardinality(s \ {OneOf(s)}) = n - 1 /\ n \in Nat
        /\ Cardinality(s \ {OneOf(s)}) \in Nat
    BY <1>1, <2>2, <2>3, Smaller
  <2>5. n - 1 \notin wrong
    BY <2>1, <2>4
  <2>6. fold[s \ {OneOf(s)}] = g[s \ {OneOf(s)}]
    BY <2>4, <2>5
  <2> QED
    BY <1>4, <1>5, <2>2, <2>3, <2>6
<1> QED
  BY <1>6 DEF SumOf, fold

LEMMA SumRules ==
    ASSUME NEW p \in [Subsystems -> Int], NEW S \in SUBSET Subsystems
    PROVE  /\ SumOf(p, S) \in Int /\ SumOf(p, {}) = 0
           /\ \A x \in S : SumOf(p, S \ {x}) = SumOf(p, S) - p[x]
           /\ \A x \in Subsystems \ S : SumOf(p, S \cup {x}) = SumOf(p, S) + p[x]
<1>1. IsFiniteSet(Subsystems)
  BY FlagAssumption
<1>2. PICK g : AddsUp(p, SUBSET Subsystems, g)
  BY <1>1, SumExists
<1>3. /\ \A s \in SUBSET Subsystems : SumOf(p, s) = g[s] /\ g[s] \in Int
      /\ \A s \in SUBSET Subsystems : \A x \in s : g[s] = p[x] + g[s \ {x}]
      /\ g[{}] = 0
  <2>1. ASSUME NEW s \in SUBSET Subsystems PROVE SumOf(p, s) = g[s]
    BY <1>1, <1>2, SumUnique
  <2>2. ASSUME NEW s \in SUBSET Subsystems PROVE g[s] \in Int
    BY <1>2 DEF AddsUp
  <2>3. g[{}] = 0
    <3>1. {} \in SUBSET Subsystems
      OBVIOUS
    <3> QED
      BY <1>2, <3>1 DEF AddsUp
  <2>4. ASSUME NEW s \in SUBSET Subsystems, NEW x \in s PROVE g[s] = p[x] + g[s \ {x}]
    BY <1>1, <1>2, SumAnyOrder
  <2> QED
    BY <2>1, <2>2, <2>3, <2>4
<1>4. ASSUME NEW x \in S PROVE SumOf(p, S \ {x}) = SumOf(p, S) - p[x]
  <2>1. S \ {x} \in SUBSET Subsystems /\ p[x] \in Int
    OBVIOUS
  <2>2. g[S] = p[x] + g[S \ {x}] /\ g[S] \in Int /\ g[S \ {x}] \in Int
    BY <1>3, <2>1
  <2> QED
    BY <1>3, <2>1, <2>2
<1>5. ASSUME NEW x \in Subsystems \ S PROVE SumOf(p, S \cup {x}) = SumOf(p, S) + p[x]
  <2>1. /\ S \cup {x} \in SUBSET Subsystems /\ p[x] \in Int
        /\ (S \cup {x}) \ {x} = S /\ x \in S \cup {x}
    OBVIOUS
  <2>2. /\ g[S \cup {x}] = p[x] + g[(S \cup {x}) \ {x}]
        /\ g[S] \in Int /\ g[S \cup {x}] \in Int
    BY <1>3, <2>1
  <2>3. SumOf(p, S \cup {x}) = g[S \cup {x}] /\ SumOf(p, S) = g[S]
    BY <1>3, <2>1
  <2>4. g[S \cup {x}] = p[x] + g[S]
    BY <2>1, <2>2
  <2> HIDE <1>3
  <2> QED
    BY <2>1, <2>2, <2>3, <2>4
<1>6. SumOf(p, S) \in Int /\ SumOf(p, {}) = 0
  BY <1>3
<1> QED
  BY <1>4, <1>5, <1>6

\* A sum depends on the summands.
LEMMA SumSame ==
    ASSUME NEW f, NEW g, NEW S, \A x \in S : f[x] = g[x]
    PROVE  SumOf(f, S) = SumOf(g, S)
<1> DEFINE fold(f_, h) == [s \in SUBSET S |-> IF s = {} THEN 0
                                             ELSE f_[OneOf(s)] + h[s \ {OneOf(s)}]]
<1>1. \A s \in SUBSET S : s # {} => OneOf(s) \in S
  BY DEF OneOf
<1>2. ASSUME NEW h PROVE fold(f, h) = fold(g, h)
  BY <1>1
<1>3. \A h : IsSum(f, S, h) <=> h = fold(f, h)
  BY Zenon DEF IsSum, OneOf
<1>4. \A h : IsSum(g, S, h) <=> h = fold(g, h)
  BY Zenon DEF IsSum, OneOf
<1> HIDE DEF fold
<1>5. \A h : IsSum(f, S, h) <=> IsSum(g, S, h)
  BY <1>2, <1>3, <1>4
<1>6. (CHOOSE h : IsSum(f, S, h)) = (CHOOSE h : IsSum(g, S, h))
  BY <1>5
<1> QED
  BY <1>6 DEF SumOf
----------------------------------------------------------------------------
(* The running totals.  They hold as long as no queue proc fails, and of     *)
(* subsystems that may not pause only those in the front part of the queue   *)
(* are bumped.                                                               *)

Calm == Failures = FALSE /\ NoTickCheck \cap Background = {}

Front == InQueue \ Background
Back == InQueue \cap Background

TotalsInv ==
    /\ QueueInv /\ phase # "prep"
    /\ queue_priority_count = SumOf(queued_priority, Front)
    /\ queue_priority_count_bg = SumOf(queued_priority, Back)

LEMMA PrioritiesType ==
    /\ TypeOK => queued_priority \in [Subsystems -> Int]
    /\ TypeOK' => queued_priority' \in [Subsystems -> Int]
<1>1. 0..TopPriority \subseteq Int
  BY PriorityAssumption
<1> QED
  BY <1>1 DEF TypeOK

LEMMA TotalsStay ==
    ASSUME TotalsInv, QueueInv', UNCHANGED <<state, queued_priority, countVars>>, phase' # "prep"
    PROVE  TotalsInv'
  BY DEF TotalsInv, Front, Back, InQueue, countVars

LEMMA EnqueueCounts ==
    ASSUME TotalsInv, NEW ss \in Subsystems, state[ss] \in {"idle", "sleeping"},
           NEW s \in {"queued", "paused"}, enqueue(ss, s), QueueInv', phase' # "prep",
           InQueue' = InQueue \cup {ss}
    PROVE  TotalsInv'
<1>1. /\ TypeOK /\ queued_priority \in [Subsystems -> Int] /\ ss \notin InQueue
      /\ InQueue \subseteq Subsystems
  BY PrioritiesType DEF TotalsInv, QueueInv, InQueue
<1>2. /\ queued_priority' = [queued_priority EXCEPT ![ss] = priority[ss]]
      /\ IF ss \in Background
         THEN /\ queue_priority_count_bg' = queue_priority_count_bg + priority[ss]
              /\ UNCHANGED queue_priority_count
         ELSE /\ queue_priority_count' = queue_priority_count + priority[ss]
              /\ UNCHANGED queue_priority_count_bg
  BY DEF enqueue
<1>3. /\ queued_priority'[ss] = priority[ss]
      /\ \A x \in Subsystems \ {ss} : queued_priority'[x] = queued_priority[x]
  BY <1>1, <1>2
<1>4. queued_priority' \in [Subsystems -> Int]
  <2>1. priority[ss] \in Int
    <3>1. priority[ss] \in 1..TopPriority /\ TopPriority \in Nat
      BY PriorityAssumption
    <3> QED
      BY <3>1
  <2> QED
    BY <1>1, <1>2, <2>1
<1>5. /\ SumOf(queued_priority', Front) = SumOf(queued_priority, Front)
      /\ SumOf(queued_priority', Back) = SumOf(queued_priority, Back)
  BY <1>1, <1>3, SumSame DEF Front, Back
<1>6. CASE ss \in Background
  <2>1. Front' = Front /\ Back' = Back \cup {ss}
    BY <1>6 DEF Front, Back
  <2>2. SumOf(queued_priority', Back \cup {ss}) = SumOf(queued_priority', Back) + priority[ss]
    BY <1>1, <1>3, <1>4, SumRules DEF Back
  <2> QED
    BY <1>2, <1>5, <1>6, <2>1, <2>2 DEF TotalsInv
<1>7. CASE ss \notin Background
  <2>1. Front' = Front \cup {ss} /\ Back' = Back
    BY <1>7 DEF Front, Back
  <2>2. SumOf(queued_priority', Front \cup {ss}) = SumOf(queued_priority', Front) + priority[ss]
    BY <1>1, <1>3, <1>4, SumRules DEF Front
  <2> QED
    BY <1>2, <1>5, <1>7, <2>1, <2>2 DEF TotalsInv
<1> QED
  BY <1>6, <1>7

LEMMA UnqueueCounts ==
    ASSUME TotalsInv, NEW ss \in InQueue, NEW s \in {"idle", "sleeping"}, Unqueue(ss, s),
           UNCHANGED queued_priority, QueueInv', phase' # "prep"
    PROVE  TotalsInv'
<1>1. /\ TypeOK /\ queued_priority \in [Subsystems -> Int] /\ InQueue \subseteq Subsystems
      /\ Front \subseteq Subsystems /\ Back \subseteq Subsystems
  BY PrioritiesType DEF TotalsInv, QueueInv, InQueue, Front, Back
<1>2. InQueue' = InQueue \ {ss}
  BY <1>1 DEF Unqueue, InQueue, TypeOK
<1>3. CASE ss \in Background
  <2>1. Front' = Front /\ Back' = Back \ {ss} /\ ss \in Back
    BY <1>2, <1>3 DEF Front, Back
  <2>2. SumOf(queued_priority, Back \ {ss}) = SumOf(queued_priority, Back) - queued_priority[ss]
    BY <1>1, <2>1, SumRules
  <2> QED
    BY <1>3, <2>1, <2>2 DEF TotalsInv, Unqueue
<1>4. CASE ss \notin Background
  <2>1. Front' = Front \ {ss} /\ Back' = Back /\ ss \in Front
    BY <1>2, <1>4 DEF Front, Back
  <2>2. SumOf(queued_priority, Front \ {ss}) = SumOf(queued_priority, Front) - queued_priority[ss]
    BY <1>1, <2>1, SumRules
  <2> QED
    BY <1>4, <2>1, <2>2 DEF TotalsInv, Unqueue
<1> QED
  BY <1>3, <1>4

LEMMA BumpCounts ==
    ASSUME Calm, TotalsInv, NEW ss \in Subsystems, Bump(ss), QueueInv'
    PROVE  TotalsInv'
<1>1. /\ TypeOK /\ queued_priority \in [Subsystems -> Int]
      /\ Front \subseteq Subsystems /\ Back \subseteq Subsystems
  BY PrioritiesType DEF TotalsInv, QueueInv, InQueue, Front, Back
<1>2. /\ phase' = "run" /\ InQueue' = InQueue /\ ss \in Front /\ ss \notin Back
      /\ queue_priority_count_bg' = queue_priority_count_bg
      /\ queue_priority_count' =
           queue_priority_count - queued_priority[ss] + queued_priority'[ss]
  BY FlagAssumption DEF Calm, TotalsInv, QueueInv, Bump, InQueue, Front, Back
<1>3. Front' = Front /\ Back' = Back
  BY <1>2 DEF Front, Back
<1>4. queued_priority' \in [Subsystems -> Int]
  BY PrioritiesType DEF QueueInv
<1>5. \A x \in Subsystems \ {ss} : queued_priority'[x] = queued_priority[x]
  BY <1>1 DEF Bump
<1>6. SumOf(queued_priority', Back) = SumOf(queued_priority, Back)
  BY <1>1, <1>2, <1>5, SumSame
<1>7. SumOf(queued_priority', Front \ {ss}) = SumOf(queued_priority, Front \ {ss})
  BY <1>1, <1>5, SumSame
<1>8. /\ SumOf(queued_priority', Front \ {ss})
            = SumOf(queued_priority', Front) - queued_priority'[ss]
      /\ SumOf(queued_priority, Front \ {ss})
            = SumOf(queued_priority, Front) - queued_priority[ss]
      /\ SumOf(queued_priority, Front) \in Int /\ SumOf(queued_priority', Front) \in Int
      /\ queued_priority[ss] \in Int /\ queued_priority'[ss] \in Int
  BY <1>1, <1>2, <1>4, SumRules
<1>9. SumOf(queued_priority', Front)
         = SumOf(queued_priority, Front) - queued_priority[ss] + queued_priority'[ss]
  BY <1>7, <1>8
<1> QED
  BY <1>2, <1>3, <1>6, <1>9 DEF TotalsInv

\* The steps of Loop() leave the queue alone; the reset of the totals meets an empty
\* queue only, whose sums are zero.
LEMMA LoopCounts ==
    ASSUME TotalsInv, StartIteration \/ StartRun \/ SkipRun \/ NextPass \/ EndRun
    PROVE  TotalsInv'
<1>1. QueueInv' /\ phase' # "prep" /\ UNCHANGED <<state, queued_priority>> /\ TypeOK
  <2>1. QueueInv /\ QueueInv'
    BY LoopKeeps DEF TotalsInv
  <2> QED
    BY <2>1
    DEF QueueInv, StartIteration, StartRun, SkipRun, NextPass, EndRun, EndIteration
<1>2. CASE UNCHANGED countVars
  BY <1>1, <1>2, TotalsStay
<1>3. CASE queue_head = Null /\ queue_priority_count' = 0 /\ queue_priority_count_bg' = 0
  <2>1. InQueue = {}
    <3>1. Listed(InQueue)
      BY DEF TotalsInv, QueueInv
    <3>n. PICK N \in Nat : \E q : Chain(N, q) /\ Members(N, q) = InQueue
      BY <3>1 DEF Listed
    <3>2. PICK q : Chain(N, q) /\ Members(N, q) = InQueue
      BY <3>n
    <3>3. N = 0
      BY <1>3, <3>2, FlagAssumption DEF Chain
    <3> QED
      BY <3>2, <3>3 DEF Members
  <2>2. Front' = {} /\ Back' = {}
    BY <1>1, <2>1 DEF Front, Back, InQueue
  <2>3. SumOf(queued_priority, {}) = 0
    BY <1>1, PrioritiesType, SumRules
  <2> QED
    BY <1>1, <1>3, <2>2, <2>3 DEF TotalsInv
<1> QED
  BY <1>2, <1>3
  DEF StartIteration, StartRun, SkipRun, NextPass, EndRun, EndIteration

LEMMA TotalsStep == Calm /\ TotalsInv /\ [Next]_vars => TotalsInv'
<1> SUFFICES ASSUME Calm, TotalsInv, [Next]_vars PROVE TotalsInv'
  OBVIOUS
<1>1. QueueInv /\ QueueInv' /\ TypeOK /\ phase # "prep"
  <2>1. QueueInv /\ phase # "prep"
    BY DEF TotalsInv
  <2>2. QueueInv'
    BY <2>1, QueueStep
  <2> QED
    BY <2>1, <2>2 DEF QueueInv
<1>2. ASSUME NEW ss \in Subsystems, CheckQueue(ss) PROVE TotalsInv'
  <2>1. /\ state[ss] = "idle" /\ phase = "check" /\ phase' = phase /\ queue_node' = queue_node
        /\ enqueue(ss, "queued")
    BY <1>1, <1>2 DEF QueueInv, CheckQueue, runVars
  <2>2. InQueue' = InQueue \cup {ss}
    BY <1>1, <2>1, EnqueueKeeps
  <2> QED
    BY <1>1, <2>1, <2>2, EnqueueCounts
<1>3. ASSUME NEW ss \in Subsystems, Bump(ss) PROVE TotalsInv'
  BY <1>1, <1>3, BumpCounts
<1>4. ASSUME NEW ss \in Subsystems, Run(ss) PROVE TotalsInv'
  <2>1. /\ RunNode(ss) /\ phase' # "prep" /\ UNCHANGED queued_priority /\ ss \in InQueue
    <3>1. RunNode(ss)
      BY <1>4 DEF Run, RunFinishes, RunSleeps, RunPauses
    <3> QED
      BY <1>1, <3>1, FlagAssumption DEF QueueInv, RunNode
  <2>2. CASE RunPauses(ss)
    <3>1. InQueue' = InQueue /\ UNCHANGED countVars
      BY <1>1, <2>1, <2>2 DEF RunPauses, InQueue, TypeOK
    <3> QED
      BY <1>1, <2>1, <3>1 DEF TotalsInv, Front, Back, countVars
  <2>3. CASE RunFinishes(ss) \/ RunSleeps(ss)
    <3>1. PICK s \in {"idle", "sleeping"} : Unqueue(ss, s)
      BY <2>3 DEF RunFinishes, RunSleeps
    <3> QED
      BY <1>1, <2>1, <3>1, UnqueueCounts
  <2> QED
    BY <1>4, <2>2, <2>3 DEF Run
<1>5. ASSUME NEW ss \in Subsystems, WakeReturns(ss) PROVE TotalsInv'
  <2>1. /\ InQueue' = InQueue /\ UNCHANGED <<queued_priority, countVars, phase>>
    BY <1>1, <1>5 DEF WakeReturns, Wakes, InQueue, TypeOK
  <2> QED
    BY <1>1, <2>1 DEF TotalsInv, Front, Back, countVars
<1>6. ASSUME NEW ss \in Subsystems, WakePauses(ss) PROVE TotalsInv'
  <2>1. /\ state[ss] = "sleeping" /\ phase \in {"sleep", "prep"} /\ phase' = phase
        /\ queue_node' = queue_node /\ enqueue(ss, "paused")
    BY <1>6 DEF WakePauses, Wakes, runVars
  <2>2. InQueue' = InQueue \cup {ss}
    BY <1>1, <2>1, EnqueueKeeps
  <2> QED
    BY <1>1, <2>1, <2>2, EnqueueCounts
<1>7. ~SoftReset /\ ~Recreate_MC /\ ~StartLoop
  BY <1>1 DEF Calm, SoftReset, Recreate_MC, StartLoop
<1>8. CASE UNCHANGED vars
  <2>1. UNCHANGED <<state, queued_priority, countVars, phase>>
    BY <1>8 DEF vars
  <2> QED
    BY <1>1, <2>1, TotalsStay
<1>9. ASSUME NEW ss \in Subsystems, OnSubsystem(ss) PROVE TotalsInv'
  BY <1>2, <1>3, <1>4, <1>5, <1>6, <1>9 DEF OnSubsystem
<1> QED
  BY <1>7, <1>8, <1>9, LoopCounts DEF Next

\* The running totals RunQueue splits the tick with are the sums of the priorities
\* of what is in the queue, as long as no queue proc fails and no background
\* subsystem is bumped (a bump always changes the total of the front part).
THEOREM PriorityTotalsHolds == Calm => (Spec => []PriorityTotals)
<1> SUFFICES ASSUME Calm PROVE Spec => []PriorityTotals
  OBVIOUS
<1>1. Init => TotalsInv
  <2> SUFFICES ASSUME Init PROVE TotalsInv
    OBVIOUS
  <2>1. QueueInv /\ InQueue = {} /\ phase # "prep"
    BY QueueAtStart DEF Init, InQueue
  <2>2. SumOf(queued_priority, {}) = 0 
    BY <2>1, PrioritiesType, SumRules DEF QueueInv
  <2>3. Front = {} /\ Back = {}
    BY <2>1 DEF Front, Back
  <2> QED
    BY <2>1, <2>2, <2>3 DEF TotalsInv, Init
<1>2. TotalsInv /\ [Next]_vars => TotalsInv'
  BY TotalsStep
<1>3. TotalsInv => PriorityTotals
  <2> SUFFICES ASSUME TotalsInv PROVE PriorityTotals
    OBVIOUS
  <2>1. Listed(InQueue)
    BY DEF TotalsInv, QueueInv
  <2>2. Queued = InQueue
    BY <2>1, ListIsSound, FlagAssumption
  <2>3. \A S : Total(S) = SumOf(queued_priority, S)
    BY DEF Total, MapThenSumSet, MapThenFoldSet, SumOf, IsSum
  <2> QED
    BY <2>2, <2>3 DEF TotalsInv, PriorityTotals, Front, Back
<1> QED
  BY <1>1, <1>2, <1>3, PTL DEF Spec

----------------------------------------------------------------------------
(* A fire() that sleeps.  As long as nothing fails a sleeping fire() is the   *)
(* only one of its subsystem, which stays out of the queue until it returns. *)

SleepInv ==
    /\ QueueInv /\ phase # "prep"
    /\ \A ss \in Subsystems :
         asleep[ss] = 0 \/ (asleep[ss] = 1 /\ state[ss] = "sleeping")

LEMMA SleepStep == Failures = FALSE /\ SleepInv /\ [Next]_vars => SleepInv'
<1> SUFFICES ASSUME Failures = FALSE, SleepInv, [Next]_vars PROVE SleepInv'
  OBVIOUS
<1>1. QueueInv /\ QueueInv' /\ TypeOK /\ phase # "prep" /\ phase' # "prep"
  <2>1. QueueInv /\ phase # "prep"
    BY DEF SleepInv
  <2>2. phase' # "prep"
    BY <2>1
    DEF Next, StartIteration, StartRun, SkipRun, NextPass, EndRun, EndIteration, OnSubsystem,
        CheckQueue, Bump, Run, RunFinishes, RunSleeps, RunPauses, RunNode, WakeReturns,
        WakePauses, Wakes, SoftReset, Recreate_MC, StartLoop, vars
  <2> QED
    BY <2>1, <2>2, QueueStep DEF QueueInv
<1>2. SUFFICES ASSUME NEW x \in Subsystems, NEW n, asleep'[x] = n
               PROVE  n = 0 \/ (n = 1 /\ state'[x] = "sleeping")
  BY <1>1 DEF SleepInv
<1>3. asleep[x] = 0 \/ (asleep[x] = 1 /\ state[x] = "sleeping")
  BY DEF SleepInv
<1>4. ASSUME NEW ss \in Subsystems, Run(ss)
      PROVE  n = 0 \/ (n = 1 /\ state'[x] = "sleeping")
  <2>1. state[ss] \in {"queued", "paused"}
    <3>1. RunNode(ss)
      BY <1>4 DEF Run, RunFinishes, RunSleeps, RunPauses
    <3> QED
      BY <1>1, <3>1, FlagAssumption DEF QueueInv, RunNode, InQueue
  <2>2. asleep[ss] = 0
    BY <2>1 DEF SleepInv
  <2>3. CASE RunFinishes(ss)
    BY <1>1, <1>2, <1>3, <2>2, <2>3 DEF RunFinishes, Unqueue, TypeOK
  <2>4. CASE RunPauses(ss)
    BY <1>1, <1>2, <1>3, <2>2, <2>4 DEF RunPauses, TypeOK
  <2>5. CASE RunSleeps(ss)
    BY <1>1, <1>2, <1>3, <2>2, <2>5 DEF RunSleeps, Unqueue, TypeOK
  <2> QED
    BY <1>4, <2>3, <2>4, <2>5 DEF Run
<1>5. ASSUME NEW ss \in Subsystems, WakeReturns(ss) \/ WakePauses(ss)
      PROVE  n = 0 \/ (n = 1 /\ state'[x] = "sleeping")
  <2>1. asleep[ss] > 0 /\ asleep' = [asleep EXCEPT ![ss] = @ - 1]
    BY <1>5 DEF WakeReturns, WakePauses, Wakes
  <2>2. asleep[ss] = 1
    BY <2>1 DEF SleepInv
  <2>3. asleep'[ss] = 0
    BY <1>1, <2>1, <2>2 DEF TypeOK
  <2>4. x # ss => asleep'[x] = asleep[x] /\ state'[x] = state[x]
    BY <1>1, <1>5, <2>1 DEF TypeOK, WakeReturns, WakePauses, enqueue
  <2> QED
    BY <1>2, <1>3, <2>3, <2>4
<1>6. CASE \/ StartIteration \/ StartRun \/ SkipRun \/ NextPass \/ EndRun \/ UNCHANGED vars
  <2>1. UNCHANGED <<state, asleep>>
    BY <1>6 DEF StartIteration, StartRun, SkipRun, NextPass, EndRun, EndIteration, vars
  <2> QED
    BY <1>2, <1>3, <2>1
<1>7. ASSUME NEW ss \in Subsystems, CheckQueue(ss)
      PROVE  n = 0 \/ (n = 1 /\ state'[x] = "sleeping")
  <2>1. state[ss] = "idle" /\ asleep' = asleep /\ state' = [state EXCEPT ![ss] = "queued"]
    BY <1>1, <1>7 DEF QueueInv, CheckQueue, enqueue
  <2> QED
    BY <1>1, <1>2, <1>3, <2>1 DEF TypeOK
<1>8. ASSUME NEW ss \in Subsystems, Bump(ss)
      PROVE  n = 0 \/ (n = 1 /\ state'[x] = "sleeping")
  BY <1>2, <1>3, <1>8 DEF Bump
<1>9. ~SoftReset /\ ~Recreate_MC /\ ~StartLoop
  BY <1>1 DEF SoftReset, Recreate_MC, StartLoop
<1> QED
  BY <1>4, <1>5, <1>6, <1>7, <1>8, <1>9 DEF Next, OnSubsystem

\* "Sleeping in here prevents future fires until returned" (comment of fire()): a
\* subsystem with a fire() that sleeps is not run, as long as no failure makes the
\* master forget which states it left its subsystems in.
THEOREM SleepPreventsFiresHolds == Failures = FALSE => (Spec => SleepPreventsFires)
<1> SUFFICES ASSUME Failures = FALSE PROVE Spec => SleepPreventsFires
  OBVIOUS
<1>1. Init => SleepInv
  BY QueueAtStart DEF Init, SleepInv
<1>2. SleepInv /\ [Next]_vars => SleepInv'
  BY SleepStep
<1>3. SleepInv /\ [Next]_vars => [\A ss \in Subsystems : asleep[ss] > 0 => ~Run(ss)]_vars
  <2> SUFFICES ASSUME SleepInv, NEW ss \in Subsystems, asleep[ss] > 0, Run(ss) PROVE FALSE
    OBVIOUS
  <2>1. RunNode(ss) /\ QueueInv
    BY DEF Run, RunFinishes, RunSleeps, RunPauses, SleepInv
  <2>2. ss \in InQueue
    BY <2>1, FlagAssumption DEF QueueInv, RunNode
  <2> QED
    BY <2>2 DEF SleepInv, InQueue
<1> QED
  BY <1>1, <1>2, <1>3, PTL DEF Spec, SleepPreventsFires
============================================================================
