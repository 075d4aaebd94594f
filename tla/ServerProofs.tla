----------------------------- MODULE ServerProofs -----------------------------
(***************************************************************************)
(* What ServerSpec says of the lists of SSmachines follows from what       *)
(* ProcessingProofs says of any lists, and of the timers from TimerProofs; *)
(* what is left to SSgarbage waits, in order, until it is no more.         *)
(***************************************************************************)
EXTENDS MCServer, TimerProofs

MP == INSTANCE ProcessingProofs WITH
    Lists <- MachineLists, Things <- MachineThings, home <- MachineHome,
    Kills <- {"machinery", "power_objects"},
    Unchecked <- {"power_objects"}, Unwrapped <- {"powernets"}, DoubleKill <- TRUE,
    lists <- mLists, is_processing <- mProcessing, deleted <- mDeleted, state <- mState,
    current_step <- mStep, nextProcessingListPosition <- mPosition, thing <- mThing,
    stopped <- mStopped, seen <- mSeen

\* The four lists and what belongs in them are as ListAssumption of Processing asks.
LEMMA MachineListsFit ==
    /\ MachineLists \in Seq(MP!ListNames) /\ MachineLists # <<>>
    /\ NoThing \notin MachineThings
    /\ MachineHome \in [MachineThings -> MP!ListNames]
    /\ {"machinery", "power_objects"} \subseteq MP!ListNames
    /\ {"powernets"} \subseteq MP!ListNames /\ {"power_objects"} \subseteq MP!ListNames
<1>1. MP!ListNames = {"pipenets", "machinery", "powernets", "power_objects"}
  <2>1. Len(MachineLists) = 4 /\ 1..4 = {1, 2, 3, 4}
    BY DEF MachineLists
  <2> QED
    BY <2>1 DEF MP!ListNames, MachineLists
<1>2. MachineHome \in [MachineThings -> MP!ListNames]
  BY <1>1 DEF MachineHome, MachineThings
<1>3. MachineLists \in Seq(MP!ListNames)
  BY <1>1 DEF MachineLists
<1> QED
  BY <1>1, <1>2, <1>3, MachineAssumption DEF MachineLists

\* Both instances of Processing say the same.
LEMMA SameMachines ==
    /\ Machines!Init => MP!Init
    /\ [Machines!Next]_machineVars => [MP!Next]_(MP!vars)
    /\ MP!ListsAgree => Machines!ListsAgree
<1>1. Machines!Init => MP!Init
  BY DEF Machines!Init, MP!Init, Machines!ListNames, MP!ListNames
<1>2. \A x : Machines!TakeOut(x) => MP!TakeOut(x)
  <2>1. \A x : Machines!Index(x) = MP!Index(x)
    BY Zenon DEF Machines!Index, MP!Index
  <2>2. \A x : Machines!Listed(x) <=> MP!Listed(x)
    BY DEF Machines!Listed, MP!Listed
  <2>3. \A s, i : Machines!RemoveAt(s, i) = MP!RemoveAt(s, i)
    BY Zenon DEF Machines!RemoveAt, MP!RemoveAt
  <2> QED
    BY <2>1, <2>2, <2>3 DEF Machines!TakeOut, MP!TakeOut
<1>3. Machines!Subsystem => MP!Subsystem
  <2>1. (Machines!Fire => MP!Fire) /\ (Machines!Resume => MP!Resume) /\ (Machines!Return => MP!Return)
    BY DEF Machines!Fire, MP!Fire, Machines!Resume, MP!Resume, Machines!Return, MP!Return,
       Machines!contentVars, MP!contentVars, Machines!TickCheck, MP!TickCheck
  <2>2. (Machines!Visit => MP!Visit) /\ (Machines!EndList => MP!EndList)
    BY DEF Machines!Visit, MP!Visit, Machines!EndList, MP!EndList, Machines!Between, MP!Between,
       Machines!InList, MP!InList, Machines!local_list, MP!local_list, Machines!NextIsDeleted,
       MP!NextIsDeleted, Machines!contentVars, MP!contentVars
  <2>3. ASSUME Machines!ReturnKill PROVE MP!ReturnKill
    <3>1. MP!TakeOut(mThing)
      BY <1>2, <2>3 DEF Machines!ReturnKill
    <3> QED
      BY <2>3, <3>1
      DEF Machines!ReturnKill, MP!ReturnKill, Machines!TickCheck, MP!TickCheck
  <2>4. ASSUME Machines!Discard PROVE MP!Discard
    <3> DEFINE x == MP!local_list[mPosition]
    <3>1. MP!TakeOut(x)
      BY <1>2, <2>4 DEF Machines!Discard, Machines!local_list, MP!local_list
    <3> QED
      BY <2>4, <3>1
      DEF Machines!Discard, MP!Discard, Machines!Between, MP!Between, Machines!InList,
          MP!InList, Machines!local_list, MP!local_list, Machines!NextIsDeleted,
          MP!NextIsDeleted, Machines!TickCheck, MP!TickCheck
  <2> QED
    BY <2>1, <2>2, <2>3, <2>4 DEF Machines!Subsystem, MP!Subsystem
<1>4. Machines!Game => MP!Game
  <2> SUFFICES ASSUME NEW x \in MachineThings
               PROVE  /\ Machines!START_PROCESSING(x) => MP!START_PROCESSING(x)
                      /\ Machines!STOP_PROCESSING(x) => MP!STOP_PROCESSING(x)
                      /\ Machines!qdel(x) => MP!qdel(x)
                      /\ Machines!NewPowernet(x) => MP!NewPowernet(x)
                      /\ Machines!DestroyPowernet(x) => MP!DestroyPowernet(x)
    BY DEF Machines!Game, MP!Game
  <2>1. /\ Machines!START_PROCESSING(x) => MP!START_PROCESSING(x)
        /\ Machines!qdel(x) => MP!qdel(x)
        /\ Machines!NewPowernet(x) => MP!NewPowernet(x)
    BY DEF Machines!START_PROCESSING, MP!START_PROCESSING, Machines!qdel, MP!qdel,
       Machines!NewPowernet, MP!NewPowernet, Machines!GameRuns, MP!GameRuns, Machines!Listed,
       MP!Listed, Machines!fireVars, MP!fireVars
  <2>2. Machines!STOP_PROCESSING(x) => MP!STOP_PROCESSING(x)
    BY <1>2 DEF Machines!STOP_PROCESSING, MP!STOP_PROCESSING, Machines!GameRuns, MP!GameRuns,
       Machines!stopProcessingWrapper, MP!stopProcessingWrapper, Machines!Listed, MP!Listed,
       Machines!Index, MP!Index
  <2>3. Machines!DestroyPowernet(x) => MP!DestroyPowernet(x)
    BY <1>2 DEF Machines!DestroyPowernet, MP!DestroyPowernet, Machines!GameRuns, MP!GameRuns,
       Machines!Listed, MP!Listed, Machines!fireVars, MP!fireVars
  <2> QED
    BY <2>1, <2>2, <2>3
<1>5. UNCHANGED machineVars => UNCHANGED MP!vars
  BY DEF machineVars, MP!vars, MP!contentVars, MP!fireVars
<1>6. MP!ListsAgree => Machines!ListsAgree
  BY DEF Machines!ListsAgree, MP!ListsAgree, Machines!ListNames, MP!ListNames, Machines!Listed,
     MP!Listed
<1> QED
  BY <1>1, <1>3, <1>4, <1>5, <1>6 DEF Machines!Next, MP!Next

\* Of the four lists of SSmachines too, lists and marks agree, for powernets that come and
\* go unmarked and things that leave and are killed as well (machines.dm).
THEOREM MachineListsAgreeHolds == ServerSpec => []MachineListsAgree
<1>1. ServerInit => MP!ContentInv
  BY MachineListsFit, SameMachines, MP!ContentStart DEF ServerInit
<1>2. MP!ContentInv /\ [ServerNext]_serverVars => MP!ContentInv'
  <2>1. [ServerNext]_serverVars => [Machines!Next]_machineVars
    BY DEF ServerNext, serverVars
  <2> QED
    BY <2>1, MachineListsFit, SameMachines, MP!ContentStep
<1>3. MP!ContentInv => MachineListsAgree
  BY SameMachines DEF MP!ContentInv, MachineListsAgree
<1> QED
  BY <1>1, <1>2, <1>3, PTL DEF ServerSpec
----------------------------------------------------------------------------
(* What is destroyed is kept *)

Datums == [exists: SUBSET Refs, held: SUBSET Refs, gc_destroyed: [Refs -> -4..MaxGcTime]]
Entries == [ref: Refs, time: 1..gcTime]

\* What does not exist is not referred to, and nobody has destroyed it.
DatumsOK(x) ==
    /\ x \in Datums
    /\ x.held \subseteq x.exists
    /\ \A r \in Refs \ x.exists : x.gc_destroyed[r] = NotDestroyed

\* A queue by time, with each reference once.
InOrder(q) ==
    /\ q \in Seq(Entries)
    /\ \A i, j \in DOMAIN q : i < j => q[i].time <= q[j].time /\ q[i].ref # q[j].ref

Pending == {QUEUED_FOR_QUEUING, QUEUED_FOR_HARD_DEL}

\* The entry that a datum is known by.
entryOf(x, r) == [ref |-> r, time |-> x.gc_destroyed[r]]

Queued(s, r) == \E l \in Levels : entryOf(s.data, r) \in ToSet(s.queues[l])

StateOK(s) ==
    /\ DatumsOK(s.data)
    /\ s \in [data: Datums, queues: [Levels -> Seq(Entries)]]
    /\ \A l \in Levels : InOrder(s.queues[l])

PrequeueOK ==
    /\ prequeue \in Seq(Refs)
    /\ \A i \in DOMAIN prequeue : /\ prequeue[i] \in data.exists
                                  /\ data.gc_destroyed[prequeue[i]] \in Pending
    /\ \A i, j \in DOMAIN prequeue : prequeue[i] = prequeue[j] => i = j

\* The inductive invariant: what is owed waits in the prequeue or in a queue.
GarbageInv ==
    /\ gcTime \in 1..MaxGcTime /\ fired \in BOOLEAN /\ gcStep \in {"idle"} \cup Levels
    /\ StateOK(state0)
    /\ PrequeueOK
    /\ owed \subseteq data.exists
    /\ \A r \in owed : \/ data.gc_destroyed[r] \in Pending /\ r \in ToSet(prequeue)
                       \/ Queued(state0, r)

LEMMA TimesAre ==
    ASSUME gcTime \in 1..MaxGcTime
    PROVE  /\ gcTime \in Int /\ gcTime > 0 /\ MaxGcTime \in Nat /\ gcTime \in -4..MaxGcTime
           /\ NotDestroyed \in -4..MaxGcTime /\ BEING_QDELETED \in -4..MaxGcTime
           /\ Pending \subseteq -4..MaxGcTime
           /\ \A t \in 1..gcTime : t \in -4..MaxGcTime /\ t > 0 /\ t \notin Pending
           /\ NotDestroyed \notin Pending /\ BEING_QDELETED \notin Pending
           /\ NotDestroyed # BEING_QDELETED /\ NotDestroyed < 0
  BY GarbageAssumption DEF NotDestroyed, BEING_QDELETED, Pending, QUEUED_FOR_QUEUING, QUEUED_FOR_HARD_DEL

\* Without a reference a queue is in order, and every other one is still in it.
LEMMA UnlistedIs ==
    ASSUME NEW q, InOrder(q), NEW r \in Refs, NEW p, p = unlisted(q, r)
    PROVE  /\ InOrder(p)
           /\ \A i \in DOMAIN p : p[i].ref # r
           /\ \A x \in ToSet(q) : x.ref # r => x \in ToSet(p)
<1>1. q \in Seq(Entries) /\ DOMAIN q = 1..Len(q) /\ Len(q) \in Nat
  BY DEF InOrder
<1>2. CASE \A i \in DOMAIN q : q[i].ref # r
  BY <1>2 DEF unlisted
<1>3. CASE \E i \in DOMAIN q : q[i].ref = r
  <2> DEFINE k == CHOOSE i \in DOMAIN q : q[i].ref = r
  <2>1. k \in 1..Len(q) /\ q[k].ref = r
    BY <1>1, <1>3
  <2>2. p = RemoveAt(q, k)
    BY <1>3 DEF unlisted
  <2> HIDE DEF k
  <2>3. /\ p \in Seq(Entries) /\ Len(p) = Len(q) - 1
        /\ \A j \in 1..Len(q) - 1 : p[j] = IF j < k THEN q[j] ELSE q[j + 1]
    BY <1>1, <2>1, <2>2, RemoveAtIs
  <2>4. DOMAIN p = 1..(Len(q) - 1)
    BY <2>3
  <2> DEFINE from(j) == IF j < k THEN j ELSE j + 1
  <2>5. ASSUME NEW j \in DOMAIN p PROVE from(j) \in DOMAIN q /\ from(j) # k /\ p[j] = q[from(j)]
    BY <1>1, <2>1, <2>3, <2>4
  <2>6. \A i, j \in DOMAIN p : i < j => from(i) < from(j)
    BY <1>1, <2>1, <2>4
  <2> HIDE DEF from
  <2>7. InOrder(p)
    BY <2>3, <2>5, <2>6 DEF InOrder
  <2>8. ASSUME NEW j \in DOMAIN q, j # k PROVE q[j].ref # r
    <3>1. j < k \/ k < j
      BY <1>1, <2>1, <2>8
    <3> QED
      BY <1>1, <2>1, <3>1 DEF InOrder
  <2>9. ASSUME NEW x \in ToSet(q), x.ref # r PROVE x \in ToSet(p)
    <3>1. PICK i \in DOMAIN q : x = q[i]
      BY DEF ToSet
    <3>2. i # k
      BY <2>1, <2>9, <3>1
    <3>3. CASE i < k
      <4>1. i \in DOMAIN p /\ p[i] = x
        BY <1>1, <2>1, <2>3, <2>4, <3>1, <3>3
      <4> QED
        BY <4>1 DEF ToSet
    <3>4. CASE i > k
      <4>1. i - 1 \in DOMAIN p /\ p[i - 1] = x
        BY <1>1, <2>1, <2>3, <2>4, <3>1, <3>4
      <4> QED
        BY <4>1 DEF ToSet
    <3> QED
      BY <1>1, <2>1, <3>2, <3>3, <3>4
  <2> QED
    BY <2>5, <2>7, <2>8, <2>9
<1> QED
  BY <1>2, <1>3


\* Queue() makes r known by an entry and leaves what others are known by.
Queues(s, t, r) ==
    /\ StateOK(t)
    /\ t.data.exists = s.data.exists /\ t.data.held = s.data.held
    /\ t.data.gc_destroyed[r] = gcTime
    /\ \A q \in Refs \ {r} :
         /\ t.data.gc_destroyed[q] = s.data.gc_destroyed[q]
         /\ \A l \in Levels : \A x \in ToSet(s.queues[l]) : x.ref = q => x \in ToSet(t.queues[l])

\* Queue() makes the time of the datum now, where its entry is; every other entry stays.
LEMMA QueueIs ==
    ASSUME gcTime \in 1..MaxGcTime, NEW s, StateOK(s), NEW r \in s.data.exists, NEW level \in Levels,
           NEW t, t = Queue(s, r, level)
    PROVE  /\ Queues(s, t, r)
           /\ \E l \in Levels : /\ entryOf(t.data, r) \in ToSet(t.queues[l])
                                /\ level = "hard" => l = "hard"
                                /\ \A m \in Levels : m # l => t.queues[m] = s.queues[m]
<1>0. PICK l \in Levels : /\ l = IF s.data.gc_destroyed[r] = QUEUED_FOR_HARD_DEL THEN "hard" ELSE level
                          /\ level = "hard" => l = "hard"
  BY DEF Levels
<1> DEFINE new == [ref |-> r, time |-> gcTime]
<1>1. s.data \in Datums /\ s.data.exists \subseteq Refs /\ r \in Refs /\ InOrder(s.queues[l])
  BY DEF StateOK, DatumsOK, Datums
<1> DEFINE p == unlisted(s.queues[l], r)
<1>2. /\ InOrder(p) /\ \A i \in DOMAIN p : p[i].ref # r
      /\ \A x \in ToSet(s.queues[l]) : x.ref # r => x \in ToSet(p)
  BY <1>1, UnlistedIs
<1> HIDE DEF p
<1> DEFINE n == Append(p, new)
<1>3. t.data = [s.data EXCEPT !.gc_destroyed[r] = gcTime] /\ t.queues = [s.queues EXCEPT ![l] = n]
  BY <1>0 DEF Queue, p
<1>4. p \in Seq(Entries) /\ new \in Entries /\ new.time = gcTime /\ new.ref = r
  BY <1>1, <1>2, TimesAre DEF InOrder, Entries
<1>5. /\ n \in Seq(Entries) /\ DOMAIN p = 1..Len(p) /\ DOMAIN n = 1..(Len(p) + 1) /\ Len(p) \in Nat
      /\ \A i \in 1..Len(p) : n[i] = p[i]
      /\ n[Len(p) + 1] = new
  BY <1>4
<1>6. \A i \in DOMAIN p : p[i].time \in 1..gcTime
  <2>1. \A i \in DOMAIN p : p[i] \in Entries
    BY <1>4, <1>5
  <2> QED
    BY <2>1 DEF Entries
<1> HIDE DEF n, new
<1>7. InOrder(n)
  <2> SUFFICES ASSUME NEW i \in DOMAIN n, NEW j \in DOMAIN n, i < j
               PROVE  n[i].time <= n[j].time /\ n[i].ref # n[j].ref
    BY <1>5 DEF InOrder
  <2>1. i \in DOMAIN p /\ n[i] = p[i]
    BY <1>5
  <2>2. CASE j = Len(p) + 1
    <3>1. p[i].time <= gcTime
      BY <1>6, <2>1, TimesAre
    <3> QED
      BY <1>2, <1>4, <1>5, <2>1, <2>2, <3>1
  <2>3. CASE j # Len(p) + 1
    BY <1>2, <1>5, <2>1, <2>3 DEF InOrder
  <2> QED
    BY <2>2, <2>3
<1>8. (\A x \in ToSet(p) : x \in ToSet(n)) /\ new \in ToSet(n)
  BY <1>5 DEF ToSet
<1>9. s.queues \in [Levels -> Seq(Entries)]
  BY DEF StateOK
<1>10. t.queues \in [Levels -> Seq(Entries)] /\ t.queues[l] = n
       /\ \A m \in Levels : m # l => t.queues[m] = s.queues[m]
  BY <1>3, <1>5, <1>9
<1>11. \A m \in Levels : InOrder(t.queues[m])
  BY <1>7, <1>10 DEF StateOK
<1>12. /\ t.data \in Datums /\ t.data.exists = s.data.exists /\ t.data.held = s.data.held
       /\ t.data.gc_destroyed[r] = gcTime
       /\ \A q \in Refs \ {r} : t.data.gc_destroyed[q] = s.data.gc_destroyed[q]
  BY <1>1, <1>3, TimesAre DEF Datums
<1>16. t \in [data: Datums, queues: [Levels -> Seq(Entries)]]
  <2>1. t = [data |-> t.data, queues |-> t.queues]
    BY DEF Queue
  <2> QED
    BY <1>10, <1>12, <2>1
<1>13. DatumsOK(t.data)
  BY <1>1, <1>12 DEF DatumsOK, StateOK
<1>14. \A m \in Levels : \A x \in ToSet(s.queues[m]) : x.ref # r => x \in ToSet(t.queues[m])
  BY <1>2, <1>8, <1>10
<1>15. entryOf(t.data, r) \in ToSet(t.queues[l])
  BY <1>8, <1>10, <1>12 DEF entryOf, new
<1> QED
  BY <1>0, <1>10, <1>11, <1>12, <1>13, <1>14, <1>15, <1>16 DEF Queues, StateOK

LEMMA GoneIs ==
    ASSUME gcTime \in 1..MaxGcTime, NEW x, DatumsOK(x), NEW r \in Refs, NEW y, y = gone(x, r)
    PROVE  /\ DatumsOK(y) /\ y.exists = x.exists \ {r}
           /\ \A q \in Refs \ {r} : y.gc_destroyed[q] = x.gc_destroyed[q]
<1>1. x \in Datums
  BY DEF DatumsOK
<1>2. /\ y \in Datums /\ y.exists = x.exists \ {r} /\ y.held = x.held \ {r}
      /\ y.gc_destroyed[r] = NotDestroyed
      /\ \A q \in Refs \ {r} : y.gc_destroyed[q] = x.gc_destroyed[q]
  BY <1>1, TimesAre DEF gone, Datums
<1> QED
  BY <1>2 DEF DatumsOK

\* What goes was referred to by nothing.
LEMMA CollectedIs ==
    ASSUME gcTime \in 1..MaxGcTime, NEW x, DatumsOK(x), NEW list, NEW y, y = collected(x, list)
    PROVE  /\ DatumsOK(y) /\ y.exists \subseteq x.exists
           /\ \A r \in y.exists : y.gc_destroyed[r] = x.gc_destroyed[r]
           /\ \A r \in x.exists : r \in ToSet(list) => r \in y.exists
<1> DEFINE loose == {r \in x.exists : /\ r \notin x.held \cup ToSet(list)
                                      /\ x.gc_destroyed[r] # BEING_QDELETED}
           g == [r \in Refs |-> IF r \in loose THEN NotDestroyed ELSE x.gc_destroyed[r]]
<1>1. y = [exists |-> x.exists \ loose, held |-> x.held, gc_destroyed |-> g]
  BY DEF collected
<1>2. /\ x \in Datums /\ x.held \subseteq x.exists /\ x.exists \subseteq Refs
      /\ \A r \in Refs : x.gc_destroyed[r] \in -4..MaxGcTime
  BY DEF DatumsOK, Datums
<1>3. /\ \A r \in loose : r \notin x.held /\ r \notin ToSet(list)
      /\ loose \subseteq x.exists
  OBVIOUS
<1>4. /\ g \in [Refs -> -4..MaxGcTime]
      /\ \A r \in Refs : g[r] = IF r \in loose THEN NotDestroyed ELSE x.gc_destroyed[r]
  BY <1>2, TimesAre
<1> HIDE DEF loose, g
<1>5. y \in Datums /\ y.exists = x.exists \ loose /\ y.held = x.held /\ y.gc_destroyed = g
  BY <1>1, <1>2, <1>3, <1>4 DEF Datums
<1>6. DatumsOK(y)
  BY <1>2, <1>3, <1>4, <1>5 DEF DatumsOK
<1> QED
  BY <1>2, <1>3, <1>4, <1>5, <1>6

\* p is q without the first k.
Rest(T, q, k, p) ==
    /\ p \in Seq(T) /\ DOMAIN p = 1..(Len(q) - k)
    /\ \A i \in DOMAIN p : p[i] = q[i + k] /\ i + k \in DOMAIN q /\ i + k > k
    /\ \A i \in DOMAIN q : i > k => q[i] \in ToSet(p)

LEMMA RestIs ==
    ASSUME NEW T, NEW q \in Seq(T), NEW k \in 0..Len(q), NEW p, p = SubSeq(q, k + 1, Len(q))
    PROVE  Rest(T, q, k, p)
<1>1. /\ Len(q) \in Nat /\ k \in Nat /\ k <= Len(q) /\ DOMAIN q = 1..Len(q)
  OBVIOUS
<1>2. /\ p \in Seq(T) /\ Len(p) = Len(q) - k /\ DOMAIN p = 1..(Len(q) - k)
      /\ \A i \in 1..(Len(q) - k) : p[i] = q[i + k]
  <2>1. CASE k = 0
    BY <1>1, <2>1
  <2>2. CASE k # 0
    <3>1. k \in 1..Len(q)
      BY <1>1, <2>2
    <3>2. /\ p \in Seq(T) /\ Len(p) = Len(q) - k
          /\ \A j \in 1..Len(q) - k : p[j] = q[j + k]
      BY <3>1
    <3>3. DOMAIN p = 1..Len(p)
      BY <3>2
    <3> QED
      BY <3>2, <3>3
  <2> QED
    BY <2>1, <2>2
<1>3. \A i \in 1..(Len(q) - k) : i + k \in 1..Len(q) /\ i + k > k
  BY <1>1
<1>4. ASSUME NEW i \in DOMAIN q, i > k PROVE q[i] \in ToSet(p)
  <2>1. i - k \in 1..(Len(q) - k) /\ (i - k) + k = i
    BY <1>1, <1>4
  <2>2. p[i - k] = q[i]
    BY <1>2, <2>1
  <2> QED
    BY <1>2, <2>1, <2>2 DEF ToSet
<1> QED
  BY <1>1, <1>2, <1>3, <1>4 DEF Rest

LEMMA RestInOrder ==
    ASSUME NEW q, InOrder(q), NEW k \in 0..Len(q), NEW p, p = SubSeq(q, k + 1, Len(q))
    PROVE  InOrder(p)
<1>1. q \in Seq(Entries) /\ DOMAIN q = 1..Len(q) /\ Len(q) \in Nat
  BY DEF InOrder
<1>2. /\ p \in Seq(Entries) /\ DOMAIN p = 1..(Len(q) - k)
      /\ \A i \in DOMAIN p : p[i] = q[i + k] /\ i + k \in DOMAIN q
  BY <1>1, RestIs DEF Rest
<1>3. ASSUME NEW i \in DOMAIN p, NEW j \in DOMAIN p, i < j
      PROVE  p[i].time <= p[j].time /\ p[i].ref # p[j].ref
  <2>1. i + k < j + k /\ p[i] = q[i + k] /\ p[j] = q[j + k]
    BY <1>1, <1>2, <1>3
  <2> QED
    BY <1>2, <2>1 DEF InOrder
<1> QED
  BY <1>2, <1>3 DEF InOrder


(* The queues one element at a time *)

nextOf(from, s, n) ==
    IF from = "prequeue" THEN Queue(s, prequeue[n], "check") ELSE failed(s, queues[from][n], from)

StepsOf(f, from, k) == f = [n \in 0..k |-> IF n = 0 THEN state0 ELSE nextOf(from, f[n - 1], n)]

\* A pass over a queue, one element at a time, for any number of them.
LEMMA StepsExist ==
    ASSUME NEW from, NEW k \in Nat
    PROVE  \E f : StepsOf(f, from, k)
<1> DEFINE bad == {n \in Nat : ~\E f : StepsOf(f, from, n)}
<1> SUFFICES ASSUME bad # {} PROVE FALSE
  OBVIOUS
<1>1. PICK n \in bad : \A y \in bad : n <= y
  BY LeastNat
<1>2. n # 0
  <2> DEFINE z == [i \in 0..0 |-> state0]
  <2>1. z = [i \in 0..0 |-> IF i = 0 THEN state0 ELSE nextOf(from, z[i - 1], i)]
    OBVIOUS
  <2> HIDE DEF z
  <2>2. StepsOf(z, from, 0)
    BY <2>1 DEF StepsOf
  <2> QED
    BY <2>2
<1>3. n - 1 \in Nat /\ n - 1 \notin bad
  BY <1>1, <1>2
<1>4. PICK f : StepsOf(f, from, n - 1)
  BY <1>3
<1> DEFINE g == [i \in 0..n |-> IF i = n THEN nextOf(from, f[n - 1], n) ELSE f[i]]
<1>5. ASSUME NEW i \in 0..n
      PROVE  g[i] = IF i = 0 THEN state0 ELSE nextOf(from, g[i - 1], i)
  <2>1. CASE i = n
    <3>1. n - 1 \in 0..n /\ n - 1 # n
      BY <1>2
    <3>2. g[n - 1] = f[n - 1] /\ g[n] = nextOf(from, f[n - 1], n)
      BY <3>1
    <3> QED
      BY <1>2, <2>1, <3>2
  <2>2. CASE i # n
    <3>1. i \in 0..(n - 1)
      BY <1>2, <2>2
    <3>2. f[i] = IF i = 0 THEN state0 ELSE nextOf(from, f[i - 1], i)
      BY <1>4, <3>1 DEF StepsOf
    <3>3. g[i] = f[i] /\ (i # 0 => g[i - 1] = f[i - 1])
      BY <2>2, <3>1
    <3> QED
      BY <3>2, <3>3
  <2> QED
    BY <2>1, <2>2
<1>6. g = [i \in 0..n |-> g[i]]
  OBVIOUS
<1> HIDE DEF g
<1>7. StepsOf(g, from, n)
  BY <1>5, <1>6 DEF StepsOf
<1> QED
  BY <1>1, <1>7

LEMMA PrequeuedIs ==
    ASSUME NEW k \in Nat
    PROVE  \E f : StepsOf(f, "prequeue", k) /\ prequeued(k) = f[k]
<1> DEFINE g == CHOOSE f : f = [n \in 0..k |-> IF n = 0 THEN state0 ELSE Queue(f[n - 1], prequeue[n], "check")]
<1>1. \E f : f = [n \in 0..k |-> IF n = 0 THEN state0 ELSE Queue(f[n - 1], prequeue[n], "check")]
  <2>1. \E f : StepsOf(f, "prequeue", k)
    BY StepsExist
  <2> QED
    BY <2>1 DEF StepsOf, nextOf
<1>2. g = [n \in 0..k |-> IF n = 0 THEN state0 ELSE Queue(g[n - 1], prequeue[n], "check")]
  BY <1>1
<1>3. prequeued(k) = g[k]
  BY DEF prequeued
<1> HIDE DEF g
<1>4. StepsOf(g, "prequeue", k)
  BY <1>2 DEF StepsOf, nextOf
<1> QED
  BY <1>3, <1>4

LEMMA HandledIs ==
    ASSUME NEW level \in Levels, NEW k \in Nat
    PROVE  \E f : StepsOf(f, level, k) /\ handled(level, k) = f[k]
<1> DEFINE g == CHOOSE f : f = [n \in 0..k |-> IF n = 0 THEN state0
                                               ELSE failed(f[n - 1], queues[level][n], level)]
<1>0. level # "prequeue"
  BY DEF Levels
<1>1. \E f : f = [n \in 0..k |-> IF n = 0 THEN state0 ELSE failed(f[n - 1], queues[level][n], level)]
  <2>1. \E f : StepsOf(f, level, k)
    BY StepsExist
  <2> QED
    BY <1>0, <2>1 DEF StepsOf, nextOf
<1>2. g = [n \in 0..k |-> IF n = 0 THEN state0 ELSE failed(g[n - 1], queues[level][n], level)]
  BY <1>1
<1>3. handled(level, k) = g[k]
  BY DEF handled
<1> HIDE DEF g
<1>4. StepsOf(g, level, k)
  BY <1>0, <1>2 DEF StepsOf, nextOf
<1> QED
  BY <1>3, <1>4

KeptOf(s, r) ==
    /\ s.data.gc_destroyed[r] = data.gc_destroyed[r]
    /\ \A l \in Levels : \A x \in ToSet(queues[l]) : x.ref = r => x \in ToSet(s.queues[l])

\* The first n of the prequeue are in a queue, and nothing else has changed.
MovedFirst(s, n) ==
    /\ StateOK(s) /\ s.data.exists = data.exists
    /\ \A r \in Refs : IF \E i \in 1..n : prequeue[i] = r THEN Queued(s, r) ELSE KeptOf(s, r)

LEMMA MovedStep ==
    ASSUME GarbageInv, NEW n \in 1..Len(prequeue), NEW s, MovedFirst(s, n - 1),
           NEW t, t = Queue(s, prequeue[n], "check")
    PROVE  MovedFirst(t, n)
<1> DEFINE r == prequeue[n]
<1>1. /\ gcTime \in 1..MaxGcTime /\ prequeue \in Seq(Refs) /\ DOMAIN prequeue = 1..Len(prequeue)
      /\ r \in data.exists /\ r \in Refs /\ Len(prequeue) \in Nat
  BY DEF GarbageInv, PrequeueOK
<1> HIDE DEF r
<1>2. StateOK(s) /\ s.data.exists = data.exists
  BY DEF MovedFirst
<1>3. "check" \in Levels /\ t = Queue(s, r, "check")
  BY DEF Levels, r
<1>4. Queues(s, t, r) /\ \E l \in Levels : entryOf(t.data, r) \in ToSet(t.queues[l])
  BY <1>1, <1>2, <1>3, QueueIs
<1>5. \A i \in 1..n : prequeue[i] = r \/ i \in 1..(n - 1)
  BY <1>1 DEF r
<1>6. ASSUME NEW q \in Refs
      PROVE  IF \E i \in 1..n : prequeue[i] = q THEN Queued(t, q) ELSE KeptOf(t, q)
  <2>1. CASE q = r
    BY <1>1, <1>4, <2>1 DEF Queued, r
  <2>2. CASE q # r
    <3>1. (\E i \in 1..n : prequeue[i] = q) <=> \E i \in 1..(n - 1) : prequeue[i] = q
      BY <1>1, <1>5, <2>2
    <3>2. /\ t.data.gc_destroyed[q] = s.data.gc_destroyed[q]
          /\ \A l \in Levels : \A x \in ToSet(s.queues[l]) : x.ref = q => x \in ToSet(t.queues[l])
      BY <1>4, <2>2 DEF Queues
    <3>3. Queued(s, q) => Queued(t, q)
      BY <3>2 DEF Queued, entryOf
    <3>4. KeptOf(s, q) => KeptOf(t, q)
      BY <3>2 DEF KeptOf
    <3> QED
      BY <3>1, <3>3, <3>4 DEF MovedFirst
  <2> QED
    BY <2>1, <2>2
<1> QED
  BY <1>2, <1>4, <1>6 DEF MovedFirst, Queues

\* HandlePreQueue() leaves every element it came to in a queue.
LEMMA PrequeuedMoves ==
    ASSUME GarbageInv, NEW k \in 0..Len(prequeue)
    PROVE  MovedFirst(prequeued(k), k)
<1>1. k \in Nat /\ Len(prequeue) \in Nat
  BY DEF GarbageInv, PrequeueOK
<1>2. PICK f : StepsOf(f, "prequeue", k) /\ prequeued(k) = f[k]
  BY <1>1, PrequeuedIs
<1>3. f[0] = state0 /\ \A n \in 1..k : f[n] = Queue(f[n - 1], prequeue[n], "check")
  BY <1>1, <1>2 DEF StepsOf, nextOf
<1> DEFINE bad == {n \in 0..k : ~MovedFirst(f[n], n)}
<1> SUFFICES ASSUME bad # {} PROVE FALSE
  BY <1>1, <1>2
<1>4. PICK n \in bad : \A y \in bad : n <= y
  <2>1. bad \in SUBSET Nat
    BY <1>1
  <2> HIDE DEF bad
  <2> QED
    BY <2>1, LeastNat
<1>5. n # 0
  <2>1. state0.data = data /\ state0.queues = queues
    BY DEF state0
  <2>2. StateOK(state0) /\ \A r \in Refs : KeptOf(state0, r)
    BY <2>1 DEF GarbageInv, KeptOf
  <2>3. MovedFirst(state0, 0)
    BY <2>1, <2>2 DEF MovedFirst
  <2> QED
    BY <1>3, <1>4, <2>3
<1>6. n \in 1..k /\ n \in 1..Len(prequeue) /\ n - 1 \in 0..k /\ ~(n <= n - 1)
  BY <1>1, <1>4, <1>5
<1>7. MovedFirst(f[n - 1], n - 1)
  BY <1>4, <1>6
<1>8. MovedFirst(f[n], n)
  BY <1>3, <1>6, <1>7, MovedStep
<1> QED
  BY <1>4, <1>8


\* The first n of a queue are known by later entries, or no longer there; what is in the
\* prequeue has not changed.
HandledFirst(level, s, n) ==
    /\ StateOK(s) /\ s.data.exists \subseteq data.exists
    /\ s.queues[level] = queues[level]
    /\ \A r \in data.exists : data.gc_destroyed[r] < 1 =>
         r \in s.data.exists /\ s.data.gc_destroyed[r] = data.gc_destroyed[r]
    /\ \A r \in s.data.exists :
         \/ level = "check" /\ entryOf(s.data, r) \in ToSet(s.queues["hard"])
         \/ KeptOf(s, r) /\ \A i \in 1..n : queues[level][i] # entryOf(data, r)

LEMMA HandledStep ==
    ASSUME GarbageInv, NEW level \in Levels, NEW n \in 1..Len(queues[level]),
           NEW s, HandledFirst(level, s, n - 1), NEW t, t = failed(s, queues[level][n], level)
    PROVE  HandledFirst(level, t, n)
<1> DEFINE x == queues[level][n]
           r == x.ref
<1>1. /\ gcTime \in 1..MaxGcTime /\ StateOK(state0) /\ state0.queues = queues /\ state0.data = data
      /\ level \in {"check", "hard"} /\ "hard" \in Levels
  BY DEF GarbageInv, state0, Levels
<1>2. InOrder(queues[level]) /\ DOMAIN queues[level] = 1..Len(queues[level]) /\ Len(queues[level]) \in Nat
  BY <1>1 DEF StateOK, InOrder
<1>3. x \in Entries /\ r \in Refs /\ x.time \in 1..gcTime /\ x = [ref |-> r, time |-> x.time]
  <2>1. x \in Entries
    BY <1>2 DEF InOrder
  <2> QED
    BY <2>1 DEF Entries
<1>4. StateOK(s) /\ s.data.exists \subseteq data.exists /\ s.queues[level] = queues[level]
  BY DEF HandledFirst
<1>5. t = failed(s, x, level)
  OBVIOUS
<1>6. \A i \in 1..n : queues[level][i] = x \/ i \in 1..(n - 1)
  BY <1>2
<1> HIDE DEF x, r
<1>7. x.time > 0 /\ ~(x.time < 1)
  BY <1>1, <1>3, TimesAre
<1>8. data.exists \subseteq Refs
  BY <1>1 DEF StateOK, DatumsOK, Datums
<1>9. CASE ~isIt(s, x)
  <2>1. t = s
    BY <1>5, <1>9 DEF failed
  <2>2. ASSUME NEW q \in s.data.exists, KeptOf(s, q) PROVE x # entryOf(data, q)
    BY <1>9, <2>2 DEF entryOf, KeptOf, isIt
  <2> QED
    BY <1>6, <2>1, <2>2 DEF HandledFirst
<1>10. CASE isIt(s, x) /\ level = "check"
  <2>1. r \in s.data.exists /\ s.data.gc_destroyed[r] = x.time
    BY <1>10 DEF isIt, r
  <2>2. t = Queue(s, r, "hard")
    BY <1>5, <1>10 DEF failed, r
  <2>3. Queues(s, t, r)
    BY <1>1, <1>4, <2>1, <2>2, QueueIs
  <2>4. entryOf(t.data, r) \in ToSet(t.queues["hard"]) /\ t.queues["check"] = s.queues["check"]
    BY <1>1, <1>4, <2>1, <2>2, QueueIs DEF Levels
  <2>5. ASSUME NEW q \in data.exists, data.gc_destroyed[q] < 1
        PROVE  q \in t.data.exists /\ t.data.gc_destroyed[q] = data.gc_destroyed[q]
    <3>1. q \in s.data.exists /\ s.data.gc_destroyed[q] = data.gc_destroyed[q]
      BY <2>5 DEF HandledFirst
    <3>2. q # r
      BY <1>7, <2>1, <2>5, <3>1
    <3> QED
      BY <1>8, <2>3, <3>1, <3>2 DEF Queues
  <2>6. ASSUME NEW q \in t.data.exists, q # r
        PROVE  \/ entryOf(t.data, q) \in ToSet(t.queues["hard"])
               \/ KeptOf(t, q) /\ \A i \in 1..n : queues[level][i] # entryOf(data, q)
    <3>1. /\ q \in s.data.exists /\ q \in Refs /\ t.data.gc_destroyed[q] = s.data.gc_destroyed[q]
          /\ \A l \in Levels : \A y \in ToSet(s.queues[l]) : y.ref = q => y \in ToSet(t.queues[l])
      BY <1>4, <1>8, <2>3, <2>6 DEF Queues
    <3>2. CASE entryOf(s.data, q) \in ToSet(s.queues["hard"])
      BY <1>1, <3>1, <3>2 DEF entryOf
    <3>3. CASE KeptOf(s, q) /\ \A i \in 1..(n - 1) : queues[level][i] # entryOf(data, q)
      <4>1. KeptOf(t, q)
        BY <3>1, <3>3 DEF KeptOf
      <4>2. x # entryOf(data, q)
        BY <2>6 DEF entryOf, r
      <4> QED
        BY <1>6, <3>3, <4>1, <4>2
    <3> QED
      BY <3>1, <3>2, <3>3 DEF HandledFirst
  <2> QED
    BY <1>4, <1>10, <2>3, <2>4, <2>5, <2>6 DEF HandledFirst, Queues
<1>11. CASE isIt(s, x) /\ level = "hard"
  <2>1. r \in s.data.exists /\ s.data.gc_destroyed[r] = x.time
    BY <1>11 DEF isIt, r
  <2>2. t = [s EXCEPT !.data = gone(@, r)]
    BY <1>5, <1>11 DEF failed, r
  <2> DEFINE y == gone(s.data, r)
  <2>3. /\ DatumsOK(y) /\ y.exists = s.data.exists \ {r}
        /\ \A q \in Refs \ {r} : y.gc_destroyed[q] = s.data.gc_destroyed[q]
    BY <1>1, <1>3, <1>4, GoneIs DEF StateOK
  <2> HIDE DEF y
  <2>4. t \in [data: Datums, queues: [Levels -> Seq(Entries)]] /\ t.data = y /\ t.queues = s.queues
    BY <1>4, <2>2, <2>3 DEF StateOK, DatumsOK, y
  <2>5. ASSUME NEW q \in data.exists, data.gc_destroyed[q] < 1
        PROVE  q \in t.data.exists /\ t.data.gc_destroyed[q] = data.gc_destroyed[q]
    <3>1. q \in s.data.exists /\ s.data.gc_destroyed[q] = data.gc_destroyed[q]
      BY <2>5 DEF HandledFirst
    <3>2. q # r
      BY <1>7, <2>1, <2>5, <3>1
    <3> QED
      BY <1>8, <2>3, <2>4, <3>1, <3>2
  <2>6. ASSUME NEW q \in t.data.exists
        PROVE  KeptOf(t, q) /\ \A i \in 1..n : queues[level][i] # entryOf(data, q)
    <3>1. q \in s.data.exists /\ q # r /\ q \in Refs
      BY <1>4, <1>8, <2>3, <2>4
    <3>2. KeptOf(s, q) /\ \A i \in 1..(n - 1) : queues[level][i] # entryOf(data, q)
      BY <1>11, <3>1 DEF HandledFirst
    <3>3. x # entryOf(data, q)
      BY <3>1 DEF entryOf, r
    <3>4. KeptOf(t, q)
      BY <2>3, <2>4, <3>1, <3>2 DEF KeptOf
    <3> QED
      BY <1>6, <3>2, <3>3, <3>4
  <2>7. StateOK(t)
    BY <1>4, <2>3, <2>4 DEF StateOK
  <2> QED
    BY <1>4, <2>3, <2>4, <2>5, <2>6, <2>7 DEF HandledFirst
<1> QED
  BY <1>1, <1>9, <1>10, <1>11

\* HandleQueue() leaves what it came to in another queue, or gone if it was destroyed.
LEMMA QueueHandled ==
    ASSUME GarbageInv, NEW level \in Levels, NEW k \in 0..Len(queues[level])
    PROVE  HandledFirst(level, handled(level, k), k)
<1>1. k \in Nat /\ Len(queues[level]) \in Nat /\ state0.data = data /\ state0.queues = queues
  BY DEF GarbageInv, StateOK, InOrder, state0
<1>2. PICK f : StepsOf(f, level, k) /\ handled(level, k) = f[k]
  BY <1>1, HandledIs
<1>3. f[0] = state0 /\ \A n \in 1..k : f[n] = failed(f[n - 1], queues[level][n], level)
  BY <1>1, <1>2 DEF StepsOf, nextOf, Levels
<1> DEFINE bad == {n \in 0..k : ~HandledFirst(level, f[n], n)}
<1> SUFFICES ASSUME bad # {} PROVE FALSE
  BY <1>1, <1>2
<1>4. PICK n \in bad : \A y \in bad : n <= y
  <2>1. bad \in SUBSET Nat
    BY <1>1
  <2> HIDE DEF bad
  <2> QED
    BY <2>1, LeastNat
<1>5. n # 0
  <2>1. StateOK(state0) /\ \A r \in Refs : KeptOf(state0, r)
    BY <1>1 DEF GarbageInv, KeptOf
  <2>2. data.exists \subseteq Refs
    BY <1>1, <2>1 DEF StateOK, DatumsOK, Datums
  <2>3. HandledFirst(level, state0, 0)
    BY <1>1, <2>1, <2>2 DEF HandledFirst
  <2> QED
    BY <1>3, <1>4, <2>3
<1>6. n \in 1..k /\ n \in 1..Len(queues[level]) /\ n - 1 \in 0..k /\ ~(n <= n - 1)
  BY <1>1, <1>4, <1>5
<1>7. HandledFirst(level, f[n - 1], n - 1)
  BY <1>4, <1>6
<1>8. HandledFirst(level, f[n], n)
  BY <1>3, <1>6, <1>7, HandledStep
<1> QED
  BY <1>4, <1>8


LEMMA StateNext ==
    ASSUME gcTime' = gcTime, StateOK([data |-> data', queues |-> queues'])
    PROVE  StateOK(state0)'
<1> DEFINE s == [data |-> data', queues |-> queues']
<1>1. state0' = s
  BY DEF state0
<1>2. Entries' = Entries
  BY DEF Entries
<1>3. StateOK(s)
  OBVIOUS
<1> HIDE DEF s
<1> QED
  BY <1>1, <1>2, <1>3 DEF StateOK, DatumsOK, InOrder, Datums

LEMMA StateNow ==
    ASSUME GarbageInv
    PROVE  /\ StateOK(state0) /\ state0.data = data /\ state0.queues = queues
           /\ DatumsOK(data) /\ queues \in [Levels -> Seq(Entries)]
           /\ \A l \in Levels : InOrder(queues[l])
           /\ data \in Datums /\ data.exists \subseteq Refs /\ data.held \subseteq data.exists
           /\ prequeue \in Seq(Refs) /\ gcTime \in 1..MaxGcTime
<1>1. StateOK(state0) /\ state0.data = data /\ state0.queues = queues
  BY DEF GarbageInv, state0
<1> QED
  BY <1>1 DEF GarbageInv, StateOK, DatumsOK, Datums, PrequeueOK

LEMMA PrequeueKeeps ==
    ASSUME GarbageInv, HandlePreQueue
    PROVE  GarbageInv'
<1>1. PICK k \in 0..Len(prequeue) :
        /\ Handled(k, Len(prequeue), "check")
        /\ prequeue' = SubSeq(prequeue, k + 1, Len(prequeue))
        /\ data' = collected(prequeued(k).data, prequeue')
        /\ queues' = prequeued(k).queues
  BY DEF HandlePreQueue
<1>2. fired' = TRUE /\ owed' = owed \cap data'.exists /\ gcTime' = gcTime
  BY DEF HandlePreQueue
<1> DEFINE s == prequeued(k)
<1>3. MovedFirst(s, k) /\ data' = collected(s.data, prequeue') /\ queues' = s.queues
  BY <1>1, PrequeuedMoves
<1> HIDE DEF s
<1>4. StateOK(s) /\ DatumsOK(s.data) /\ s.data.exists = data.exists /\ gcTime \in 1..MaxGcTime
  BY <1>3, StateNow DEF MovedFirst, StateOK
<1>5. /\ DatumsOK(data') /\ data'.exists \subseteq data.exists
      /\ \A r \in data'.exists : data'.gc_destroyed[r] = s.data.gc_destroyed[r]
      /\ \A r \in data.exists : r \in ToSet(prequeue') => r \in data'.exists
  BY <1>3, <1>4, CollectedIs
<1>6. /\ prequeue' \in Seq(Refs) /\ DOMAIN prequeue' = 1..(Len(prequeue) - k)
      /\ \A i \in DOMAIN prequeue' : prequeue'[i] = prequeue[i + k] /\ i + k \in DOMAIN prequeue /\ i + k > k
      /\ \A i \in DOMAIN prequeue : i > k => prequeue[i] \in ToSet(prequeue')
  <2>1. Rest(Refs, prequeue, k, prequeue')
    BY <1>1, StateNow, RestIs
  <2> QED
    BY <2>1 DEF Rest
<1>7. k \in Nat /\ Len(prequeue) \in Nat /\ DOMAIN prequeue = 1..Len(prequeue) /\ k <= Len(prequeue)
  BY StateNow
<1>8. \A i, j \in DOMAIN prequeue : prequeue[i] = prequeue[j] => i = j
  BY DEF GarbageInv, PrequeueOK
<1>9. StateOK(state0)'
  <2> DEFINE t == [data |-> data', queues |-> queues']
  <2>1. t.data = data' /\ t.queues = queues' /\ t \in [data: {data'}, queues: {queues'}]
    OBVIOUS
  <2> HIDE DEF t
  <2>2. t \in [data: Datums, queues: [Levels -> Seq(Entries)]]
    BY <1>3, <1>4, <1>5, <2>1 DEF StateOK, DatumsOK
  <2>3. StateOK(t)
    BY <1>3, <1>4, <1>5, <2>1, <2>2 DEF StateOK
  <2> QED
    BY <1>2, <2>3, StateNext DEF t
<1>10. ASSUME NEW i \in DOMAIN prequeue'
       PROVE  prequeue'[i] \in data'.exists /\ data'.gc_destroyed[prequeue'[i]] = data.gc_destroyed[prequeue[i + k]]
              /\ data.gc_destroyed[prequeue[i + k]] \in Pending
  <2> DEFINE r == prequeue[i + k]
  <2>1. i + k \in DOMAIN prequeue /\ r = prequeue'[i] /\ r \in Refs
    BY <1>6, StateNow
  <2>2. r \in data.exists /\ data.gc_destroyed[r] \in Pending
    BY <2>1 DEF GarbageInv, PrequeueOK
  <2>3. r \in ToSet(prequeue')
    BY <1>6, <2>1
  <2>4. r \in data'.exists /\ data'.gc_destroyed[r] = s.data.gc_destroyed[r]
    BY <1>5, <2>2, <2>3
  <2>5. ~\E j \in 1..k : prequeue[j] = r
    BY <1>6, <1>7, <1>8, <2>1
  <2>6. KeptOf(s, r)
    BY <1>3, <2>1, <2>5 DEF MovedFirst
  <2> QED
    BY <2>1, <2>2, <2>4, <2>6 DEF KeptOf
<1>11. PrequeueOK'
  <2>1. \A i, j \in DOMAIN prequeue' : prequeue'[i] = prequeue'[j] => i = j
    BY <1>6, <1>7, <1>8
  <2> QED
    BY <1>6, <1>10, <2>1 DEF PrequeueOK, Pending
<1>12. ASSUME NEW r \in owed'
       PROVE  \/ data'.gc_destroyed[r] \in Pending /\ r \in ToSet(prequeue')
              \/ Queued(state0, r)'
  <2>1. r \in owed /\ r \in data'.exists /\ r \in Refs /\ state0' = [data |-> data', queues |-> queues']
    BY <1>2, <1>5, StateNow DEF state0
  <2>2. data'.gc_destroyed[r] = s.data.gc_destroyed[r]
    BY <1>5, <2>1
  <2>3. CASE \E i \in 1..k : prequeue[i] = r
    <3>1. Queued(s, r)
      BY <1>3, <2>1, <2>3 DEF MovedFirst
    <3> QED
      BY <1>3, <2>1, <2>2, <3>1 DEF Queued, entryOf
  <2>4. CASE ~\E i \in 1..k : prequeue[i] = r
    <3>1. KeptOf(s, r)
      BY <1>3, <2>1, <2>4 DEF MovedFirst
    <3>2. CASE data.gc_destroyed[r] \in Pending /\ r \in ToSet(prequeue)
      <4>1. PICK i \in DOMAIN prequeue : prequeue[i] = r
        BY <3>2 DEF ToSet
      <4>2. i > k
        BY <1>7, <2>4, <4>1
      <4> QED
        BY <1>6, <2>2, <3>1, <3>2, <4>1, <4>2 DEF KeptOf
    <3>3. CASE Queued(state0, r)
      <4>1. PICK l \in Levels : entryOf(data, r) \in ToSet(queues[l])
        BY <3>3, StateNow DEF Queued
      <4>2. entryOf(data, r) = entryOf(data', r) /\ entryOf(data, r).ref = r
        BY <2>2, <3>1 DEF KeptOf, entryOf
      <4>3. entryOf(data', r) \in ToSet(queues'[l])
        BY <1>3, <3>1, <4>1, <4>2 DEF KeptOf
      <4> QED
        BY <2>1, <4>3 DEF Queued, entryOf
    <3> QED
      BY <2>1, <3>2, <3>3 DEF GarbageInv
  <2> QED
    BY <2>3, <2>4
<1>13. gcStep' \in {"idle"} \cup Levels
  BY <1>1 DEF Handled, Levels
<1> QED
  BY <1>2, <1>4, <1>9, <1>11, <1>12, <1>13 DEF GarbageInv, Pending


LEMMA QueueKeeps ==
    ASSUME GarbageInv, NEW level \in Levels, HandleQueue(level)
    PROVE  /\ GarbageInv'
           /\ level = "hard" => \A r \in data.exists \ data'.exists : data.gc_destroyed[r] > 0
<1> DEFINE q == queues[level]
           old(i) == q[i].time <= gcTime - collection_timeout[level]
           early == {i \in DOMAIN q : \A j \in 1..i : old(j)}
<1>1. PICK k \in 0..Cardinality(early) :
        /\ Handled(k, Cardinality(early), IF level = "check" THEN "hard" ELSE "idle")
        /\ data' = handled(level, k).data
        /\ queues' = [handled(level, k).queues EXCEPT ![level] = SubSeq(@, k + 1, Len(@))]
  BY DEF HandleQueue
<1>2. owed' = owed \cap data'.exists /\ UNCHANGED <<gcTime, fired, prequeue>>
  BY DEF HandleQueue
<1>3. InOrder(q) /\ q \in Seq(Entries) /\ Len(q) \in Nat /\ DOMAIN q = 1..Len(q)
  BY StateNow DEF InOrder
<1>4. k \in 0..Len(q)
  <2>1. early \subseteq 1..Len(q)
    BY <1>3
  <2> HIDE DEF early, q
  <2>2. Cardinality(1..Len(q)) = Len(q) /\ IsFiniteSet(1..Len(q))
    <3>1. PICK n \in Nat : n = Len(q)
      BY <1>3
    <3>2. IsFiniteSet(1..n) /\ Cardinality(1..n) = IF 1 > n THEN 0 ELSE n - 1 + 1
      BY FS_Interval
    <3> QED
      BY <3>1, <3>2
  <2>3. Cardinality(early) <= Len(q) /\ Cardinality(early) \in Nat
    BY <2>1, <2>2, FS_Subset, FS_CardinalityType
  <2> QED
    BY <1>3, <2>3
<1> HIDE DEF old, early
<1> DEFINE s == handled(level, k)
<1>5. HandledFirst(level, s, k) /\ data' = s.data
  BY <1>1, <1>4, QueueHandled
<1>6. queues' = [s.queues EXCEPT ![level] = SubSeq(@, k + 1, Len(@))]
  BY <1>1
<1> HIDE DEF s
<1>7. /\ StateOK(s) /\ s.data.exists \subseteq data.exists /\ s.queues[level] = q
      /\ s.queues \in [Levels -> Seq(Entries)] /\ DatumsOK(s.data)
  BY <1>5 DEF HandledFirst, StateOK
<1> HIDE DEF q
<1> DEFINE p == SubSeq(q, k + 1, Len(q))
<1>8. Rest(Entries, q, k, p) /\ InOrder(p)
  BY <1>3, <1>4, RestIs, RestInOrder
<1>9. queues' = [s.queues EXCEPT ![level] = p]
  BY <1>6, <1>7
<1> HIDE DEF p
<1>10. /\ queues' \in [Levels -> Seq(Entries)] /\ queues'[level] = p
       /\ \A l \in Levels : l # level => queues'[l] = s.queues[l]
  BY <1>7, <1>8, <1>9 DEF Rest
<1>11. StateOK(state0)'
  <2> DEFINE t == [data |-> data', queues |-> queues']
  <2>1. t.data = data' /\ t.queues = queues' /\ t \in [data: {data'}, queues: {queues'}]
    OBVIOUS
  <2> HIDE DEF t
  <2>2. t \in [data: Datums, queues: [Levels -> Seq(Entries)]]
    BY <1>5, <1>7, <1>10, <2>1 DEF DatumsOK
  <2>3. \A l \in Levels : InOrder(t.queues[l])
    BY <1>7, <1>8, <1>10, <2>1 DEF StateOK
  <2>4. StateOK(t)
    BY <1>5, <1>7, <2>1, <2>2, <2>3 DEF StateOK
  <2> QED
    BY <1>2, <2>4, StateNext DEF t
<1>12. \A r \in data.exists : data.gc_destroyed[r] < 1 =>
         r \in data'.exists /\ data'.gc_destroyed[r] = data.gc_destroyed[r]
  BY <1>5 DEF HandledFirst
<1>13. ASSUME NEW r \in data.exists, data.gc_destroyed[r] \in Pending
       PROVE  r \in data'.exists /\ data'.gc_destroyed[r] = data.gc_destroyed[r]
  BY <1>12, <1>13 DEF Pending, QUEUED_FOR_QUEUING, QUEUED_FOR_HARD_DEL
<1>14. PrequeueOK'
  BY <1>2, <1>13 DEF GarbageInv, PrequeueOK, Pending
<1>15. ASSUME NEW r \in owed'
       PROVE  \/ data'.gc_destroyed[r] \in Pending /\ r \in ToSet(prequeue')
              \/ Queued(state0, r)'
  <2>1. /\ r \in owed /\ r \in data.exists /\ r \in s.data.exists
        /\ state0' = [data |-> data', queues |-> queues']
    BY <1>2, <1>5, <1>7 DEF state0
  <2>2. CASE level = "check" /\ entryOf(s.data, r) \in ToSet(s.queues["hard"])
    <3>1. entryOf(data', r) \in ToSet(queues'["hard"]) /\ "hard" \in Levels
      BY <1>5, <1>10, <2>2 DEF Levels
    <3> QED
      BY <2>1, <3>1 DEF Queued, entryOf
  <2>3. CASE KeptOf(s, r) /\ \A i \in 1..k : queues[level][i] # entryOf(data, r)
    <3>1. CASE data.gc_destroyed[r] \in Pending /\ r \in ToSet(prequeue)
      BY <1>2, <1>13, <2>1, <3>1
    <3>2. CASE Queued(state0, r)
      <4>1. PICK l \in Levels : entryOf(data, r) \in ToSet(queues[l])
        BY <3>2, StateNow DEF Queued
      <4>2. entryOf(data, r) = entryOf(data', r) /\ entryOf(data, r).ref = r
        BY <1>5, <2>3 DEF KeptOf, entryOf
      <4>3. CASE l # level
        <5>1. entryOf(data', r) \in ToSet(queues'[l])
          BY <1>10, <2>3, <4>1, <4>2, <4>3 DEF KeptOf
        <5> QED
          BY <2>1, <5>1 DEF Queued, entryOf
      <4>4. CASE l = level
        <5>1. PICK i \in DOMAIN q : q[i] = entryOf(data, r)
          BY <4>1, <4>4 DEF ToSet, q
        <5>2. i > k
          BY <1>3, <1>4, <2>3, <5>1 DEF q
        <5>3. entryOf(data', r) \in ToSet(queues'[level])
          BY <1>8, <1>10, <4>2, <5>1, <5>2 DEF Rest
        <5> QED
          BY <2>1, <5>3 DEF Queued, entryOf
      <4> QED
        BY <4>3, <4>4
    <3> QED
      BY <2>1, <3>1, <3>2 DEF GarbageInv
  <2> QED
    BY <1>5, <2>1, <2>2, <2>3 DEF HandledFirst
<1>16. gcStep' \in {"idle"} \cup Levels
  BY <1>1 DEF Handled, Levels
<1>17. GarbageInv'
  BY <1>2, <1>11, <1>14, <1>15, <1>16 DEF GarbageInv, Pending
<1>18. ASSUME NEW r \in data.exists \ data'.exists PROVE data.gc_destroyed[r] > 0
  <2>1. data.gc_destroyed[r] \in -4..MaxGcTime
    BY StateNow DEF Datums
  <2> QED
    BY <1>12, <2>1
<1> QED
  BY <1>17, <1>18


\* A datum that nobody has destroyed, or that is being destroyed, waits nowhere.
LEMMA NotWaiting ==
    ASSUME GarbageInv, NEW r, data.gc_destroyed[r] \in {NotDestroyed, BEING_QDELETED}
    PROVE  r \notin owed /\ r \notin ToSet(prequeue)
<1>1. data.gc_destroyed[r] \notin Pending /\ data.gc_destroyed[r] \notin 1..gcTime
  BY StateNow, TimesAre DEF NotDestroyed, BEING_QDELETED
<1>2. ASSUME NEW l \in Levels PROVE entryOf(data, r) \notin ToSet(queues[l])
  <2>1. \A i \in DOMAIN queues[l] : queues[l][i] \in Entries
    BY StateNow
  <2>2. entryOf(data, r).time = data.gc_destroyed[r]
    BY DEF entryOf
  <2> QED
    BY <1>1, <2>1, <2>2 DEF ToSet, Entries
<1>3. r \notin ToSet(prequeue)
  BY <1>1 DEF GarbageInv, PrequeueOK, ToSet
<1> QED
  BY <1>1, <1>2, <1>3, StateNow DEF GarbageInv, Queued

LEMMA GameKeeps ==
    ASSUME GarbageInv, UNCHANGED <<gcTime, fired, gcStep, queues>>, DatumsOK(data'), PrequeueOK',
           owed' \subseteq data'.exists,
           \A r \in owed' : \/ data'.gc_destroyed[r] \in Pending /\ r \in ToSet(prequeue')
                            \/ data'.gc_destroyed[r] = data.gc_destroyed[r] /\ Queued(state0, r)
    PROVE  GarbageInv'
<1>1. StateOK(state0)'
  <2> DEFINE t == [data |-> data', queues |-> queues']
  <2>1. t.data = data' /\ t.queues = queues' /\ t \in [data: {data'}, queues: {queues'}]
    OBVIOUS
  <2> HIDE DEF t
  <2>2. t \in [data: Datums, queues: [Levels -> Seq(Entries)]]
    BY <2>1, StateNow DEF DatumsOK
  <2>3. StateOK(t)
    BY <2>1, <2>2, StateNow DEF StateOK
  <2> QED
    BY <2>3, StateNext DEF t
<1>2. ASSUME NEW r \in owed'
      PROVE  (data'.gc_destroyed[r] \in Pending /\ r \in ToSet(prequeue')) \/ Queued(state0, r)'
  <2>1. state0' = [data |-> data', queues |-> queues]
    BY DEF state0
  <2>2. CASE data'.gc_destroyed[r] = data.gc_destroyed[r] /\ Queued(state0, r)
    BY <2>1, <2>2, StateNow DEF Queued, entryOf
  <2> QED
    BY <2>2
<1> QED
  BY <1>1, <1>2 DEF GarbageInv, Pending

\* Where only the references from outside change, what was owed waits where it did.
LEMMA StillWaits ==
    ASSUME GarbageInv, prequeue' = prequeue, data'.exists \subseteq data.exists, owed' = owed \cap data'.exists,
           \A r \in ToSet(prequeue) : r \in data.exists => r \in data'.exists,
           \A r \in data'.exists : r \in owed \/ r \in ToSet(prequeue) =>
                                     data'.gc_destroyed[r] = data.gc_destroyed[r]
    PROVE  /\ PrequeueOK' /\ owed' \subseteq data'.exists
           /\ \A r \in owed' : \/ data'.gc_destroyed[r] \in Pending /\ r \in ToSet(prequeue')
                               \/ data'.gc_destroyed[r] = data.gc_destroyed[r] /\ Queued(state0, r)
<1>1. \A i \in DOMAIN prequeue : prequeue[i] \in ToSet(prequeue)
  BY DEF ToSet
<1>2. PrequeueOK'
  BY <1>1 DEF GarbageInv, PrequeueOK, Pending
<1> QED
  BY <1>2 DEF GarbageInv

LEMMA GarbageGameKeeps ==
    ASSUME GarbageInv, GarbageGame
    PROVE  GarbageInv'
<1>1. PICK r \in Refs : NewDatum(r) \/ Drop(r) \/ qdelBegins(r) \/ hinted(r)
  BY DEF GarbageGame
<1>2. UNCHANGED <<gcTime, fired, gcStep, queues>>
  BY DEF GarbageGame
<1>3. /\ data \in Datums /\ DatumsOK(data) /\ owed \subseteq data.exists /\ gcTime \in 1..MaxGcTime
      /\ data.held \subseteq data.exists
  BY StateNow DEF GarbageInv
<1>4. ToSet(prequeue) \subseteq data.exists
  BY DEF GarbageInv, PrequeueOK, ToSet
<1>5. ASSUME NEW x, DatumsOK(x), x.exists = data.exists, data' = collected(x, prequeue),
             owed' = owed \cap data'.exists, prequeue' = prequeue,
             \A q \in Refs \ {r} : x.gc_destroyed[q] = data.gc_destroyed[q],
             x.gc_destroyed[r] = data.gc_destroyed[r] \/ (r \notin owed /\ r \notin ToSet(prequeue))
      PROVE  GarbageInv'
  <2>1. /\ DatumsOK(data') /\ data'.exists \subseteq data.exists
        /\ \A q \in data'.exists : data'.gc_destroyed[q] = x.gc_destroyed[q]
        /\ \A q \in data.exists : q \in ToSet(prequeue) => q \in data'.exists
    BY <1>3, <1>5, CollectedIs
  <2>2. data.exists \subseteq Refs
    BY StateNow
  <2>3. \A q \in data'.exists : q \in owed \/ q \in ToSet(prequeue) =>
                                  data'.gc_destroyed[q] = data.gc_destroyed[q]
    BY <1>5, <2>1, <2>2
  <2> QED
    BY <1>2, <1>5, <2>1, <2>3, StillWaits, GameKeeps
<1>6. CASE NewDatum(r)
  <2>1. /\ r \notin data.exists /\ data' = [data EXCEPT !.exists = @ \cup {r}, !.held = @ \cup {r}]
        /\ prequeue' = prequeue /\ owed' = owed
    BY <1>6 DEF NewDatum
  <2>2. /\ data' \in Datums /\ data'.exists = data.exists \cup {r} /\ data'.held = data.held \cup {r}
        /\ data'.gc_destroyed = data.gc_destroyed
    BY <1>3, <2>1 DEF Datums
  <2>3. DatumsOK(data')
    BY <1>3, <2>2 DEF DatumsOK
  <2>4. PrequeueOK'
    BY <2>1, <2>2 DEF GarbageInv, PrequeueOK, Pending
  <2>5. owed' \subseteq data'.exists
    BY <1>3, <2>1, <2>2
  <2>6. \A q \in owed' : \/ data'.gc_destroyed[q] \in Pending /\ q \in ToSet(prequeue')
                         \/ data'.gc_destroyed[q] = data.gc_destroyed[q] /\ Queued(state0, q)
    BY <2>1, <2>2 DEF GarbageInv
  <2> QED
    BY <1>2, <2>3, <2>4, <2>5, <2>6, GameKeeps
<1>7. CASE Drop(r)
  <2> DEFINE x == [data EXCEPT !.held = @ \ {r}]
  <2>1. /\ x \in Datums /\ x.exists = data.exists /\ x.held = data.held \ {r}
        /\ x.gc_destroyed = data.gc_destroyed
    BY <1>3 DEF Datums
  <2>2. data' = collected(x, prequeue) /\ owed' = owed \cap data'.exists /\ prequeue' = prequeue
    BY <1>7 DEF Drop
  <2> HIDE DEF x
  <2>3. DatumsOK(x)
    BY <1>3, <2>1 DEF DatumsOK
  <2> QED
    BY <1>5, <2>1, <2>2, <2>3
<1>8. ASSUME NEW as \in -4..MaxGcTime, r \in data.exists,
             data' = [data EXCEPT !.gc_destroyed[r] = as]
      PROVE  /\ DatumsOK(data') /\ data'.exists = data.exists /\ data'.gc_destroyed[r] = as
             /\ \A q \in Refs \ {r} : data'.gc_destroyed[q] = data.gc_destroyed[q]
  <2>1. /\ data' \in Datums /\ data'.exists = data.exists /\ data'.held = data.held
        /\ data'.gc_destroyed[r] = as
        /\ \A q \in Refs \ {r} : data'.gc_destroyed[q] = data.gc_destroyed[q]
    BY <1>3, <1>8 DEF Datums
  <2> QED
    BY <1>3, <1>8, <2>1 DEF DatumsOK
<1>9. CASE qdelBegins(r)
  <2>1. /\ r \in data.exists /\ data.gc_destroyed[r] = NotDestroyed
        /\ data' = [data EXCEPT !.gc_destroyed[r] = BEING_QDELETED]
        /\ prequeue' = prequeue /\ owed' = owed
    BY <1>3, <1>9 DEF qdelBegins
  <2>2. r \notin owed /\ r \notin ToSet(prequeue)
    BY <2>1, NotWaiting
  <2>3. BEING_QDELETED \in -4..MaxGcTime
    BY <1>3, TimesAre
  <2>4. /\ DatumsOK(data') /\ data'.exists = data.exists
        /\ \A q \in Refs \ {r} : data'.gc_destroyed[q] = data.gc_destroyed[q]
    BY <1>8, <2>1, <2>3
  <2>5. \A q \in data'.exists : q \in owed \/ q \in ToSet(prequeue) =>
                                  data'.gc_destroyed[q] = data.gc_destroyed[q]
    BY <2>2, <2>4, StateNow
  <2>6. owed' = owed \cap data'.exists
    BY <1>3, <2>1, <2>4
  <2> QED
    BY <1>2, <2>1, <2>4, <2>5, <2>6, StillWaits, GameKeeps
<1>10. CASE hinted(r)
  <2>1. r \in data.exists /\ data.gc_destroyed[r] = BEING_QDELETED
    BY <1>10 DEF hinted
  <2>2. r \notin owed /\ r \notin ToSet(prequeue)
    BY <2>1, NotWaiting
  <2>3. ASSUME NEW as \in Pending, putInPrequeue(r, as) PROVE GarbageInv'
    <3>1. /\ prequeue' = Append(prequeue, r) /\ owed' = owed \cup {r}
          /\ data' = [data EXCEPT !.gc_destroyed[r] = as]
      BY <2>3 DEF putInPrequeue
    <3>2. as \in -4..MaxGcTime
      BY <1>3, TimesAre
    <3>3. /\ DatumsOK(data') /\ data'.exists = data.exists /\ data'.gc_destroyed[r] = as
          /\ \A q \in Refs \ {r} : data'.gc_destroyed[q] = data.gc_destroyed[q]
      BY <1>8, <2>1, <3>1, <3>2
    <3>4. /\ prequeue \in Seq(Refs) /\ Len(prequeue) \in Nat /\ DOMAIN prequeue = 1..Len(prequeue)
          /\ prequeue' \in Seq(Refs) /\ DOMAIN prequeue' = 1..(Len(prequeue) + 1)
          /\ \A i \in 1..Len(prequeue) : prequeue'[i] = prequeue[i]
          /\ prequeue'[Len(prequeue) + 1] = r
      BY <3>1, StateNow
    <3>5. \A i \in DOMAIN prequeue : prequeue[i] # r /\ prequeue[i] \in Refs
      BY <2>2, <3>4 DEF ToSet
    <3>6. ASSUME NEW i \in DOMAIN prequeue'
          PROVE  prequeue'[i] \in data'.exists /\ data'.gc_destroyed[prequeue'[i]] \in Pending
      <4>1. CASE i = Len(prequeue) + 1
        BY <2>1, <3>3, <3>4, <4>1
      <4>2. CASE i # Len(prequeue) + 1
        <5>1. i \in DOMAIN prequeue /\ prequeue'[i] = prequeue[i]
          BY <3>4, <4>2
        <5> QED
          BY <3>3, <3>5, <5>1 DEF GarbageInv, PrequeueOK
      <4> QED
        BY <4>1, <4>2
    <3>7. \A i, j \in DOMAIN prequeue' : prequeue'[i] = prequeue'[j] => i = j
      <4>1. \A i, j \in DOMAIN prequeue : prequeue[i] = prequeue[j] => i = j
        BY DEF GarbageInv, PrequeueOK
      <4> QED
        BY <3>4, <3>5, <4>1
    <3>8. PrequeueOK'
      BY <3>4, <3>6, <3>7 DEF PrequeueOK, Pending
    <3>9. /\ r \in ToSet(prequeue') /\ \A q \in ToSet(prequeue) : q \in ToSet(prequeue')
      BY <3>4 DEF ToSet
    <3>10. owed \subseteq Refs
      BY <1>3, StateNow
    <3>11. \A q \in owed' : \/ data'.gc_destroyed[q] \in Pending /\ q \in ToSet(prequeue')
                            \/ data'.gc_destroyed[q] = data.gc_destroyed[q] /\ Queued(state0, q)
      BY <2>2, <3>1, <3>3, <3>9, <3>10 DEF GarbageInv
    <3>12. owed' \subseteq data'.exists
      BY <1>3, <2>1, <3>1, <3>3
    <3> QED
      BY <1>2, <3>3, <3>8, <3>11, <3>12, GameKeeps
  <2>4. CASE data' = gone(data, r) /\ owed' = owed \cap data'.exists /\ prequeue' = prequeue
    <3>1. /\ DatumsOK(data') /\ data'.exists = data.exists \ {r}
          /\ \A q \in Refs \ {r} : data'.gc_destroyed[q] = data.gc_destroyed[q]
      BY <1>3, <2>4, GoneIs
    <3>2. \A q \in data'.exists : data'.gc_destroyed[q] = data.gc_destroyed[q]
      BY <3>1, StateNow
    <3>4. \A q \in ToSet(prequeue) : q \in data'.exists
      BY <1>4, <2>2, <3>1
    <3> QED
      BY <1>2, <2>4, <3>1, <3>2, <3>4, StillWaits, GameKeeps
  <2>5. ASSUME NEW as \in {gcTime, NotDestroyed}, owed' = owed \cap data'.exists, prequeue' = prequeue,
               data' = collected([data EXCEPT !.gc_destroyed[r] = as], prequeue)
        PROVE  GarbageInv'
    <3> DEFINE x == [data EXCEPT !.gc_destroyed[r] = as]
    <3>0. as \in -4..MaxGcTime
      BY <1>3, TimesAre
    <3>1. /\ x \in Datums /\ x.exists = data.exists /\ x.held = data.held
          /\ \A q \in Refs \ {r} : x.gc_destroyed[q] = data.gc_destroyed[q]
      BY <1>3, <3>0 DEF Datums
    <3>2. data' = collected(x, prequeue)
      BY <2>5
    <3> HIDE DEF x
    <3>3. DatumsOK(x)
      BY <1>3, <2>1, <3>1 DEF DatumsOK
    <3> QED
      BY <1>5, <2>2, <2>5, <3>1, <3>2, <3>3
  <2> QED
    BY <1>10, <2>3, <2>4, <2>5 DEF hinted, Pending
<1> QED
  BY <1>1, <1>6, <1>7, <1>9, <1>10


LEMMA GarbageStart == GarbageInit => GarbageInv
<1> SUFFICES ASSUME GarbageInit PROVE GarbageInv
  OBVIOUS
<1>1. /\ gcTime = 1 /\ fired = FALSE /\ gcStep = "idle" /\ prequeue = <<>> /\ owed = {}
      /\ queues = [l \in Levels |-> <<>>]
      /\ data = [exists |-> {}, held |-> {}, gc_destroyed |-> [r \in Refs |-> NotDestroyed]]
  BY DEF GarbageInit
<1>2. gcTime \in 1..MaxGcTime /\ NotDestroyed \in -4..MaxGcTime
  BY <1>1, GarbageAssumption DEF NotDestroyed
<1>3. /\ data \in Datums /\ data.exists = {} /\ data.held = {}
      /\ \A r \in Refs : data.gc_destroyed[r] = NotDestroyed
  BY <1>1, <1>2 DEF Datums
<1>4. DatumsOK(data)
  BY <1>3 DEF DatumsOK
<1>5. /\ queues \in [Levels -> Seq(Entries)] /\ \A l \in Levels : queues[l] = <<>>
      /\ <<>> \in Seq(Entries) /\ <<>> \in Seq(Refs) /\ DOMAIN <<>> = {}
  BY <1>1
<1>6. \A l \in Levels : InOrder(queues[l])
  BY <1>5 DEF InOrder
<1>7. state0.data = data /\ state0.queues = queues /\ state0 \in [data: Datums, queues: [Levels -> Seq(Entries)]]
  BY <1>3, <1>5 DEF state0
<1>8. StateOK(state0)
  BY <1>4, <1>6, <1>7 DEF StateOK
<1>9. PrequeueOK
  BY <1>1, <1>5 DEF PrequeueOK
<1> QED
  BY <1>1, <1>2, <1>8, <1>9 DEF GarbageInv

LEMMA GcTimeKeeps ==
    ASSUME GarbageInv, GcTimePasses
    PROVE  GarbageInv'
<1>1. /\ gcTime < MaxGcTime /\ gcTime' = gcTime + 1 /\ fired' = FALSE
      /\ UNCHANGED <<gcStep, data, prequeue, queues, owed>>
  BY DEF GcTimePasses
<1>2. gcTime' \in 1..MaxGcTime /\ 1..gcTime \subseteq 1..gcTime'
  BY <1>1, GarbageAssumption DEF GarbageInv
<1>3. Entries \subseteq Entries'
  BY <1>2 DEF Entries
<1>4. state0' = state0
  BY <1>1 DEF state0
<1>5. \A l \in Levels : queues[l] \in Seq(Entries')
  BY <1>3, StateNow
<1>6. \A l \in Levels : InOrder(queues[l])'
  BY <1>1, <1>5, StateNow DEF InOrder
<1>7. queues \in [Levels -> Seq(Entries')] /\ data \in Datums
  BY <1>5, StateNow
<1>8. state0 \in [data: Datums, queues: [Levels -> Seq(Entries')]]
  BY <1>7 DEF state0
<1>9. DatumsOK(data)' /\ Datums' = Datums
  BY <1>1, StateNow DEF DatumsOK, Datums
<1>10. StateOK(state0)'
  BY <1>1, <1>4, <1>6, <1>8, <1>9, StateNow DEF StateOK
<1>11. PrequeueOK'
  BY <1>1 DEF GarbageInv, PrequeueOK, Pending
<1>12. \A r \in owed : Queued(state0, r) => Queued(state0, r)'
  BY <1>4 DEF Queued, entryOf
<1> QED
  BY <1>1, <1>2, <1>10, <1>11, <1>12 DEF GarbageInv, Pending

LEMMA GarbageStep ==
    ASSUME GarbageInv, [GarbageNext]_gcVars
    PROVE  GarbageInv'
<1>1. CASE UNCHANGED gcVars
  <2>1. UNCHANGED <<gcTime, fired, gcStep, data, prequeue, queues, owed>>
    BY <1>1 DEF gcVars
  <2>2. state0' = state0 /\ [data |-> data', queues |-> queues'] = state0
    BY <2>1 DEF state0
  <2>3. StateOK(state0)'
    BY <2>1, <2>2, StateNow, StateNext
  <2>4. PrequeueOK'
    BY <2>1 DEF GarbageInv, PrequeueOK, Pending
  <2>5. \A r \in owed : Queued(state0, r) => Queued(state0, r)'
    BY <2>2 DEF Queued, entryOf
  <2> QED
    BY <2>1, <2>3, <2>4, <2>5 DEF GarbageInv, Pending
<1>2. CASE HandlePreQueue
  BY <1>2, PrequeueKeeps
<1>3. CASE GarbageGame
  BY <1>3, GarbageGameKeeps
<1>4. CASE GcTimePasses
  BY <1>4, GcTimeKeeps
<1>5. ASSUME NEW level \in Levels, HandleQueue(level) PROVE GarbageInv'
  BY <1>5, QueueKeeps
<1> QED
  BY <1>1, <1>2, <1>3, <1>4, <1>5 DEF GarbageNext

LEMMA WaitingKept == GarbageInv => GarbageTypeOK /\ NoneForgotten /\ QueuesOrdered
<1> SUFFICES ASSUME GarbageInv PROVE GarbageTypeOK /\ NoneForgotten /\ QueuesOrdered
  OBVIOUS
<1>1. GarbageTypeOK
  <2>1. 1..gcTime \subseteq 1..MaxGcTime
    BY StateNow, TimesAre
  <2>2. Entries \subseteq [ref: Refs, time: 1..MaxGcTime]
    BY <2>1 DEF Entries
  <2>3. queues \in [Levels -> Seq([ref: Refs, time: 1..MaxGcTime])]
    <3>1. \A l \in Levels : queues[l] \in Seq([ref: Refs, time: 1..MaxGcTime])
      <4> DEFINE E == [ref: Refs, time: 1..MaxGcTime]
      <4> SUFFICES ASSUME NEW l \in Levels PROVE queues[l] \in Seq(E)
        OBVIOUS
      <4>1. queues[l] \in Seq(Entries) /\ Entries \subseteq E
        BY <2>2, StateNow
      <4> HIDE DEF E
      <4> QED
        BY <4>1
    <3> QED
      BY <3>1, StateNow
  <2> QED
    BY <2>3, StateNow DEF GarbageTypeOK, GarbageInv, Datums
<1>2. NoneForgotten
  <2> SUFFICES ASSUME NEW r \in owed
               PROVE  IF data.gc_destroyed[r] \in Pending
                      THEN Cardinality({i \in DOMAIN prequeue : prequeue[i] = r}) = 1
                      ELSE \E l \in Levels : [ref |-> r, time |-> data.gc_destroyed[r]] \in ToSet(queues[l])
    BY DEF NoneForgotten, Pending
  <2>1. \/ data.gc_destroyed[r] \in Pending /\ r \in ToSet(prequeue)
        \/ Queued(state0, r)
    BY DEF GarbageInv
  <2>2. CASE data.gc_destroyed[r] \in Pending /\ r \in ToSet(prequeue)
    <3>1. PICK i \in DOMAIN prequeue : prequeue[i] = r
      BY <2>2 DEF ToSet
    <3>2. {j \in DOMAIN prequeue : prequeue[j] = r} = {i}
      BY <3>1 DEF GarbageInv, PrequeueOK
    <3> QED
      BY <2>2, <3>2, FS_Singleton
  <2>3. CASE Queued(state0, r)
    <3>1. PICK l \in Levels : entryOf(data, r) \in ToSet(queues[l])
      BY <2>3, StateNow DEF Queued
    <3>2. data.gc_destroyed[r] \in 1..gcTime
      <4>1. \A i \in DOMAIN queues[l] : queues[l][i] \in Entries
        BY StateNow
      <4>2. entryOf(data, r) \in Entries
        BY <3>1, <4>1 DEF ToSet
      <4> QED
        BY <4>2 DEF Entries, entryOf
    <3>3. data.gc_destroyed[r] \notin Pending
      BY <3>2, StateNow, TimesAre
    <3> QED
      BY <3>1, <3>3 DEF entryOf
  <2> QED
    BY <2>1, <2>2, <2>3
<1>3. QueuesOrdered
  BY StateNow DEF QueuesOrdered, InOrder
<1> QED
  BY <1>1, <1>2, <1>3

\* Whatever else is created, referred to, dropped and destroyed, what was left to SSgarbage is
\* known to the prequeue or to a queue until it is no more, the queues are in order and
\* nothing is deleted that was not destroyed (PreQueue(), Queue(), HandleQueue()).
THEOREM GarbageKeptHolds == GarbageSpec => GarbageKept
<1>1. GarbageInit => GarbageInv
  BY GarbageStart
<1>2. GarbageInv /\ [GarbageNext]_gcVars => GarbageInv'
  BY GarbageStep
<1>3. GarbageInv => GarbageTypeOK /\ NoneForgotten /\ QueuesOrdered
  BY WaitingKept
<1>4. GarbageInv => [HandleQueue("hard") => \A r \in data.exists \ data'.exists : data.gc_destroyed[r] > 0]_gcVars
  BY QueueKeeps DEF Levels
<1> QED
  BY <1>1, <1>2, <1>3, <1>4, PTL DEF GarbageSpec, GarbageKept, DeletesDestroyed

\* The garbage of the server is kept, whatever the other subsystems do.
THEOREM ServerKeepsGarbage == ServerSpec => GarbageKept
<1>1. ServerInit => GarbageInit
  BY DEF ServerInit
<1>2. [ServerNext]_serverVars => [GarbageNext]_gcVars
  BY DEF ServerNext, serverVars
<1>3. (GarbageInit /\ [][GarbageNext]_gcVars) => GarbageKept
  BY GarbageKeptHolds DEF GarbageSpec
<1> QED
  BY <1>1, <1>2, <1>3, PTL DEF ServerSpec

\* The same of the timers of the server, whatever the other subsystems do.
THEOREM ServerRunsTimers == ServerSpec => []BucketsHold /\ TimersRun
<1>1. ServerInit => TimerInit
  BY DEF ServerInit
<1>2. [ServerNext]_serverVars => [TimerNext]_timeVars
  BY DEF ServerNext, serverVars
<1>3. (TimerSpec => []BucketsHold) /\ (TimerSpec => TimersRun)
  BY BucketsHoldHolds, TimersRunHolds
<1>4. ServerSpec => TimerSpec
  BY <1>1, <1>2, PTL DEF ServerSpec, TimerSpec
<1> QED
  BY <1>3, <1>4
==============================================================================
