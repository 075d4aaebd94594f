------------------------------ MODULE Garbage ------------------------------
(***************************************************************************)
(* qdel() and SSgarbage (code/controllers/subsystems/garbage.dm).          *)
(*                                                                         *)
(* A datum that was destroyed waits in the prequeue, which still refers to *)
(* it, and then in two queues that know only its reference: if it is still *)
(* there after the first, it waits in the second and is deleted.  One that *)
(* nothing refers to is gone at once, and its reference may be another's.  *)
(*                                                                         *)
(* The unit of time is the wait of the subsystem.                          *)
(***************************************************************************)
EXTENDS Integers, SequencesExt

CONSTANTS
    Refs,
    collection_timeout,  \* of the check queue and of the one for hard deletes
    MaxGcTime            \* bound: world.time

ASSUME GarbageAssumption == collection_timeout \in [{"check", "hard"} -> Nat] /\ MaxGcTime \in Nat \ {0}

VARIABLES
    gcTime,
    fired,               \* in this unit of time
    gcStep,              \* the queue fire() is at
    data,                \* what exists, what is referred to from outside of the prequeue,
                         \* and gc_destroyed
    prequeue, queues,
    owed                 \* history: what is destroyed and not its own to collect

gcVars == <<gcTime, fired, gcStep, data, prequeue, queues, owed>>

Levels == {"check", "hard"}

QUEUED_FOR_QUEUING == -1
QUEUED_FOR_HARD_DEL == -2
BEING_QDELETED == -3
NotDestroyed == -4

GarbageTypeOK ==
    /\ gcTime \in 1..MaxGcTime /\ fired \in BOOLEAN
    /\ gcStep \in {"idle"} \cup Levels
    /\ data \in [exists: SUBSET Refs, held: SUBSET Refs, gc_destroyed: [Refs -> -4..MaxGcTime]]
    /\ data.held \subseteq data.exists
    /\ prequeue \in Seq(Refs)
    /\ queues \in [Levels -> Seq([ref: Refs, time: 1..MaxGcTime])]
    /\ owed \subseteq data.exists

GarbageInit ==
    /\ gcTime = 1 /\ fired = FALSE /\ gcStep = "idle"
    /\ data = [exists |-> {}, held |-> {}, gc_destroyed |-> [r \in Refs |-> NotDestroyed]]
    /\ prequeue = <<>> /\ queues = [l \in Levels |-> <<>>]
    /\ owed = {}
-----------------------------------------------------------------------------
\* The datum at r is no more.
gone(d, r) ==
    [d EXCEPT !.exists = @ \ {r}, !.held = @ \ {r}, !.gc_destroyed[r] = NotDestroyed]

\* What is left when nothing but held and the list refers to data.
collected(d, list) ==
    LET loose == {r \in d.exists : /\ r \notin d.held \cup ToSet(list)
                                   /\ d.gc_destroyed[r] # BEING_QDELETED}
    IN  [exists |-> d.exists \ loose, held |-> d.held,
         gc_destroyed |-> [r \in Refs |-> IF r \in loose THEN NotDestroyed
                                          ELSE d.gc_destroyed[r]]]

\* "queue -= refid"
unlisted(q, r) ==
    IF \E i \in DOMAIN q : q[i].ref = r
    THEN RemoveAt(q, CHOOSE i \in DOMAIN q : q[i].ref = r)
    ELSE q

\* Queue(): r comes to the end of the queue, where an earlier datum may have been.
Queue(s, r, level) ==
    LET l == IF s.data.gc_destroyed[r] = QUEUED_FOR_HARD_DEL THEN "hard" ELSE level
    IN  [data |-> [s.data EXCEPT !.gc_destroyed[r] = gcTime],
         queues |-> [s.queues EXCEPT ![l] = Append(unlisted(@, r), [ref |-> r, time |-> gcTime])]]

state0 == [data |-> data, queues |-> queues]

\* After the first k of the prequeue.
prequeued(k) ==
    LET s[n \in 0..k] == IF n = 0 THEN state0 ELSE Queue(s[n - 1], prequeue[n], "check")
    IN  s[k]

\* MC_TICK_CHECK after each: k of n are handled before the tick is over, or all.
Handled(k, n, next) ==
    /\ k \in 0..n /\ (n > 0 => k > 0)
    /\ \/ k = n /\ gcStep' = next
       \/ k > 0 /\ gcStep' = "idle"

\* fire() begins with the prequeue, wherever it was when the tick was over.
HandlePreQueue ==
    /\ gcStep = "idle" /\ ~fired
    /\ fired' = TRUE
    /\ \E k \in 0..Len(prequeue) :
         LET s == prequeued(k)
         IN  /\ Handled(k, Len(prequeue), "check")
             /\ prequeue' = SubSeq(prequeue, k + 1, Len(prequeue))
             /\ data' = collected(s.data, prequeue')
             /\ queues' = s.queues
    /\ owed' = owed \cap data'.exists
    /\ UNCHANGED gcTime

\* Bug: whatever has the reference is taken for the datum that was queued.
isIt_by_ref(s, e) == e.ref \in s.data.exists

\* "So if something else coincidently gets the same ref, it's not deleted by mistake"
isIt(s, e) == e.ref \in s.data.exists /\ s.data.gc_destroyed[e.ref] = e.time

failed(s, e, level) ==
    IF ~isIt(s, e) THEN s
    ELSE IF level = "check" THEN Queue(s, e.ref, "hard")
    ELSE [s EXCEPT !.data = gone(@, e.ref)]

\* After the first k of a queue.
handled(level, k) ==
    LET s[n \in 0..k] == IF n = 0 THEN state0 ELSE failed(s[n - 1], queues[level][n], level)
    IN  s[k]

\* HandleQueue(): "Everything else is newer, skip them".
HandleQueue(level) ==
    LET q      == queues[level]
        old(i) == q[i].time <= gcTime - collection_timeout[level]
        due    == Cardinality({i \in DOMAIN q : \A j \in 1..i : old(j)})
    IN  /\ gcStep = level
        /\ \E k \in 0..due :
             LET s == handled(level, k)
             IN  /\ Handled(k, due, IF level = "check" THEN "hard" ELSE "idle")
                 /\ data' = s.data
                 /\ queues' = [s.queues EXCEPT ![level] = SubSeq(@, k + 1, Len(@))]
        /\ owed' = owed \cap data'.exists
        /\ UNCHANGED <<gcTime, fired, prequeue>>
-----------------------------------------------------------------------------
(* The rest of the game *)

NewDatum(r) ==
    /\ r \notin data.exists
    /\ data' = [data EXCEPT !.exists = @ \cup {r}, !.held = @ \cup {r}]
    /\ UNCHANGED <<prequeue, owed>>

\* The last reference goes.
Drop(r) ==
    /\ r \in data.held
    /\ data' = collected([data EXCEPT !.held = @ \ {r}], prequeue)
    /\ owed' = owed \cap data'.exists
    /\ UNCHANGED prequeue

\* Destroy(), which may sleep, begins; only for a datum that was not destroyed.
qdelBegins(r) ==
    /\ r \in data.held /\ data.gc_destroyed[r] = NotDestroyed
    /\ data' = [data EXCEPT !.gc_destroyed[r] = BEING_QDELETED]
    /\ UNCHANGED <<prequeue, owed>>

\* PreQueue() and HardQueue()
putInPrequeue(r, as) ==
    /\ prequeue' = Append(prequeue, r)
    /\ data' = [data EXCEPT !.gc_destroyed[r] = as]
    /\ owed' = owed \cup {r}

\* What Destroy() returned.
hinted(r) ==
    /\ r \in data.exists /\ data.gc_destroyed[r] = BEING_QDELETED
    /\ \/ putInPrequeue(r, QUEUED_FOR_QUEUING)           \* QUEUE, or LETMELIVE by force
       \/ putInPrequeue(r, QUEUED_FOR_HARD_DEL)          \* HARDDEL
       \/ /\ \/ data' = gone(data, r)                    \* HARDDEL_NOW
             \/ \E as \in {gcTime, NotDestroyed} :       \* IWILLGC, LETMELIVE
                  data' = collected([data EXCEPT !.gc_destroyed[r] = as], prequeue)
          /\ owed' = owed \cap data'.exists
          /\ UNCHANGED prequeue

GarbageGame ==
    /\ gcStep = "idle"
    /\ \E r \in Refs : NewDatum(r) \/ Drop(r) \/ qdelBegins(r) \/ hinted(r)
    /\ UNCHANGED <<gcTime, fired, gcStep, queues>>

GcTimePasses ==
    /\ gcStep = "idle" /\ gcTime < MaxGcTime
    /\ gcTime' = gcTime + 1 /\ fired' = FALSE
    /\ UNCHANGED <<gcStep, data, prequeue, queues, owed>>

GarbageNext ==
    \/ HandlePreQueue \/ GarbageGame \/ GcTimePasses
    \/ \E level \in Levels : HandleQueue(level)
GarbageSpec == GarbageInit /\ [][GarbageNext]_gcVars
-----------------------------------------------------------------------------
(* Properties *)

\* What was destroyed and left to SSgarbage, and is still there, is in the prequeue or in a
\* queue under the time it is known by: nothing is forgotten, whatever its reference was
\* before (PreQueue(), Queue(), HandleQueue()).
NoneForgotten ==
    \A r \in owed :
      IF data.gc_destroyed[r] \in {QUEUED_FOR_QUEUING, QUEUED_FOR_HARD_DEL}
      THEN Cardinality({i \in DOMAIN prequeue : prequeue[i] = r}) = 1
      ELSE \E l \in Levels : [ref |-> r, time |-> data.gc_destroyed[r]] \in ToSet(queues[l])

\* HandleQueue() may stop at the first entry that is too new, and none is there twice.
QueuesOrdered ==
    \A l \in Levels : \A i, j \in DOMAIN queues[l] :
      i < j => /\ queues[l][i].time <= queues[l][j].time
               /\ queues[l][i].ref # queues[l][j].ref

\* The queues delete what was destroyed, never what has only got its reference.
DeletesDestroyed ==
    [][HandleQueue("hard") => \A r \in data.exists \ data'.exists : data.gc_destroyed[r] > 0]_gcVars

GarbageKept == [](GarbageTypeOK /\ NoneForgotten /\ QueuesOrdered) /\ DeletesDestroyed
=============================================================================
