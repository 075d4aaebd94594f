--------------------------- MODULE TimerSubsystem ---------------------------
(***************************************************************************)
(* SStimer (code/controllers/subsystems/timer.dm): the timers of addtimer(). *)
(*                                                                         *)
(* A timer that runs within the next BUCKET_LEN ticks is in the bucket of  *)
(* its tick, a ring of links that bucket_list knows the first of; the rest *)
(* is in processing until shift_buckets().  fire() goes through the ring   *)
(* with statics that outlive a pause.  Between two of its timers, in a     *)
(* callback or in a pause, others are added and deleted; those that ran    *)
(* are deleted together when fire() comes to its end.                      *)
(*                                                                         *)
(* A tick is the unit of time.  Timers of the client's time are left out:  *)
(* nothing asks for one.                                                   *)
(***************************************************************************)
EXTENDS Integers, SequencesExt

CONSTANTS
    BUCKET_LEN,
    Waits,
    Hashes,              \* of unique timers, one for a callback and a wait: the waits
                         \* that the callback with unique timers is given
    MaxTimedEvents,      \* bound: timers made
    MaxTime              \* bound: world.time

ASSUME TimerAssumption ==
    /\ BUCKET_LEN \in Nat \ {0} /\ Waits \subseteq Nat /\ Hashes \subseteq Waits
    /\ MaxTimedEvents \in Nat /\ MaxTime \in Nat

VARIABLES
    worldTime,
    ss,                  \* the subsystem and the timers
    firing,              \* where fire() is
    timer, head,         \* its static variables
    spent,               \* and its static list
    late                 \* history: a tick was over as soon as fire() resumed in a bucket

timeVars == <<worldTime, ss, firing, timer, head, spent, late>>

Ids == 1..MaxTimedEvents
None == 0
Null == -1

\* A timer that is deleted has no callback.
SubsystemState ==
    [made: 0..MaxTimedEvents, timeToRun: [Ids -> Nat], hash: [Ids -> Hashes \cup {Null}],
     callBack: SUBSET Ids, hasSpent: SUBSET Ids,
     next: [Ids -> Ids \cup {None}], prev: [Ids -> Ids \cup {None}],
     bucket_list: Seq(Ids \cup {None}), processing: Seq(Ids),
     hashes: [Hashes -> Ids \cup {None}],
     head_offset: Nat, practical_offset: Nat, resolution: BOOLEAN]

TimerTypeOK ==
    /\ worldTime \in 0..MaxTime
    /\ ss \in SubsystemState
    /\ firing \in {"idle", "while", "do", "callback", "paused"}
    /\ timer \in Ids \cup {None} /\ head \in Ids \cup {None}
    /\ spent \in Seq(Ids) /\ late \in BOOLEAN

TimerInit ==
    /\ worldTime = 0
    /\ ss = [made |-> 0, timeToRun |-> [x \in Ids |-> 0], hash |-> [x \in Ids |-> Null],
             callBack |-> {}, hasSpent |-> {},
             next |-> [x \in Ids |-> None], prev |-> [x \in Ids |-> None],
             bucket_list |-> <<>>, processing |-> <<>>,
             hashes |-> [h \in Hashes |-> None],
             head_offset |-> 0, practical_offset |-> 0, resolution |-> FALSE]
    /\ firing = "idle" /\ timer = None /\ head = None /\ spent = <<>> /\ late = FALSE
-----------------------------------------------------------------------------
(* Rings *)

BUCKET_POS(s, x) == s.timeToRun[x] - s.head_offset + 1

\* x comes to the end of the ring of its bucket.
linked(s, x) ==
    LET pos   == BUCKET_POS(s, x)
        first == s.bucket_list[pos]
        last  == IF s.prev[first] = None THEN first ELSE s.prev[first]
    IN  IF first = None
        THEN [s EXCEPT !.bucket_list[pos] = x, !.next[x] = None, !.prev[x] = None]
        ELSE [s EXCEPT !.next[x] = first, !.prev[x] = last,
                       !.next[last] = x, !.prev[first] = x]

\* The timers from `first' on, n links further.
after(s, first) ==
    LET it[n \in 0..MaxTimedEvents] ==
          IF n = 0 THEN first ELSE IF it[n - 1] = None THEN None ELSE s.next[it[n - 1]]
    IN  it

\* Those of its ring in order, which are no more than there are timers.
ring(s, first) ==
    LET it   == after(s, first)
        ends == {n \in Ids : it[n] \in {None, first} \/ n = MaxTimedEvents}
    IN  IF first = None THEN <<>>
        ELSE [i \in 1..(CHOOSE n \in ends : \A m \in ends : n <= m) |-> it[i - 1]]

\* Destroy() of one that did not run closes the gap, and a ring of two; of one that did,
\* only where the links are still its own.
unlinked(s, x) ==
    LET n    == s.next[x]
        p    == s.prev[x]
        live == x \notin s.hasSpent
    IN  [s EXCEPT
          !.next = [y \in Ids |-> CASE y = x -> None
                                    [] y # x /\ y = p /\ (live \/ s.next[y] = x) ->
                                         IF live /\ p = n THEN None ELSE n
                                    [] OTHER -> s.next[y]],
          !.prev = [y \in Ids |-> CASE y = x -> None
                                    [] y # x /\ y = n /\ (live \/ s.prev[y] = x) ->
                                         IF live /\ p = n THEN None ELSE p
                                    [] OTHER -> s.prev[y]]]

\* Bug: a bucket keeps its first timer.
outOfBucket_kept(s, x) == s.bucket_list

outOfBucket(s, x) ==
    [b \in DOMAIN s.bucket_list |->
       IF b = BUCKET_POS(s, x) /\ s.bucket_list[b] = x THEN s.next[x] ELSE s.bucket_list[b]]

\* "processing -= src"
unprocessed(q, x) ==
    IF \E i \in DOMAIN q : q[i] = x THEN RemoveAt(q, CHOOSE i \in DOMAIN q : q[i] = x) ELSE q

\* qdel() of a timer; it is deleted once.
destroyed(s, x) ==
    IF x \notin s.callBack THEN s
    ELSE [unlinked(s, x) EXCEPT
           !.callBack = @ \ {x},
           !.hashes = [h \in Hashes |-> IF h = s.hash[x] THEN None ELSE @[h]],
           !.bucket_list = IF x \in s.hasSpent THEN @ ELSE outOfBucket(s, x),
           !.processing = IF x \in s.hasSpent \/ BUCKET_POS(s, x) \in DOMAIN s.bucket_list
                          THEN @ ELSE unprocessed(@, x)]

\* All timers of xs are deleted.
allDestroyed(s, xs) ==
    LET t[n \in 0..Len(xs)] == IF n = 0 THEN s ELSE destroyed(t[n - 1], xs[n])
    IN  t[Len(xs)]

\* The timers in the buckets.
inBuckets(s) ==
    LET l[p \in 0..Len(s.bucket_list)] ==
          IF p = 0 THEN <<>> ELSE l[p - 1] \o ring(s, s.bucket_list[p])
    IN  l[Len(s.bucket_list)]

\* The new place of a timer, if it is to run.
placed(s, x) ==
    IF BUCKET_POS(s, x) > BUCKET_LEN THEN [s EXCEPT !.processing = Append(@, x)]
    ELSE IF x \in s.callBack \ s.hasSpent THEN linked(s, x)
    ELSE s

\* Timers at the same time keep their order.
shift_buckets(s) ==
    LET alltimers == inBuckets(s) \o s.processing
        times     == {s.timeToRun[x] : x \in ToSet(alltimers)} \cup {worldTime}
        empty     == [s EXCEPT !.bucket_list = [p \in 1..BUCKET_LEN |-> None],
                               !.processing = <<>>,
                               !.practical_offset = 1,
                               !.resolution = TRUE,
                               !.head_offset = CHOOSE t \in times : \A u \in times : t <= u]
        t[n \in 0..Len(alltimers)] ==
          IF n = 0 THEN empty ELSE placed(t[n - 1], alltimers[n])
    IN  t[Len(alltimers)]
-----------------------------------------------------------------------------
(* fire() *)

TimerFire ==
    LET resumed == firing = "paused"
        shifts  == \/ ss.practical_offset > BUCKET_LEN
                   \/ ~resumed /\ Len(ss.bucket_list) # BUCKET_LEN
                   \/ ~ss.resolution
        afresh  == shifts \/ ~resumed
    IN  /\ firing \in {"idle", "paused"}
        /\ firing' = "while"
        /\ ss' = IF shifts THEN shift_buckets(ss) ELSE ss
        /\ timer' = IF afresh THEN None ELSE timer
        /\ head' = IF afresh THEN None ELSE head
        /\ UNCHANGED <<worldTime, spent, late>>

\* Bug: a tick is run while it has just begun.
DueEarly == /\ ss.practical_offset <= BUCKET_LEN
            /\ ss.head_offset + ss.practical_offset - 1 <= worldTime

Due == /\ ss.practical_offset <= BUCKET_LEN
       /\ ss.head_offset + ss.practical_offset <= worldTime

\* The end of fire(): those that ran are deleted.
ends(s) ==
    /\ ss' = allDestroyed(s, spent)
    /\ spent' = <<>>

\* The pause was in the middle of a bucket.
Midway == ss.bucket_list[ss.practical_offset] \in ss.hasSpent

\* Nothing is due, or the tick is over; that may be so as soon as fire() resumes.
TimerDone ==
    /\ firing = "while"
    /\ \/ ~Due /\ firing' = "idle" /\ UNCHANGED late
       \/ Due /\ firing' = "paused" /\ late' = (late \/ Midway)
    /\ ends(ss)
    /\ UNCHANGED <<worldTime, timer, head>>

\* Where fire() goes on: at a first timer, or where it was.
NextBucket ==
    LET first == ss.bucket_list[ss.practical_offset]
        old   == timer # None /\ head # None /\ timer # head
    IN  /\ firing = "while" /\ Due
        /\ IF old
           THEN firing' = "do" /\ UNCHANGED <<ss, timer, head, spent>>
           ELSE /\ head' = first
                /\ \/ /\ first # None
                      /\ firing' = "do" /\ timer' = first
                      /\ UNCHANGED <<ss, spent>>
                   \/ /\ first = None
                      /\ UNCHANGED timer
                      /\ LET s == [ss EXCEPT !.practical_offset = @ + 1]
                         IN  \/ firing' = "while" /\ ss' = s /\ UNCHANGED spent
                             \/ firing' = "paused" /\ ends(s)
        /\ UNCHANGED <<worldTime, late>>

\* The timer that is next was deleted in the pause: CRASH().
InvalidTimer ==
    /\ firing = "do" /\ timer \notin ss.callBack
    /\ ss' = [ss EXCEPT !.resolution = FALSE]
    /\ firing' = "idle"
    /\ UNCHANGED <<worldTime, timer, head, spent, late>>

\* callBack.InvokeAsync() begins.
RunTimer ==
    /\ firing = "do" /\ timer \in ss.callBack \ ss.hasSpent
    /\ spent' = Append(spent, timer)
    /\ ss' = [ss EXCEPT !.hasSpent = @ \cup {timer}]
    /\ firing' = "callback"
    /\ UNCHANGED <<worldTime, timer, head, late>>

\* The callback returns or sleeps, or the timer ran before: the next of the ring, or the
\* next bucket.
NextTimer ==
    LET n == ss.next[timer]
    IN  /\ firing = "callback" \/ (firing = "do" /\ timer \in ss.callBack \cap ss.hasSpent)
        /\ \/ firing' = "paused" /\ timer' = n /\ UNCHANGED ss
           \/ n \notin {None, head} /\ firing' = "do" /\ timer' = n /\ UNCHANGED ss
           \/ /\ n \in {None, head}
              /\ firing' \in {"while", "paused"} /\ timer' = None
              /\ ss' = [ss EXCEPT !.bucket_list[ss.practical_offset] = None,
                                  !.practical_offset = @ + 1]
        /\ UNCHANGED <<worldTime, head, spent, late>>
-----------------------------------------------------------------------------
(* The rest of the game *)

\* /datum/timedevent/New().
created(s, t, h) ==
    LET x    == s.made + 1
        new  == [s EXCEPT !.made = x, !.timeToRun[x] = t, !.hash[x] = h,
                          !.callBack = @ \cup {x},
                          !.hashes = [g \in Hashes |-> IF g = h THEN x ELSE @[g]]]
        pos  == BUCKET_POS(new, x)
        back == pos < s.practical_offset
    IN  IF pos > Len(s.bucket_list) THEN [new EXCEPT !.processing = Append(@, x)]
        ELSE [linked(new, x) EXCEPT
               !.practical_offset = IF back /\ s.bucket_list[pos] = None THEN pos ELSE @]

\* "It's pending deletion, pretend it doesn't exist."
forgotten(s, old) ==
    [s EXCEPT !.hash[old] = Null,
              !.hashes = [h \in Hashes |-> IF @[h] = old THEN None ELSE @[h]]]

addtimer(wait, h, override) ==
    LET old   == IF h = Null THEN None ELSE ss.hashes[h]
        waits == old # None /\ old \notin ss.hasSpent
    IN  /\ ss.made < MaxTimedEvents
        /\ waits => override
        /\ ss' = created(CASE old = None -> ss
                           [] old # None /\ ~waits -> forgotten(ss, old)
                           [] waits -> destroyed(ss, old), worldTime + wait, h)

\* deltimer(), or the object of the callback is deleted.
deltimer(x) ==
    /\ x \in ss.callBack \ ss.hasSpent
    /\ ss' = destroyed(ss, x)

TimerGame ==
    /\ firing \in {"idle", "callback", "paused"}
    /\ \/ \E wait \in Waits : addtimer(wait, Null, FALSE)
       \/ \E h \in Hashes, override \in BOOLEAN : addtimer(h, h, override)
       \/ \E x \in Ids : deltimer(x)
    /\ UNCHANGED <<worldTime, firing, timer, head, spent, late>>

TickPasses ==
    /\ firing \in {"idle", "paused"} /\ worldTime < MaxTime
    /\ worldTime' = worldTime + 1
    /\ UNCHANGED <<ss, firing, timer, head, spent, late>>

TimerStep == TimerFire \/ TimerDone \/ NextBucket \/ InvalidTimer \/ RunTimer \/ NextTimer
TimerNext == TimerStep \/ TimerGame \/ TickPasses
TimerSpec == TimerInit /\ [][TimerNext]_timeVars
-----------------------------------------------------------------------------
(* Properties *)

Waiting == ss.callBack \ ss.hasSpent

\* "each bucket holds every timer that has to run that byond tick" (bucket_list), and
\* processing those of later ticks: none that waits is lost, however timers are added and
\* deleted while a ring is walked.
BucketHoldsAll ==
    \A x \in Waiting :
      LET pos == BUCKET_POS(ss, x)
      IN  IF pos > Len(ss.bucket_list) THEN x \in ToSet(ss.processing)
          ELSE x \in ToSet(ring(ss, ss.bucket_list[pos]))

\* No bucket holds a timer that was deleted, and none that waits is in a bucket that
\* fire() has passed.
BucketsAreClean ==
    /\ \A b \in DOMAIN ss.bucket_list :
         ToSet(ring(ss, ss.bucket_list[b])) \subseteq ss.callBack
    /\ \A x \in Waiting : BUCKET_POS(ss, x) >= ss.practical_offset

\* A hash leads to the one timer that has it, until it is deleted.
HashesAgree ==
    \A x \in ss.callBack, h \in Hashes : ss.hash[x] = h <=> ss.hashes[h] = x

\* Each timer that waits is in its bucket or in processing, none that is deleted or passed is,
\* and hashes lead to their timers.  Buckets hold that until a tick was over as soon as
\* fire() resumed in the middle of one, which deletes the timer the bucket begins with.
BucketsHold == TimerTypeOK /\ HashesAgree /\ (late \/ (BucketHoldsAll /\ BucketsAreClean))

\* Timers run when their tick is over, in the order of their ticks and, for one tick, in
\* the order they were made (fire(), shift_buckets()).
RunsInOrder ==
    [][RunTimer => /\ ss.timeToRun[timer] < worldTime
                   /\ \A x \in Waiting :
                        \/ late
                        \/ ss.timeToRun[timer] < ss.timeToRun[x]
                        \/ ss.timeToRun[timer] = ss.timeToRun[x] /\ timer <= x]_timeVars

\* When fire() comes to its end without a pause, every timer whose tick is over has run,
\* unless fire() is through with its buckets and the timer was too late for them: the next
\* fire() shifts them.
RunsInTime ==
    [][(TimerDone /\ firing' = "idle") =>
         \A x \in Waiting :
           \/ late
           \/ ss.timeToRun[x] >= worldTime
           \/ ss.practical_offset > BUCKET_LEN /\ BUCKET_POS(ss, x) > BUCKET_LEN]_timeVars

\* No timer runs early; timers run in order and no fire() passes over what is due, until a
\* tick was over as soon as fire() resumed in the middle of a bucket.
TimersRun == RunsInOrder /\ RunsInTime
=============================================================================
