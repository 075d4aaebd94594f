----------------------------- MODULE TimerProofs -----------------------------
(***************************************************************************)
(* The rings of SStimer, for buckets, waits and timers of any number: each *)
(* timer that waits is where fire() comes to it, and runs in its turn.     *)
(* The states that TimerInv is about have the ring of each bucket in R,    *)
(* which next and prev only represent.                                     *)
(***************************************************************************)
EXTENDS TimerSubsystem, SequenceTheorems, FiniteSetTheorems, WellFoundedInduction, TLAPS

LEMMA LeastNat ==
    ASSUME NEW S \in SUBSET Nat, S # {}
    PROVE  \E x \in S : \A y \in S : x <= y
<1> DEFINE R == OpToRel(<, Nat)
<1>1. IsWellFoundedOn(R, Nat)
  BY NatLessThanWellFounded
<1>2. R = {pair \in Nat \X Nat : pair[1] < pair[2]}
  BY DEF OpToRel
<1> HIDE DEF R
<1>3. PICK x \in S : \A y \in S : <<y, x>> \notin R
  BY <1>1, WFMin
<1>4. \A y \in S : x <= y
  <2> SUFFICES ASSUME NEW y \in S PROVE x <= y
    OBVIOUS
  <2>1. <<y, x>> \in R <=> y < x
    BY <1>2
  <2> QED
    BY <1>3, <2>1
<1> QED
  BY <1>3, <1>4

LEMMA RemoveAtIs ==
    ASSUME NEW S, NEW s \in Seq(S), NEW i \in 1..Len(s)
    PROVE  /\ RemoveAt(s, i) \in Seq(S)
           /\ Len(RemoveAt(s, i)) = Len(s) - 1
           /\ \A j \in 1..Len(s) - 1 :
                RemoveAt(s, i)[j] = IF j < i THEN s[j] ELSE s[j + 1]
<1> DEFINE left == SubSeq(s, 1, i - 1)
           right == SubSeq(s, i + 1, Len(s))
<1>1. left \in Seq(S) /\ Len(left) = i - 1 /\ \A j \in 1..i - 1 : left[j] = s[j]
  OBVIOUS
<1>2. /\ right \in Seq(S) /\ Len(right) = Len(s) - i
      /\ \A j \in 1..Len(s) - i : right[j] = s[j + i]
  OBVIOUS
<1>3. RemoveAt(s, i) = left \o right BY DEF RemoveAt
<1> HIDE DEF left, right
<1>4. Len(s) \in Nat OBVIOUS
<1>5. /\ left \o right \in Seq(S)
      /\ Len(left \o right) = Len(left) + Len(right)
      /\ \A j \in 1..Len(left) + Len(right) :
           (left \o right)[j] = IF j <= Len(left) THEN left[j] ELSE right[j - Len(left)]
  BY <1>1, <1>2, ConcatProperties
<1>6. Len(left) + Len(right) = Len(s) - 1 BY <1>1, <1>2, <1>4
<1>7. ASSUME NEW j \in 1..Len(s) - 1
      PROVE  (left \o right)[j] = IF j < i THEN s[j] ELSE s[j + 1]
  <2>1. CASE j < i
    <3>1. j \in 1..i - 1 /\ j <= Len(left) BY <1>1, <2>1
    <3>2. QED BY <1>1, <1>5, <1>6, <2>1, <3>1
  <2>2. CASE ~(j < i)
    <3>1. j - (i - 1) \in 1..Len(s) - i /\ ~(j <= Len(left)) BY <1>1, <1>4, <2>2
    <3>2. (left \o right)[j] = right[j - (i - 1)] BY <1>1, <1>5, <1>6, <3>1
    <3>3. right[j - (i - 1)] = s[(j - (i - 1)) + i] BY <1>2, <3>1
    <3>4. (j - (i - 1)) + i = j + 1 BY <2>2
    <3>5. right[j - (i - 1)] = s[j + 1] BY ONLY <3>3, <3>4, Zenon
    <3>6. QED BY ONLY <2>2, <3>2, <3>5, Zenon
  <2>3. QED BY <2>1, <2>2
<1>8. QED BY <1>3, <1>5, <1>6, <1>7
----------------------------------------------------------------------------
(* Timers *)

Ascends(q) == \A i, j \in DOMAIN q : i < j => q[i] < q[j]

\* The links make q a ring from its first timer on, of which a bucket knows the first.
IsRing(s, q, first) ==
    /\ q \in Seq(Ids) /\ Ascends(q)
    /\ first = IF q = <<>> THEN None ELSE q[1]
    /\ \A i \in DOMAIN q :
         IF Len(q) = 1 THEN s.next[q[i]] = None /\ s.prev[q[i]] = None
         ELSE /\ s.next[q[i]] = q[IF i = Len(q) THEN 1 ELSE i + 1]
              /\ s.prev[q[i]] = q[IF i = 1 THEN Len(q) ELSE i - 1]

\* R has the ring of each bucket: of timers that are not deleted and run in its tick.
Rings(s, R) ==
    /\ R \in [DOMAIN s.bucket_list -> Seq(Ids)]
    /\ \A p \in DOMAIN R :
         /\ IsRing(s, R[p], s.bucket_list[p])
         /\ \A i \in DOMAIN R[p] : R[p][i] \in s.callBack /\ BUCKET_POS(s, R[p][i]) = p

WaitingIn(s) == s.callBack \ s.hasSpent

\* What processing has are the timers of later ticks, with no links.
LaterOK(s) ==
    /\ Ascends(s.processing)
    /\ \A i \in DOMAIN s.processing :
         LET x == s.processing[i]
         IN  /\ x \in WaitingIn(s) /\ BUCKET_POS(s, x) > Len(s.bucket_list)
             /\ s.next[x] = None /\ s.prev[x] = None

\* Each that waits is in its ring or among the later.
AllThere(s, R) ==
    \A x \in WaitingIn(s) :
      LET pos == BUCKET_POS(s, x)
      IN  /\ pos >= 1 /\ pos >= s.practical_offset
          /\ IF pos > Len(s.bucket_list) THEN x \in ToSet(s.processing) ELSE x \in ToSet(R[pos])

\* A hash leads to the one timer that has it.
HashesOK(s) ==
    /\ \A x \in s.callBack, h \in Hashes : s.hash[x] = h <=> s.hashes[h] = x
    /\ \A h \in Hashes : s.hashes[h] \in s.callBack \cup {None}

\* Those that ran are in one ring at most, in front: that of the bucket that fire() is at.
SpentInFront(s, R) ==
    \A p \in DOMAIN R : \A i \in DOMAIN R[p] :
      R[p][i] \in s.hasSpent =>
        /\ p = s.practical_offset /\ s.head_offset + p <= worldTime
        /\ \A j \in 1..i : R[p][j] \in s.hasSpent

TimersOK(s, R) ==
    /\ s \in SubsystemState
    /\ s.callBack \subseteq 1..s.made /\ s.hasSpent \subseteq 1..s.made
    /\ Len(s.bucket_list) \in {0, BUCKET_LEN}
    /\ Len(s.bucket_list) = BUCKET_LEN => s.practical_offset >= 1
    /\ s.head_offset <= worldTime /\ s.head_offset + s.practical_offset <= worldTime + 1
    /\ \A y \in Ids : y > s.made => s.next[y] = None /\ s.prev[y] = None
    /\ Rings(s, R) /\ LaterOK(s) /\ AllThere(s, R) /\ HashesOK(s) /\ SpentInFront(s, R)

NoneSpent(s, R) == \A p \in DOMAIN R : \A i \in DOMAIN R[p] : R[p][i] \notin s.hasSpent

\* All that comes before x in its ring has run; or x was deleted.
Reached(s, R, x) ==
    \/ x \notin s.callBack
    \/ \E i \in DOMAIN R[s.practical_offset] :
         /\ R[s.practical_offset][i] = x
         /\ \A j \in 1..(i - 1) : R[s.practical_offset][j] \in s.hasSpent

\* fire() is in the middle of a bucket: head is its first timer.
InBucket(s, R) ==
    /\ s.practical_offset \in DOMAIN R /\ s.head_offset + s.practical_offset <= worldTime
    /\ R[s.practical_offset] # <<>> /\ R[s.practical_offset][1] = head

\* Where fire() stands between two timers.
Stands(s, R) ==
    \/ NoneSpent(s, R) /\ (timer = None \/ head = None)
    \/ /\ InBucket(s, R) /\ head \in s.hasSpent
       /\ IF timer \in {None, head}
          THEN \A i \in DOMAIN R[s.practical_offset] : R[s.practical_offset][i] \in s.hasSpent
          ELSE Reached(s, R, timer)

FireOK(s, R) ==
    /\ timer \in 0..s.made
    /\ firing # "idle" => s.resolution /\ Len(s.bucket_list) = BUCKET_LEN
    /\ firing = "idle" => (s.resolution => NoneSpent(s, R))
    /\ firing \in {"while", "paused"} => Stands(s, R)
    /\ firing \in {"do", "callback"} => InBucket(s, R) /\ Reached(s, R, timer)
    /\ firing = "callback" => timer \in s.callBack \cap s.hasSpent

\* The inductive invariant.
TimerInv ==
    /\ worldTime \in 0..MaxTime
    /\ firing \in {"idle", "while", "do", "callback", "paused"}
    /\ timer \in Ids \cup {None} /\ head \in Ids \cup {None}
    /\ spent \in Seq(Ids) /\ \A i \in DOMAIN spent : spent[i] \in ss.hasSpent
    /\ \E R : TimersOK(ss, R) /\ FireOK(ss, R)

\* A ring is no longer than there are timers.
LEMMA AscendingLength ==
    ASSUME NEW q \in Seq(Ids), Ascends(q)
    PROVE  \A i \in DOMAIN q : i <= q[i] /\ q[i] <= MaxTimedEvents
<1> DEFINE bad == {i \in Nat : i \in DOMAIN q /\ ~(i <= q[i])}
<1>1. DOMAIN q = 1..Len(q) /\ Len(q) \in Nat /\ \A i \in DOMAIN q : q[i] \in Ids
  OBVIOUS
<1>2. \A i \in DOMAIN q : q[i] \in Nat /\ q[i] >= 1 /\ q[i] <= MaxTimedEvents
  BY <1>1, TimerAssumption DEF Ids
<1>3. bad = {}
  <2> SUFFICES ASSUME bad # {} PROVE FALSE
    OBVIOUS
  <2>1. PICK i \in bad : \A j \in bad : i <= j
    BY LeastNat
  <2>2. i \in DOMAIN q /\ q[i] < i /\ i > 1
    BY <1>1, <1>2
  <2>3. i - 1 \in DOMAIN q /\ i - 1 \notin bad /\ i - 1 \in Nat
    BY <1>1, <2>1, <2>2
  <2>4. i - 1 <= q[i - 1] /\ q[i - 1] < q[i]
    BY <2>2, <2>3 DEF Ascends
  <2> QED
    BY <1>1, <1>2, <2>2, <2>3, <2>4
<1> QED
  BY <1>1, <1>2, <1>3

\* What after(), ring() and the folds over timers do at a step.
nextIn(kind, s, xs, y, n) ==
    CASE kind = "after"   -> IF y = None THEN None ELSE s.next[y]
      [] kind = "destroy" -> destroyed(y, xs[n])
      [] kind = "collect" -> y \o ring(s, s.bucket_list[n])
      [] kind = "place"   -> placed(y, xs[n])

StepsIn(f, kind, s, xs, z, k) ==
    f = [n \in 0..k |-> IF n = 0 THEN z ELSE nextIn(kind, s, xs, f[n - 1], n)]

LEMMA StepsInExist ==
    ASSUME NEW kind, NEW s, NEW xs, NEW z, NEW k \in Nat
    PROVE  \E f : StepsIn(f, kind, s, xs, z, k)
<1> DEFINE bad == {n \in Nat : ~\E f : StepsIn(f, kind, s, xs, z, n)}
<1> SUFFICES ASSUME bad # {} PROVE FALSE
  OBVIOUS
<1>1. PICK n \in bad : \A y \in bad : n <= y
  BY LeastNat
<1>2. n # 0
  <2> DEFINE g == [i \in 0..0 |-> z]
  <2>1. g = [i \in 0..0 |-> IF i = 0 THEN z ELSE nextIn(kind, s, xs, g[i - 1], i)]
    OBVIOUS
  <2> HIDE DEF g
  <2> QED
    BY <1>1, <2>1 DEF StepsIn
<1>3. n \in Nat /\ n - 1 \in Nat /\ n - 1 \notin bad
  BY <1>1, <1>2
<1>4. PICK f : StepsIn(f, kind, s, xs, z, n - 1)
  BY <1>3
<1> DEFINE g == [i \in 0..n |-> IF i = n THEN nextIn(kind, s, xs, f[n - 1], n) ELSE f[i]]
<1>5. DOMAIN f = 0..(n - 1)
  BY <1>4 DEF StepsIn
<1>6. ASSUME NEW i \in 0..n
      PROVE  g[i] = IF i = 0 THEN z ELSE nextIn(kind, s, xs, g[i - 1], i)
  <2>1. CASE i = n
    BY <1>2, <1>3, <2>1
  <2>2. CASE i # n
    <3>1. i \in 0..(n - 1) /\ g[i] = f[i]
      BY <1>3, <2>2
    <3>2. f[i] = IF i = 0 THEN z ELSE nextIn(kind, s, xs, f[i - 1], i)
      BY <1>4, <3>1 DEF StepsIn
    <3>3. CASE i = 0
      BY <3>1, <3>2, <3>3
    <3>4. CASE i # 0
      <4>1. i - 1 \in 0..n /\ i - 1 # n /\ g[i - 1] = f[i - 1]
        BY <1>3, <3>1, <3>4
      <4> QED
        BY <3>1, <3>2, <3>4, <4>1
    <3> QED
      BY <3>3, <3>4
  <2> QED
    BY <2>1, <2>2
<1>7. g = [i \in 0..n |-> IF i = 0 THEN z ELSE nextIn(kind, s, xs, g[i - 1], i)]
  <2> DEFINE m == [i \in 0..n |-> IF i = 0 THEN z ELSE nextIn(kind, s, xs, g[i - 1], i)]
  <2>1. DOMAIN g = DOMAIN m /\ \A i \in 0..n : g[i] = m[i]
    BY <1>6
  <2>2. g = [i \in DOMAIN g |-> g[i]] /\ m = [i \in DOMAIN m |-> m[i]]
    OBVIOUS
  <2> HIDE DEF g, m
  <2>3. DOMAIN m = 0..n
    BY DEF m
  <2>4. g = m
    BY <2>1, <2>2, <2>3
  <2> QED
    BY <2>4 DEF m
<1>8. StepsIn(g, kind, s, xs, z, n)
  BY ONLY <1>7 DEF StepsIn
<1> QED
  BY <1>1, <1>8

LEMMA StepsAre ==
    ASSUME NEW f, NEW kind, NEW s, NEW xs, NEW z, NEW k \in Nat, StepsIn(f, kind, s, xs, z, k)
    PROVE  f[0] = z /\ \A n \in 1..k : f[n] = nextIn(kind, s, xs, f[n - 1], n)
<1>1. \A n \in 0..k : f[n] = IF n = 0 THEN z ELSE nextIn(kind, s, xs, f[n - 1], n)
  BY DEF StepsIn
<1> QED
  BY <1>1

\* The timers from the first on.
LEMMA AfterIs ==
    ASSUME NEW s, NEW first
    PROVE  /\ after(s, first)[0] = first
           /\ \A n \in 1..MaxTimedEvents :
                after(s, first)[n] = IF after(s, first)[n - 1] = None THEN None
                                     ELSE s.next[after(s, first)[n - 1]]
<1> DEFINE it == after(s, first)
<1>1. MaxTimedEvents \in Nat
  BY TimerAssumption
<1>2. PICK f : StepsIn(f, "after", s, <<>>, first, MaxTimedEvents)
  BY <1>1, StepsInExist
<1>3. f = [n \in 0..MaxTimedEvents |->
            IF n = 0 THEN first ELSE IF f[n - 1] = None THEN None ELSE s.next[f[n - 1]]]
  BY <1>2 DEF StepsIn, nextIn
<1>4. it = CHOOSE g : g = [n \in 0..MaxTimedEvents |->
            IF n = 0 THEN first ELSE IF g[n - 1] = None THEN None ELSE s.next[g[n - 1]]]
  BY DEF after
<1> HIDE DEF it
<1>5. it = [n \in 0..MaxTimedEvents |->
            IF n = 0 THEN first ELSE IF it[n - 1] = None THEN None ELSE s.next[it[n - 1]]]
  BY <1>3, <1>4
<1>6. \A n \in 0..MaxTimedEvents : it[n] =
        IF n = 0 THEN first ELSE IF it[n - 1] = None THEN None ELSE s.next[it[n - 1]]
  BY <1>5
<1>7. it[0] = first /\ \A n \in 1..MaxTimedEvents : it[n] = IF it[n - 1] = None THEN None ELSE s.next[it[n - 1]]
  BY <1>1, <1>6
<1> QED
  BY <1>7 DEF it

\* ring() finds the ring.
LEMMA RingIs ==
    ASSUME NEW s, NEW q, NEW first, IsRing(s, q, first)
    PROVE  ring(s, first) = q
<1>1. /\ q \in Seq(Ids) /\ Ascends(q) /\ DOMAIN q = 1..Len(q) /\ Len(q) \in Nat
      /\ \A i \in DOMAIN q : q[i] \in Ids /\ q[i] # None
      /\ first = IF q = <<>> THEN None ELSE q[1]
  <2>1. q \in Seq(Ids) /\ Ascends(q) /\ first = IF q = <<>> THEN None ELSE q[1]
    BY DEF IsRing
  <2>2. DOMAIN q = 1..Len(q) /\ Len(q) \in Nat /\ \A i \in DOMAIN q : q[i] \in Ids
    BY <2>1
  <2>3. None \notin Ids
    BY TimerAssumption DEF Ids, None
  <2> QED
    BY <2>1, <2>2, <2>3
<1>2. CASE q = <<>>
  <2>1. first = None
    BY <1>1, <1>2
  <2> QED
    BY <1>2, <2>1 DEF ring
<1>3. CASE q # <<>>
  <2> DEFINE it == after(s, first)
             L == Len(q)
             closing == {n \in Ids : it[n] \in {None, first} \/ n = MaxTimedEvents}
  <2>1. L \in Nat /\ L >= 1 /\ 1 \in DOMAIN q /\ L \in DOMAIN q /\ first = q[1] /\ first # None
        /\ MaxTimedEvents \in Nat
    BY <1>1, <1>3, TimerAssumption
  <2>2. L <= MaxTimedEvents
    <3>1. L <= q[L] /\ q[L] <= MaxTimedEvents
      BY <1>1, <2>1, AscendingLength
    <3>2. q[L] \in Nat
      BY <1>1, <2>1, TimerAssumption DEF Ids
    <3> QED
      BY <2>1, <3>1, <3>2
  <2>3. /\ it[0] = first
        /\ \A n \in 1..MaxTimedEvents : it[n] = IF it[n - 1] = None THEN None ELSE s.next[it[n - 1]]
    BY AfterIs
  <2> HIDE DEF it, L
  <2>4. \A n \in 0..(L - 1) : it[n] = q[n + 1]
    <3> DEFINE bad == {n \in Nat : n \in 0..(L - 1) /\ it[n] # q[n + 1]}
    <3> SUFFICES ASSUME bad # {} PROVE FALSE
      BY <2>1
    <3>1. PICK n \in bad : \A m \in bad : n <= m
      BY LeastNat
    <3>2. n # 0
      BY <2>1, <2>3, <3>1
    <3>0. n \in Nat /\ n \in 0..(L - 1) /\ n >= 1 /\ n < L
      BY <2>1, <3>1, <3>2
    <3>3. n - 1 \in 0..(L - 1) /\ n - 1 \in Nat /\ n - 1 \notin bad /\ n \in 1..MaxTimedEvents
          /\ n \in DOMAIN q /\ n # L /\ L # 1 /\ (n - 1) + 1 = n
      <4>1. n - 1 \in Nat /\ n - 1 \in 0..(L - 1) /\ (n - 1) + 1 = n /\ ~(n <= n - 1)
        BY <2>1, <3>0
      <4>2. n \in 1..MaxTimedEvents /\ n # L /\ L # 1
        BY <2>1, <2>2, <3>0
      <4>3. n \in DOMAIN q
        BY <1>1, <2>1, <3>0 DEF L
      <4> QED
        BY <3>1, <4>1, <4>2, <4>3
    <3>4. it[n - 1] = q[n] /\ q[n] # None
      BY <1>1, <3>3
    <3>5. s.next[q[n]] = q[n + 1]
      BY <3>3 DEF IsRing, L
    <3>6. it[n] = q[n + 1]
      BY <2>3, <3>3, <3>4, <3>5
    <3> QED
      BY <3>1, <3>6
  <2>5. it[L] \in {None, first}
    <3>1. it[L - 1] = q[L] /\ L \in 1..MaxTimedEvents /\ q[L] # None
      BY <1>1, <2>1, <2>2, <2>4
    <3>2. it[L] = s.next[q[L]]
      BY <2>3, <3>1
    <3> QED
      BY <2>1, <3>2 DEF IsRing, L
  <2>6. L \in closing /\ \A m \in closing : L <= m
    <3>1. L \in closing
      BY <2>1, <2>2, <2>5 DEF Ids
    <3>2. ASSUME NEW m \in closing, m < L PROVE FALSE
      <4>1. m \in 0..(L - 1) /\ m \in Nat /\ m >= 1 /\ m + 1 \in DOMAIN q
        BY <1>1, <2>1, <3>2 DEF Ids, L
      <4>2. it[m] = q[m + 1] /\ q[m + 1] # None /\ q[m + 1] > q[1]
        BY <1>1, <2>1, <2>4, <4>1 DEF Ascends
      <4>3. q[1] \in Nat
        BY <1>1, <2>1, TimerAssumption DEF Ids
      <4>4. m # MaxTimedEvents
        BY <2>1, <2>2, <3>2, <4>1
      <4> QED
        BY <2>1, <3>2, <4>2, <4>3, <4>4
    <3>3. \A m \in closing : m \in Nat
      BY TimerAssumption DEF Ids
    <3> QED
      BY <2>1, <3>1, <3>2, <3>3
  <2>7. (CHOOSE n \in closing : \A m \in closing : n <= m) = L
    <3>1. \A n \in closing : n \in Nat
      BY TimerAssumption DEF Ids
    <3> HIDE DEF closing
    <3>2. PICK n \in closing : n = CHOOSE k \in closing : \A m \in closing : k <= m
      BY <2>6
    <3>3. \A m \in closing : n <= m
      BY <2>6, <3>2
    <3>4. n = L
      BY <2>1, <2>6, <3>1, <3>2, <3>3
    <3> QED
      BY <3>2, <3>4
  <2>8. ring(s, first) = [i \in 1..L |-> it[i - 1]]
    BY <2>1, <2>7 DEF ring, it
  <2>9. \A i \in 1..L : it[i - 1] = q[i]
    <3> SUFFICES ASSUME NEW i \in 1..L PROVE it[i - 1] = q[i]
      OBVIOUS
    <3>1. i - 1 \in 0..(L - 1) /\ (i - 1) + 1 = i
      BY <2>1
    <3> QED
      BY <2>4, <3>1
  <2>10. q = [i \in 1..L |-> q[i]]
    BY <1>1 DEF L
  <2> QED
    BY <2>8, <2>9, <2>10
<1> QED
  BY <1>2, <1>3

\* What the operations on rings leave as it is.
Kept(s, t) ==
    /\ t.made = s.made /\ t.timeToRun = s.timeToRun /\ t.hash = s.hash
    /\ t.hasSpent = s.hasSpent /\ t.callBack = s.callBack /\ t.hashes = s.hashes
    /\ t.head_offset = s.head_offset /\ t.practical_offset = s.practical_offset
    /\ t.resolution = s.resolution

\* What a change of the links and of the lists makes of the rest.
Relinked(s, t) ==
    /\ t = [s EXCEPT !.next = t.next, !.prev = t.prev, !.bucket_list = t.bucket_list,
                     !.processing = t.processing]
    /\ t.next \in [Ids -> Ids \cup {None}] /\ t.prev \in [Ids -> Ids \cup {None}]
    /\ t.bucket_list \in Seq(Ids \cup {None}) /\ t.processing \in Seq(Ids)

LEMMA FieldsAre ==
    ASSUME NEW s \in SubsystemState
    PROVE  /\ s.made \in 0..MaxTimedEvents /\ s.timeToRun \in [Ids -> Nat]
           /\ s.hash \in [Ids -> Hashes \cup {Null}]
           /\ s.callBack \in SUBSET Ids /\ s.hasSpent \in SUBSET Ids
           /\ s.next \in [Ids -> Ids \cup {None}] /\ s.prev \in [Ids -> Ids \cup {None}]
           /\ s.bucket_list \in Seq(Ids \cup {None}) /\ s.processing \in Seq(Ids)
           /\ s.hashes \in [Hashes -> Ids \cup {None}]
           /\ s.head_offset \in Nat /\ s.practical_offset \in Nat /\ s.resolution \in BOOLEAN
  BY DEF SubsystemState

LEMMA RelinkedIs ==
    ASSUME NEW s \in SubsystemState, NEW t, Relinked(s, t)
    PROVE  t \in SubsystemState /\ Kept(s, t)
<1>1. /\ t.next \in [Ids -> Ids \cup {None}] /\ t.prev \in [Ids -> Ids \cup {None}]
      /\ t.bucket_list \in Seq(Ids \cup {None}) /\ t.processing \in Seq(Ids)
  BY DEF Relinked
<1> DEFINE nx == t.next
           pv == t.prev
           bs == t.bucket_list
           pr == t.processing
<1>2. t = [s EXCEPT !.next = nx, !.prev = pv, !.bucket_list = bs, !.processing = pr]
  BY DEF Relinked
<1> HIDE DEF nx, pv, bs, pr
<1>3. /\ nx \in [Ids -> Ids \cup {None}] /\ pv \in [Ids -> Ids \cup {None}]
      /\ bs \in Seq(Ids \cup {None}) /\ pr \in Seq(Ids)
  BY <1>1 DEF nx, pv, bs, pr
<1>4. t \in SubsystemState
  BY <1>2, <1>3 DEF SubsystemState
<1>5. Kept(s, t)
  BY <1>2 DEF SubsystemState, Kept
<1> QED
  BY <1>4, <1>5

\* x is linked in t between the last and the first of a ring.
LinksMade(s, t, x, first, last) ==
    IF first = None
    THEN t.next = [s.next EXCEPT ![x] = None] /\ t.prev = [s.prev EXCEPT ![x] = None]
    ELSE /\ t.next = [s.next EXCEPT ![x] = first, ![last] = x]
         /\ t.prev = [s.prev EXCEPT ![x] = last, ![first] = x]

LEMMA LinkedIs ==
    ASSUME NEW s \in SubsystemState, NEW x \in Ids,
           NEW pos, pos = BUCKET_POS(s, x), pos \in DOMAIN s.bucket_list,
           NEW first, first = s.bucket_list[pos],
           NEW last, last = IF s.prev[first] = None THEN first ELSE s.prev[first],
           NEW t, t = linked(s, x)
    PROVE  /\ Relinked(s, t) /\ t.processing = s.processing
           /\ LinksMade(s, t, x, first, last)
           /\ \A p \in DOMAIN s.bucket_list :
                t.bucket_list[p] = IF p = pos /\ first = None THEN x ELSE s.bucket_list[p]
           /\ DOMAIN t.bucket_list = DOMAIN s.bucket_list
<1>1. first \in Ids \cup {None} /\ (first # None => last \in Ids)
  <2>1. first \in Ids \cup {None}
    BY FieldsAre
  <2>2. first # None => s.prev[first] \in Ids \cup {None}
    BY <2>1, FieldsAre
  <2> QED
    BY <2>1, <2>2
<1>2. CASE first = None
  <2>1. t = [s EXCEPT !.bucket_list[pos] = x, !.next[x] = None, !.prev[x] = None]
    BY <1>2 DEF linked
  <2> DEFINE bs == [s.bucket_list EXCEPT ![pos] = x]
             nx == [s.next EXCEPT ![x] = None]
             pv == [s.prev EXCEPT ![x] = None]
  <2>2. t = [s EXCEPT !.bucket_list = bs, !.next = nx, !.prev = pv]
    BY <2>1
  <2>3. bs \in Seq(Ids \cup {None}) /\ nx \in [Ids -> Ids \cup {None}] /\ pv \in [Ids -> Ids \cup {None}]
    BY FieldsAre
  <2> HIDE DEF bs, nx, pv
  <2>4. t.bucket_list = bs /\ t.next = nx /\ t.prev = pv /\ t.processing = s.processing
    BY <2>2 DEF SubsystemState
  <2>5. t = [s EXCEPT !.next = nx, !.prev = pv, !.bucket_list = bs, !.processing = s.processing]
    BY <2>2 DEF SubsystemState
  <2>6. Relinked(s, t)
    BY <2>3, <2>4, <2>5, FieldsAre DEF Relinked
  <2> QED
    BY <1>2, <2>4, <2>6, FieldsAre DEF bs, nx, pv, LinksMade
<1>3. CASE first # None
  <2>1. t = [s EXCEPT !.next[x] = first, !.prev[x] = last, !.next[last] = x, !.prev[first] = x]
    BY <1>3 DEF linked
  <2> DEFINE nx == [s.next EXCEPT ![x] = first, ![last] = x]
             pv == [s.prev EXCEPT ![x] = last, ![first] = x]
  <2>2. t = [s EXCEPT !.next = nx, !.prev = pv]
    BY <2>1 DEF SubsystemState
  <2>3. nx \in [Ids -> Ids \cup {None}] /\ pv \in [Ids -> Ids \cup {None}]
    BY <1>1, <1>3, FieldsAre
  <2> HIDE DEF nx, pv
  <2>4. t.bucket_list = s.bucket_list /\ t.next = nx /\ t.prev = pv /\ t.processing = s.processing
    BY <2>2 DEF SubsystemState
  <2>5. t = [s EXCEPT !.next = nx, !.prev = pv, !.bucket_list = s.bucket_list,
                      !.processing = s.processing]
    BY <2>2 DEF SubsystemState
  <2>6. Relinked(s, t)
    BY <2>3, <2>4, <2>5, FieldsAre DEF Relinked
  <2> QED
    BY <1>3, <2>4, <2>6, FieldsAre DEF nx, pv, LinksMade
<1> QED
  BY <1>2, <1>3

\* A ring whose links stay stays.
LEMMA RingStays ==
    ASSUME NEW s, NEW t, NEW q, NEW first, IsRing(s, q, first),
           \A i \in DOMAIN q : t.next[q[i]] = s.next[q[i]] /\ t.prev[q[i]] = s.prev[q[i]]
    PROVE  IsRing(t, q, first)
  BY DEF IsRing

LEMMA RingBasics ==
    ASSUME NEW s, NEW q, NEW first, IsRing(s, q, first)
    PROVE  /\ q \in Seq(Ids) /\ Len(q) \in Nat /\ DOMAIN q = 1..Len(q)
           /\ \A i \in DOMAIN q : q[i] \in Ids /\ q[i] \in Nat /\ q[i] # None
           /\ \A i, j \in DOMAIN q : i < j => q[i] < q[j]
           /\ \A i, j \in DOMAIN q : q[i] = q[j] => i = j
           /\ first = None => q = <<>> /\ Len(q) = 0
           /\ first # None => Len(q) >= 1 /\ 1 \in DOMAIN q /\ Len(q) \in DOMAIN q /\ first = q[1]
<1>1. q \in Seq(Ids) /\ Ascends(q) /\ first = IF q = <<>> THEN None ELSE q[1]
  BY DEF IsRing
<1>2. Len(q) \in Nat /\ DOMAIN q = 1..Len(q) /\ \A i \in DOMAIN q : q[i] \in Ids
  BY <1>1
<1>3. \A y \in Ids : y \in Nat /\ y # None
  BY TimerAssumption DEF Ids, None
<1>4. \A i, j \in DOMAIN q : i < j => q[i] < q[j]
  BY <1>1 DEF Ascends
<1>5. ASSUME NEW i \in DOMAIN q, NEW j \in DOMAIN q, q[i] = q[j] PROVE i = j
  <2>1. ~(i < j) /\ ~(j < i)
    BY <1>2, <1>3, <1>4, <1>5
  <2> QED
    BY <1>2, <2>1
<1>6. q # <<>> => 1 \in DOMAIN q /\ Len(q) \in DOMAIN q /\ Len(q) >= 1 /\ first = q[1] /\ first # None
  BY <1>1, <1>2, <1>3
<1>7. q = <<>> => first = None /\ Len(q) = 0
  BY <1>1
<1> QED
  BY <1>1, <1>2, <1>3, <1>4, <1>5, <1>6, <1>7

\* The last of a ring.
LEMMA LastIs ==
    ASSUME NEW s, NEW q, NEW first, IsRing(s, q, first), first # None
    PROVE  (IF s.prev[first] = None THEN first ELSE s.prev[first]) = q[Len(q)]
<1>1. 1 \in DOMAIN q /\ Len(q) \in DOMAIN q /\ first = q[1] /\ q[Len(q)] # None
  BY RingBasics
<1>2. CASE Len(q) = 1
  BY <1>1, <1>2 DEF IsRing
<1>3. CASE Len(q) # 1
  BY <1>1, <1>3 DEF IsRing
<1> QED
  BY <1>2, <1>3

\* linked() puts a timer at the end of a ring.
LEMMA RingGrows ==
    ASSUME NEW s, NEW t, NEW q, NEW first, NEW x \in Ids, IsRing(s, q, first),
           \A i \in DOMAIN q : q[i] < x,
           s.next \in [Ids -> Ids \cup {None}], s.prev \in [Ids -> Ids \cup {None}],
           NEW last, last = IF s.prev[first] = None THEN first ELSE s.prev[first],
           LinksMade(s, t, x, first, last)
    PROVE  IsRing(t, Append(q, x), IF first = None THEN x ELSE first)
<1> DEFINE r == Append(q, x)
           L == Len(q)
<1>0. /\ first = None => t.next[x] = None /\ t.prev[x] = None
      /\ first # None => /\ t.next = [s.next EXCEPT ![x] = first, ![last] = x]
                         /\ t.prev = [s.prev EXCEPT ![x] = last, ![first] = x]
  BY DEF LinksMade
<1>1. /\ q \in Seq(Ids) /\ L \in Nat /\ DOMAIN q = 1..L
      /\ \A i \in DOMAIN q : q[i] \in Ids /\ q[i] \in Nat
      /\ \A i, j \in DOMAIN q : i < j => q[i] < q[j]
      /\ \A i, j \in DOMAIN q : q[i] = q[j] => i = j
      /\ first = None => q = <<>> /\ L = 0
      /\ first # None => L >= 1 /\ 1 \in DOMAIN q /\ L \in DOMAIN q /\ first = q[1]
  BY RingBasics
<1>2. r \in Seq(Ids) /\ Len(r) = L + 1 /\ DOMAIN r = 1..(L + 1) /\ r[L + 1] = x
      /\ \A i \in 1..L : r[i] = q[i]
  BY <1>1
<1>3. x \in Nat /\ \A i \in DOMAIN q : q[i] # x
  BY <1>1, TimerAssumption DEF Ids
<1> HIDE DEF r, L
<1>4. Ascends(r)
  <2> SUFFICES ASSUME NEW i \in 1..(L + 1), NEW j \in 1..(L + 1), i < j PROVE r[i] < r[j]
    BY <1>2 DEF Ascends
  <2>1. i \in 1..L
    BY <1>1
  <2>2. CASE j = L + 1
    BY <1>1, <1>2, <2>1, <2>2
  <2>3. CASE j # L + 1
    <3>1. j \in 1..L
      BY <1>1, <2>3
    <3> QED
      BY <1>1, <1>2, <2>1, <3>1
  <2> QED
    BY <2>2, <2>3
<1>5. CASE first = None
  <2>0. L = 0 /\ L + 1 = 1
    BY <1>1, <1>5
  <2>1. DOMAIN r = 1..1 /\ r[1] = x /\ Len(r) = 1
    BY ONLY <1>2, <2>0
  <2>2. r # <<>>
    <3>1. Len(<<>>) = 0
      OBVIOUS
    <3> QED
      BY ONLY <2>1, <3>1
  <2> QED
    BY <1>0, <1>2, <1>4, <1>5, <2>1, <2>2 DEF IsRing, r
<1>6. CASE first # None
  <2>1. last = q[L] /\ L \in 1..L /\ 1 \in 1..L /\ first = q[1] /\ L >= 1
    BY <1>1, <1>6, LastIs DEF L
  <2>2. /\ t.next[x] = q[1] /\ t.prev[x] = q[L] /\ t.next[q[L]] = x /\ t.prev[q[1]] = x
    BY <1>0, <1>1, <1>3, <1>6, <2>1
  <2>3. \A i \in 1..L : i # L => t.next[q[i]] = s.next[q[i]]
    <3> SUFFICES ASSUME NEW i \in 1..L, i # L PROVE t.next[q[i]] = s.next[q[i]]
      OBVIOUS
    <3>1. q[i] # q[L] /\ q[i] # x /\ q[i] \in Ids
      BY <1>1, <1>3, <2>1
    <3> QED
      BY <1>0, <1>6, <2>1, <3>1
  <2>4. \A i \in 1..L : i # 1 => t.prev[q[i]] = s.prev[q[i]]
    <3> SUFFICES ASSUME NEW i \in 1..L, i # 1 PROVE t.prev[q[i]] = s.prev[q[i]]
      OBVIOUS
    <3>1. q[i] # q[1] /\ q[i] # x /\ q[i] \in Ids
      BY <1>1, <1>3, <2>1
    <3> QED
      BY <1>0, <1>6, <2>1, <3>1
  <2>5. \A i \in 1..L : i # L => s.next[q[i]] = q[i + 1]
    <3> SUFFICES ASSUME NEW i \in 1..L, i # L PROVE s.next[q[i]] = q[i + 1]
      OBVIOUS
    <3>1. L # 1 /\ i \in DOMAIN q
      BY <1>1
    <3> QED
      BY <3>1 DEF IsRing, L
  <2>6. \A i \in 1..L : i # 1 => s.prev[q[i]] = q[i - 1]
    <3> SUFFICES ASSUME NEW i \in 1..L, i # 1 PROVE s.prev[q[i]] = q[i - 1]
      OBVIOUS
    <3>1. L # 1 /\ i \in DOMAIN q
      BY <1>1
    <3> QED
      BY <3>1 DEF IsRing, L
  <2>7. ASSUME NEW i \in 1..(L + 1)
        PROVE  /\ t.next[r[i]] = r[IF i = L + 1 THEN 1 ELSE i + 1]
               /\ t.prev[r[i]] = r[IF i = 1 THEN L + 1 ELSE i - 1]
    <3>1. CASE i = L + 1
      <4>1. r[i] = x /\ i # 1 /\ i - 1 = L /\ r[L] = q[L] /\ r[1] = q[1]
        BY <1>1, <1>2, <2>1, <3>1
      <4> QED
        BY <2>2, <3>1, <4>1
    <3>2. CASE i # L + 1
      <4>1. i \in 1..L /\ r[i] = q[i]
        BY <1>1, <1>2, <3>2
      <4>2. t.next[q[i]] = r[i + 1]
        <5>1. CASE i = L
          BY <1>2, <2>2, <5>1
        <5>2. CASE i # L
          <6>1. i + 1 \in 1..L
            BY <1>1, <4>1, <5>2
          <6> QED
            BY <1>2, <2>3, <2>5, <4>1, <5>2, <6>1
        <5> QED
          BY <5>1, <5>2
      <4>3. t.prev[q[i]] = r[IF i = 1 THEN L + 1 ELSE i - 1]
        <5>1. CASE i = 1
          BY <1>2, <2>2, <5>1
        <5>2. CASE i # 1
          <6>1. i - 1 \in 1..L
            BY <1>1, <4>1, <5>2
          <6> QED
            BY <1>2, <2>4, <2>6, <4>1, <5>2, <6>1
        <5> QED
          BY <5>1, <5>2
      <4> QED
        BY <3>2, <4>1, <4>2, <4>3
    <3> QED
      BY <3>1, <3>2
  <2>8. r[1] = q[1] /\ r # <<>> /\ Len(r) # 1
    BY <1>2, <2>1
  <2>9. IsRing(t, r, first)
    BY <1>2, <1>4, <1>6, <2>1, <2>7, <2>8 DEF IsRing
  <2> QED
    BY <1>6, <2>9 DEF r
<1> QED
  BY <1>5, <1>6

\* What unlinked() changes when a timer that did not run is deleted: x, and what is
\* around it.
LEMMA UnlinkedIs ==
    ASSUME NEW s \in SubsystemState, NEW x \in Ids, NEW t, t = unlinked(s, x)
    PROVE  LET n    == s.next[x]
               p    == s.prev[x]
               live == x \notin s.hasSpent
           IN  /\ Relinked(s, t) /\ t.bucket_list = s.bucket_list /\ t.processing = s.processing
               /\ t.next[x] = None /\ t.prev[x] = None
               /\ \A y \in Ids : y # x /\ ~(y = p /\ (live \/ s.next[y] = x)) => t.next[y] = s.next[y]
               /\ \A y \in Ids : y # x /\ ~(y = n /\ (live \/ s.prev[y] = x)) => t.prev[y] = s.prev[y]
               /\ live /\ p \in Ids /\ p # x => t.next[p] = IF p = n THEN None ELSE n
               /\ live /\ n \in Ids /\ n # x => t.prev[n] = IF p = n THEN None ELSE p
<1> DEFINE n    == s.next[x]
           p    == s.prev[x]
           live == x \notin s.hasSpent
           nx == [y \in Ids |-> CASE y = x -> None
                                  [] y # x /\ y = p /\ (live \/ s.next[y] = x) ->
                                       IF live /\ p = n THEN None ELSE n
                                  [] OTHER -> s.next[y]]
           pv == [y \in Ids |-> CASE y = x -> None
                                  [] y # x /\ y = n /\ (live \/ s.prev[y] = x) ->
                                       IF live /\ p = n THEN None ELSE p
                                  [] OTHER -> s.prev[y]]
<1>1. n \in Ids \cup {None} /\ p \in Ids \cup {None}
  BY FieldsAre
<1>2. t = [s EXCEPT !.next = nx, !.prev = pv]
  BY DEF unlinked
<1>3. /\ nx[x] = None /\ pv[x] = None
      /\ \A y \in Ids : y # x /\ ~(y = p /\ (live \/ s.next[y] = x)) => nx[y] = s.next[y]
      /\ \A y \in Ids : y # x /\ ~(y = n /\ (live \/ s.prev[y] = x)) => pv[y] = s.prev[y]
      /\ \A y \in Ids : y # x /\ y = p /\ (live \/ s.next[y] = x) =>
           nx[y] = IF live /\ p = n THEN None ELSE n
      /\ \A y \in Ids : y # x /\ y = n /\ (live \/ s.prev[y] = x) =>
           pv[y] = IF live /\ p = n THEN None ELSE p
  OBVIOUS
<1>4. nx \in [Ids -> Ids \cup {None}] /\ pv \in [Ids -> Ids \cup {None}]
  <2> HIDE DEF n, p, live
  <2>1. \A y \in Ids : s.next[y] \in Ids \cup {None} /\ s.prev[y] \in Ids \cup {None}
    BY FieldsAre
  <2> QED
    BY <1>1, <2>1
<1> HIDE DEF nx, pv, n, p, live
<1>5. t.next = nx /\ t.prev = pv /\ t.bucket_list = s.bucket_list /\ t.processing = s.processing
  BY <1>2 DEF SubsystemState
<1>6. t = [s EXCEPT !.next = nx, !.prev = pv, !.bucket_list = s.bucket_list,
                    !.processing = s.processing]
  BY <1>2 DEF SubsystemState
<1>7. Relinked(s, t)
  BY <1>4, <1>5, <1>6, FieldsAre DEF Relinked
<1>8. /\ live /\ p \in Ids /\ p # x => t.next[p] = IF p = n THEN None ELSE n
      /\ live /\ n \in Ids /\ n # x => t.prev[n] = IF p = n THEN None ELSE p
  BY <1>3, <1>5
<1> QED
  BY <1>3, <1>5, <1>7, <1>8 DEF n, p, live

\* Without a timer of it the ring is one still, and no other links changed.
LEMMA RingShrinks ==
    ASSUME NEW s \in SubsystemState, NEW q, NEW first, IsRing(s, q, first),
           NEW k \in DOMAIN q, NEW x, x = q[k], x \notin s.hasSpent, NEW t, t = unlinked(s, x)
    PROVE  /\ IsRing(t, RemoveAt(q, k), IF first = x THEN s.next[x] ELSE first)
           /\ \A y \in Ids : (\A i \in DOMAIN q : y # q[i]) =>
                t.next[y] = s.next[y] /\ t.prev[y] = s.prev[y]
<1> DEFINE L == Len(q)
           r == RemoveAt(q, k)
           n == s.next[x]
           p == s.prev[x]
           nk == IF k = L THEN 1 ELSE k + 1
           pk == IF k = 1 THEN L ELSE k - 1
           from(j) == IF j < k THEN j ELSE j + 1
<1>1. /\ q \in Seq(Ids) /\ L \in Nat /\ DOMAIN q = 1..L
      /\ \A i \in DOMAIN q : q[i] \in Ids /\ q[i] \in Nat /\ q[i] # None
      /\ \A i, j \in DOMAIN q : i < j => q[i] < q[j]
      /\ \A i, j \in DOMAIN q : q[i] = q[j] => i = j
      /\ 1 \in DOMAIN q /\ first = q[1] /\ k \in 1..L
  BY RingBasics
<1>2. r \in Seq(Ids) /\ Len(r) = L - 1 /\ \A j \in 1..(L - 1) : r[j] = q[from(j)]
  <2>1. /\ RemoveAt(q, k) \in Seq(Ids) /\ Len(RemoveAt(q, k)) = Len(q) - 1
        /\ \A j \in 1..Len(q) - 1 : RemoveAt(q, k)[j] = IF j < k THEN q[j] ELSE q[j + 1]
    <3>1. q \in Seq(Ids) /\ k \in 1..Len(q)
      BY <1>1
    <3> QED
      BY ONLY <3>1, RemoveAtIs
  <2>2. \A j \in 1..(L - 1) : q[from(j)] = IF j < k THEN q[j] ELSE q[j + 1]
    OBVIOUS
  <2> QED
    BY <2>1, <2>2
<1>3. DOMAIN r = 1..(L - 1) /\ L >= 1
  BY <1>1, <1>2
<1>4. x \in Ids
  BY <1>1
<1>5. /\ t.next[x] = None /\ t.prev[x] = None
      /\ \A y \in Ids : y # x /\ y # p => t.next[y] = s.next[y]
      /\ \A y \in Ids : y # x /\ y # n => t.prev[y] = s.prev[y]
      /\ p \in Ids /\ p # x => t.next[p] = IF p = n THEN None ELSE n
      /\ n \in Ids /\ n # x => t.prev[n] = IF p = n THEN None ELSE p
  BY <1>4, UnlinkedIs
<1> HIDE DEF r, L
<1>6. CASE L = 1
  <2>1. n = None /\ p = None /\ k = 1
    BY <1>1, <1>6 DEF IsRing, L
  <2>2. r = <<>>
    BY <1>2, <1>6
  <2>3. first = x
    BY <1>1, <2>1
  <2>4. \A y \in Ids : y # None
    BY TimerAssumption DEF Ids, None
  <2>5. \A y \in Ids : (\A i \in DOMAIN q : y # q[i]) => y # x
    OBVIOUS
  <2>6. IsRing(t, r, None)
    BY <2>2 DEF IsRing, Ascends
  <2> QED
    BY <1>5, <2>1, <2>3, <2>4, <2>5, <2>6 DEF r
<1>7. CASE L # 1
  <2>1. nk \in 1..L /\ pk \in 1..L /\ nk # k /\ pk # k /\ L >= 2
    BY <1>1, <1>3, <1>7
  <2>2. n = q[nk] /\ p = q[pk] /\ n # x /\ p # x /\ n \in Ids /\ p \in Ids
    <3>1. n = q[nk] /\ p = q[pk]
      BY <1>7 DEF IsRing, L
    <3> QED
      BY <1>1, <2>1, <3>1
  <2>3. \A y \in Ids : (\A i \in DOMAIN q : y # q[i]) =>
                t.next[y] = s.next[y] /\ t.prev[y] = s.prev[y]
    BY <1>1, <1>5, <2>1, <2>2
  <2>4. \A j \in 1..(L - 1) : from(j) \in 1..L /\ from(j) # k
    BY <1>1
  <2>5. r \in Seq(Ids) /\ Ascends(r)
    <3> SUFFICES ASSUME NEW i \in 1..(L - 1), NEW j \in 1..(L - 1), i < j PROVE r[i] < r[j]
      BY <1>2, <1>3 DEF Ascends
    <3>1. from(i) < from(j)
      BY <1>1
    <3> HIDE DEF from
    <3> QED
      BY <1>1, <1>2, <2>4, <3>1
  <2>6. (IF first = x THEN n ELSE first) = r[1] /\ r # <<>>
    <3>1. 1 \in 1..(L - 1) /\ r # <<>>
      <4>1. Len(<<>>) = 0
        OBVIOUS
      <4> QED
        BY <1>1, <1>2, <2>1, <4>1
    <3>2. CASE k = 1
      <4>1. first = x /\ nk = 2 /\ from(1) = 2
        BY <1>1, <1>7, <3>2
      <4> QED
        BY <1>2, <2>2, <3>1, <4>1
    <3>3. CASE k # 1
      <4>1. first # x /\ from(1) = 1
        BY <1>1, <3>3
      <4> QED
        BY <1>1, <1>2, <3>1, <4>1
    <3> QED
      BY <3>2, <3>3
  <2>7. CASE L = 2
    <3>1. nk = pk /\ n = p /\ 1 \in 1..(L - 1) /\ from(1) = nk /\ DOMAIN r = 1..1 /\ Len(r) = 1
      <4>1. nk = pk /\ 1 \in 1..(L - 1) /\ from(1) = nk
        BY <1>1, <2>7
      <4>2. L - 1 = 1
        BY <2>7
      <4> QED
        BY <1>2, <1>3, <2>2, <4>1, <4>2
    <3>2. r[1] = n
      BY <1>2, <2>2, <3>1
    <3>3. t.next[n] = None /\ t.prev[n] = None
      BY <1>5, <2>2, <3>1
    <3>4. \A i \in DOMAIN r : r[i] = n
      BY <3>1, <3>2
    <3>5. IsRing(t, r, r[1])
      <4> HIDE DEF n
      <4> QED
        BY <2>5, <2>6, <3>1, <3>3, <3>4 DEF IsRing
    <3> QED
      BY <2>3, <2>6, <3>5 DEF r
  <2>8. CASE L # 2
    <3>1. L >= 3 /\ nk # pk /\ n # p /\ Len(r) # 1
      <4>1. L >= 3 /\ nk # pk /\ L - 1 # 1
        BY <1>1, <2>1, <2>8
      <4> QED
        BY <1>1, <1>2, <2>1, <2>2, <4>1
    <3>2. t.next[p] = n /\ t.prev[n] = p
      BY <1>5, <2>2, <3>1
    <3>3. ASSUME NEW j \in 1..(L - 1)
          PROVE  t.next[r[j]] = r[IF j = L - 1 THEN 1 ELSE j + 1]
      <4> DEFINE i == from(j)
                 ni == IF i = L THEN 1 ELSE i + 1
                 nj == IF j = L - 1 THEN 1 ELSE j + 1
      <4>1. i \in 1..L /\ i # k /\ nj \in 1..(L - 1) /\ r[j] = q[i] /\ r[nj] = q[from(nj)]
            /\ q[i] \in Ids /\ q[i] # x
        <5>1. i \in 1..L /\ i # k /\ nj \in 1..(L - 1)
          BY <1>1, <2>1, <2>4
        <5> HIDE DEF nj
        <5>2. r[j] = q[i] /\ r[nj] = q[from(nj)]
          BY <1>2, <5>1
        <5> HIDE DEF i
        <5> QED
          BY <1>1, <5>1, <5>2
      <4>2. s.next[q[i]] = q[ni]
        <5>1. i \in DOMAIN q /\ Len(q) # 1
          BY <1>1, <1>7, <4>1 DEF L
        <5> HIDE DEF i
        <5> QED
          BY <5>1 DEF IsRing, L
      <4>3. CASE ni = k
        <5>1. i = pk /\ from(nj) = nk
          BY <1>1, <3>1, <4>1, <4>3
        <5> HIDE DEF i, nj, from, nk, pk
        <5> QED
          BY <2>2, <3>2, <4>1, <5>1 DEF nj
      <4>4. CASE ni # k
        <5>1. i # pk /\ from(nj) = ni
          BY <1>1, <3>1, <4>1, <4>4
        <5>2. q[i] # p
          <6> HIDE DEF i, pk
          <6> QED
            BY <1>1, <2>1, <2>2, <4>1, <5>1
        <5> HIDE DEF i, ni, nj, from, nk, pk
        <5> QED
          BY <1>5, <4>1, <4>2, <5>1, <5>2 DEF nj
      <4> QED
        BY <4>3, <4>4
    <3>4. ASSUME NEW j \in 1..(L - 1)
          PROVE  t.prev[r[j]] = r[IF j = 1 THEN L - 1 ELSE j - 1]
      <4> DEFINE i == from(j)
                 ni == IF i = 1 THEN L ELSE i - 1
                 nj == IF j = 1 THEN L - 1 ELSE j - 1
      <4>1. i \in 1..L /\ i # k /\ nj \in 1..(L - 1) /\ r[j] = q[i] /\ r[nj] = q[from(nj)]
            /\ q[i] \in Ids /\ q[i] # x
        <5>1. i \in 1..L /\ i # k /\ nj \in 1..(L - 1)
          BY <1>1, <2>1, <2>4
        <5> HIDE DEF nj
        <5>2. r[j] = q[i] /\ r[nj] = q[from(nj)]
          BY <1>2, <5>1
        <5> HIDE DEF i
        <5> QED
          BY <1>1, <5>1, <5>2
      <4>2. s.prev[q[i]] = q[ni]
        <5>1. i \in DOMAIN q /\ Len(q) # 1
          BY <1>1, <1>7, <4>1 DEF L
        <5> HIDE DEF i
        <5> QED
          BY <5>1 DEF IsRing, L
      <4>3. CASE ni = k
        <5>1. i = nk /\ from(nj) = pk
          BY <1>1, <3>1, <4>1, <4>3
        <5> HIDE DEF i, nj, from, nk, pk
        <5> QED
          BY <2>2, <3>2, <4>1, <5>1 DEF nj
      <4>4. CASE ni # k
        <5>1. i # nk /\ from(nj) = ni
          BY <1>1, <3>1, <4>1, <4>4
        <5>2. q[i] # n
          <6> HIDE DEF i, nk
          <6> QED
            BY <1>1, <2>1, <2>2, <4>1, <5>1
        <5> HIDE DEF i, ni, nj, from, nk, pk
        <5> QED
          BY <1>5, <4>1, <4>2, <5>1, <5>2 DEF nj
      <4> QED
        BY <4>3, <4>4
    <3>5. IsRing(t, r, r[1])
      <4> HIDE DEF from
      <4>1. \A j \in DOMAIN r : /\ t.next[r[j]] = r[IF j = Len(r) THEN 1 ELSE j + 1]
                               /\ t.prev[r[j]] = r[IF j = 1 THEN Len(r) ELSE j - 1]
        BY <1>2, <1>3, <3>3, <3>4
      <4>2. r[1] = IF r = <<>> THEN None ELSE r[1]
        BY <2>6
      <4> QED
        BY ONLY <2>5, <3>1, <4>1, <4>2 DEF IsRing
    <3> QED
      BY <2>3, <2>6, <3>5 DEF r
  <2> QED
    BY <2>7, <2>8
<1> QED
  BY <1>6, <1>7

LEMMA LinkedKeeps ==
    ASSUME NEW s \in SubsystemState, NEW R, Rings(s, R), NEW x \in s.callBack,
           NEW pos, pos = BUCKET_POS(s, x), pos \in DOMAIN s.bucket_list,
           \A i \in DOMAIN R[pos] : R[pos][i] < x,
           NEW t, t = linked(s, x)
    PROVE  /\ Relinked(s, t) /\ t.processing = s.processing
           /\ DOMAIN t.bucket_list = DOMAIN s.bucket_list /\ Len(t.bucket_list) = Len(s.bucket_list)
           /\ Rings(t, [R EXCEPT ![pos] = Append(@, x)])
           /\ \A y \in Ids : y # x /\ (\A i \in DOMAIN R[pos] : y # R[pos][i]) =>
                t.next[y] = s.next[y] /\ t.prev[y] = s.prev[y]
<1> DEFINE first == s.bucket_list[pos]
           last  == IF s.prev[first] = None THEN first ELSE s.prev[first]
           q     == R[pos]
           R2    == [R EXCEPT ![pos] = Append(@, x)]
<1>1. /\ s.next \in [Ids -> Ids \cup {None}] /\ s.prev \in [Ids -> Ids \cup {None}]
      /\ s.bucket_list \in Seq(Ids \cup {None}) /\ x \in Ids
  BY FieldsAre
<1>0. first = s.bucket_list[pos] /\ last = IF s.prev[first] = None THEN first ELSE s.prev[first]
  OBVIOUS
<1> HIDE DEF first, last
<1>2. /\ Relinked(s, t) /\ t.processing = s.processing
      /\ LinksMade(s, t, x, first, last)
      /\ \A p \in DOMAIN s.bucket_list :
           t.bucket_list[p] = IF p = pos /\ first = None THEN x ELSE s.bucket_list[p]
      /\ DOMAIN t.bucket_list = DOMAIN s.bucket_list
  BY <1>0, <1>1, LinkedIs
<1>3. Kept(s, t) /\ t \in SubsystemState
  BY <1>2, RelinkedIs
<1>4. /\ R \in [DOMAIN s.bucket_list -> Seq(Ids)] /\ DOMAIN R = DOMAIN s.bucket_list
      /\ \A p \in DOMAIN R :
         /\ IsRing(s, R[p], s.bucket_list[p])
         /\ \A i \in DOMAIN R[p] : R[p][i] \in s.callBack /\ BUCKET_POS(s, R[p][i]) = p
  BY DEF Rings
<1>5. IsRing(s, q, first)
  BY <1>0, <1>4
<1>6. DOMAIN t.bucket_list = DOMAIN s.bucket_list /\ Len(t.bucket_list) = Len(s.bucket_list)
      /\ \A p \in DOMAIN s.bucket_list :
           t.bucket_list[p] = IF p # pos THEN s.bucket_list[p] ELSE IF first = None THEN x ELSE first
  <2>1. t.bucket_list \in Seq(Ids \cup {None})
    BY <1>3, FieldsAre
  <2> QED
    BY <1>0, <1>1, <1>2, <2>1
<1>7. IsRing(t, Append(q, x), IF first = None THEN x ELSE first)
  <2>3. last = IF s.prev[first] = None THEN first ELSE s.prev[first]
    BY <1>0
  <2> HIDE DEF q
  <2>4. \A i \in DOMAIN q : q[i] < x
    BY DEF q
  <2> QED
    BY ONLY <1>1, <1>2, <1>5, <2>3, <2>4, RingGrows
<1>8. ASSUME NEW y \in Ids, y # x, \A i \in DOMAIN q : y # q[i]
      PROVE  t.next[y] = s.next[y] /\ t.prev[y] = s.prev[y]
  <2>1. CASE first = None
    BY <1>1, <1>2, <1>8, <2>1 DEF LinksMade
  <2>2. CASE first # None
    <3>1. last = q[Len(q)]
      <4> HIDE DEF q
      <4> QED
        BY ONLY <1>0, <1>5, <2>2, LastIs
    <3>2. 1 \in DOMAIN q /\ Len(q) \in DOMAIN q /\ first = q[1]
      <4> HIDE DEF q
      <4> QED
        BY ONLY <1>5, <2>2, RingBasics
    <3> QED
      BY <1>1, <1>2, <1>8, <2>2, <3>1, <3>2 DEF LinksMade
  <2> QED
    BY <2>1, <2>2
<1>9. Rings(t, R2)
  <2>1. R2 \in [DOMAIN t.bucket_list -> Seq(Ids)] /\ DOMAIN R2 = DOMAIN R
        /\ R2[pos] = Append(q, x) /\ \A p \in DOMAIN R : p # pos => R2[p] = R[p]
    <3>1. Append(q, x) \in Seq(Ids)
      BY <1>1, <1>4
    <3> QED
      BY <1>4, <1>6, <3>1
  <2>2. \A y : BUCKET_POS(t, y) = BUCKET_POS(s, y)
    BY <1>3 DEF BUCKET_POS, Kept
  <2>3. t.callBack = s.callBack
    BY <1>3 DEF Kept
  <2>4. ASSUME NEW p \in DOMAIN R
        PROVE  /\ IsRing(t, R2[p], t.bucket_list[p])
               /\ \A i \in DOMAIN R2[p] : R2[p][i] \in t.callBack /\ BUCKET_POS(t, R2[p][i]) = p
    <3>1. CASE p = pos
      <4>1. IsRing(t, R2[p], t.bucket_list[p])
        BY <1>4, <1>6, <1>7, <2>1, <3>1
      <4>2. ASSUME NEW i \in DOMAIN R2[p]
            PROVE  R2[p][i] \in s.callBack /\ BUCKET_POS(s, R2[p][i]) = p
        <5>1. q \in Seq(Ids) /\ DOMAIN q = 1..Len(q) /\ Len(q) \in Nat
          BY <1>4
        <5>2. R2[p] = Append(q, x)
          BY <2>1, <3>1
        <5>3. DOMAIN R2[p] = 1..(Len(q) + 1)
          BY <1>1, <5>1, <5>2
        <5>4. CASE i = Len(q) + 1
          <6>1. R2[p][i] = x
            BY <1>1, <5>1, <5>2, <5>4
          <6> QED
            BY <3>1, <6>1
        <5>5. CASE i # Len(q) + 1
          <6>1. i \in DOMAIN q /\ R2[p][i] = q[i]
            BY <1>1, <5>1, <5>2, <5>3, <5>5
          <6> QED
            BY <1>4, <3>1, <6>1
        <5> QED
          BY <5>4, <5>5
      <4> QED
        BY <2>2, <2>3, <4>1, <4>2
    <3>2. CASE p # pos
      <4>1. R2[p] = R[p] /\ t.bucket_list[p] = s.bucket_list[p]
        BY <1>4, <1>6, <2>1, <3>2
      <4>2. ASSUME NEW i \in DOMAIN R[p]
            PROVE  t.next[R[p][i]] = s.next[R[p][i]] /\ t.prev[R[p][i]] = s.prev[R[p][i]]
        <5>1. R[p][i] # x
          BY <1>4, <3>2
        <5>2. \A k \in DOMAIN q : R[p][i] # q[k]
          BY <1>4, <3>2
        <5>3. R[p][i] \in Ids
          BY <1>4
        <5> QED
          BY <1>8, <5>1, <5>2, <5>3
      <4>3. IsRing(t, R[p], s.bucket_list[p])
        BY <1>4, <4>2, RingStays
      <4> QED
        BY <1>4, <2>2, <2>3, <4>1, <4>3
    <3> QED
      BY <3>1, <3>2
  <2> HIDE DEF R2
  <2> QED
    BY <2>1, <2>4 DEF Rings
<1> QED
  BY <1>2, <1>6, <1>8, <1>9

\* A list without its k-th.
LEMMA RemovedIs ==
    ASSUME NEW q \in Seq(Ids), Ascends(q), NEW k \in DOMAIN q, NEW r, r = RemoveAt(q, k)
    PROVE  /\ r \in Seq(Ids) /\ Ascends(r)
           /\ \A i \in DOMAIN r : \E j \in DOMAIN q : j # k /\ r[i] = q[j]
           /\ \A j \in DOMAIN q : j # k => \E i \in DOMAIN r : r[i] = q[j]
           /\ \A j \in DOMAIN q : j < k => j \in DOMAIN r /\ r[j] = q[j]
<1> DEFINE L == Len(q)
           from(j) == IF j < k THEN j ELSE j + 1
<1>1. L \in Nat /\ DOMAIN q = 1..L /\ k \in 1..L /\ \A i \in 1..L : q[i] \in Ids /\ q[i] \in Nat
  BY TimerAssumption DEF Ids
<1>2. r \in Seq(Ids) /\ Len(r) = L - 1 /\ \A j \in 1..(L - 1) : r[j] = q[from(j)]
  <2>1. /\ RemoveAt(q, k) \in Seq(Ids) /\ Len(RemoveAt(q, k)) = Len(q) - 1
        /\ \A j \in 1..Len(q) - 1 : RemoveAt(q, k)[j] = IF j < k THEN q[j] ELSE q[j + 1]
    <3>1. q \in Seq(Ids) /\ k \in 1..Len(q)
      BY <1>1
    <3> QED
      BY ONLY <3>1, RemoveAtIs
  <2>2. \A j \in 1..(L - 1) : q[from(j)] = IF j < k THEN q[j] ELSE q[j + 1]
    OBVIOUS
  <2> QED
    BY <2>1, <2>2
<1> HIDE DEF L
<1>3. DOMAIN r = 1..(L - 1)
  BY <1>1, <1>2
<1>4. \A i, j \in 1..(L - 1) : from(i) \in 1..L /\ from(i) # k /\ (i < j => from(i) < from(j))
  BY <1>1
<1>5. \A j \in 1..L : j # k => \E i \in 1..(L - 1) : from(i) = j
  <2> SUFFICES ASSUME NEW j \in 1..L, j # k PROVE \E i \in 1..(L - 1) : from(i) = j
    OBVIOUS
  <2>1. CASE j < k
    <3>1. j \in 1..(L - 1) /\ from(j) = j
      BY <1>1, <2>1
    <3> QED
      BY <3>1
  <2>2. CASE ~(j < k)
    <3>1. j - 1 \in 1..(L - 1) /\ from(j - 1) = j
      BY <1>1, <2>2
    <3> QED
      BY <3>1
  <2> QED
    BY <2>1, <2>2
<1>6. \A j \in 1..L : j < k => j \in 1..(L - 1) /\ from(j) = j
  BY <1>1
<1> HIDE DEF from
<1>7. Ascends(r)
  BY <1>1, <1>2, <1>3, <1>4 DEF Ascends
<1> QED
  BY <1>1, <1>2, <1>3, <1>4, <1>5, <1>6, <1>7

LEMMA UnprocessedSeq ==
    ASSUME NEW q \in Seq(Ids), NEW x
    PROVE  unprocessed(q, x) \in Seq(Ids)
<1>1. CASE \E i \in DOMAIN q : q[i] = x
  <2>1. PICK k \in DOMAIN q : unprocessed(q, x) = RemoveAt(q, k)
    BY <1>1 DEF unprocessed
  <2>2. k \in 1..Len(q)
    OBVIOUS
  <2> QED
    BY <2>1, <2>2, RemoveAtIs
<1>2. CASE ~\E i \in DOMAIN q : q[i] = x
  BY <1>2 DEF unprocessed
<1> QED
  BY <1>1, <1>2

LEMMA UnprocessedIs ==
    ASSUME NEW q \in Seq(Ids), Ascends(q), NEW x, NEW r, r = unprocessed(q, x)
    PROVE  /\ r \in Seq(Ids) /\ Ascends(r)
           /\ \A i \in DOMAIN r : r[i] # x /\ \E j \in DOMAIN q : r[i] = q[j]
           /\ \A y \in ToSet(q) : y # x => y \in ToSet(r)
<1>1. CASE \E i \in DOMAIN q : q[i] = x
  <2>1. PICK k \in DOMAIN q : q[k] = x /\ r = RemoveAt(q, k)
    BY <1>1 DEF unprocessed
  <2>2. /\ r \in Seq(Ids) /\ Ascends(r)
        /\ \A i \in DOMAIN r : \E j \in DOMAIN q : j # k /\ r[i] = q[j]
        /\ \A j \in DOMAIN q : j # k => \E i \in DOMAIN r : r[i] = q[j]
    BY <2>1, RemovedIs
  <2>3. \A i \in DOMAIN q : q[i] = x => i = k
    <3> SUFFICES ASSUME NEW i \in DOMAIN q, q[i] = x PROVE i = k
      OBVIOUS
    <3>1. i \in Nat /\ k \in Nat /\ x \in Nat
      BY <2>1, TimerAssumption DEF Ids
    <3>2. ~(i < k) /\ ~(k < i)
      BY <2>1, <3>1 DEF Ascends
    <3> QED
      BY <3>1, <3>2
  <2> QED
    BY <2>1, <2>2, <2>3 DEF ToSet
<1>2. CASE ~\E i \in DOMAIN q : q[i] = x
  BY <1>2 DEF unprocessed, ToSet
<1> QED
  BY <1>1, <1>2

LEMMA DestroyedIs ==
    ASSUME NEW s \in SubsystemState, NEW x \in s.callBack,
           NEW t, t = destroyed(s, x), NEW u, u = unlinked(s, x)
    PROVE  /\ t \in SubsystemState
           /\ t.made = s.made /\ t.timeToRun = s.timeToRun /\ t.hash = s.hash
           /\ t.hasSpent = s.hasSpent /\ t.callBack = s.callBack \ {x}
           /\ t.head_offset = s.head_offset /\ t.practical_offset = s.practical_offset
           /\ t.resolution = s.resolution
           /\ t.next = u.next /\ t.prev = u.prev
           /\ t.hashes = [h \in Hashes |-> IF h = s.hash[x] THEN None ELSE s.hashes[h]]
           /\ t.bucket_list = IF x \in s.hasSpent THEN s.bucket_list ELSE outOfBucket(s, x)
           /\ t.processing = IF x \in s.hasSpent \/ BUCKET_POS(s, x) \in DOMAIN s.bucket_list
                             THEN s.processing ELSE unprocessed(s.processing, x)
<1> DEFINE hs == [h \in Hashes |-> IF h = s.hash[x] THEN None ELSE s.hashes[h]]
           bs == IF x \in s.hasSpent THEN s.bucket_list ELSE outOfBucket(s, x)
           pr == IF x \in s.hasSpent \/ BUCKET_POS(s, x) \in DOMAIN s.bucket_list
                 THEN s.processing ELSE unprocessed(s.processing, x)
           cb == s.callBack \ {x}
<1>1. x \in Ids
  BY FieldsAre
<1>2. /\ Relinked(s, u) /\ u.bucket_list = s.bucket_list /\ u.processing = s.processing
  BY <1>1, UnlinkedIs
<1>3. u \in SubsystemState /\ Kept(s, u)
  BY <1>2, RelinkedIs
<1>4. /\ u.callBack = s.callBack /\ u.hashes = s.hashes
  BY <1>3 DEF Kept
<1>5. t = [u EXCEPT !.callBack = cb, !.hashes = hs, !.bucket_list = bs, !.processing = pr]
  <2> DEFINE w == [u EXCEPT
           !.callBack = @ \ {x},
           !.hashes = [h \in Hashes |-> IF h = s.hash[x] THEN None ELSE @[h]],
           !.bucket_list = IF x \in s.hasSpent THEN @ ELSE outOfBucket(s, x),
           !.processing = IF x \in s.hasSpent \/ BUCKET_POS(s, x) \in DOMAIN s.bucket_list
                          THEN @ ELSE unprocessed(@, x)]
  <2>1. t = w
    BY DEF destroyed
  <2>2. w = [u EXCEPT !.callBack = cb, !.hashes = hs, !.bucket_list = bs, !.processing = pr]
    BY ONLY <1>2, <1>4
  <2> QED
    BY <2>1, <2>2
<1>6. cb \in SUBSET Ids /\ hs \in [Hashes -> Ids \cup {None}] /\ bs \in Seq(Ids \cup {None})
      /\ pr \in Seq(Ids)
  <2>1. s.callBack \in SUBSET Ids /\ s.hashes \in [Hashes -> Ids \cup {None}]
        /\ s.bucket_list \in Seq(Ids \cup {None}) /\ s.processing \in Seq(Ids)
        /\ s.next \in [Ids -> Ids \cup {None}]
    BY FieldsAre
  <2>2. outOfBucket(s, x) \in Seq(Ids \cup {None})
    <3>1. DOMAIN s.bucket_list = 1..Len(s.bucket_list) /\ Len(s.bucket_list) \in Nat
          /\ \A i \in DOMAIN s.bucket_list : s.bucket_list[i] \in Ids \cup {None}
      BY <2>1
    <3>2. s.next[x] \in Ids \cup {None}
      BY <1>1, <2>1
    <3>3. outOfBucket(s, x) \in [1..Len(s.bucket_list) -> Ids \cup {None}]
      BY <3>1, <3>2 DEF outOfBucket
    <3> QED
      BY <3>1, <3>3
  <2>3. unprocessed(s.processing, x) \in Seq(Ids)
    BY <2>1, UnprocessedSeq
  <2>4. hs \in [Hashes -> Ids \cup {None}]
    BY <2>1
  <2> QED
    BY <2>1, <2>2, <2>3, <2>4
<1> HIDE DEF cb, hs, bs, pr
<1>7. t \in SubsystemState
  BY <1>3, <1>5, <1>6 DEF SubsystemState
<1>8. /\ t.made = u.made /\ t.timeToRun = u.timeToRun /\ t.hash = u.hash
      /\ t.hasSpent = u.hasSpent /\ t.callBack = cb
      /\ t.head_offset = u.head_offset /\ t.practical_offset = u.practical_offset
      /\ t.resolution = u.resolution
      /\ t.next = u.next /\ t.prev = u.prev /\ t.hashes = hs /\ t.bucket_list = bs
      /\ t.processing = pr
  BY <1>3, <1>5 DEF SubsystemState
<1> QED
  BY <1>3, <1>7, <1>8 DEF Kept, cb, hs, bs, pr

\* The links of a ring stay in it.
LEMMA RingCloses ==
    ASSUME NEW s, NEW q, NEW first, IsRing(s, q, first), NEW i \in DOMAIN q
    PROVE  /\ s.next[q[i]] = None \/ \E j \in DOMAIN q : s.next[q[i]] = q[j]
           /\ s.prev[q[i]] = None \/ \E j \in DOMAIN q : s.prev[q[i]] = q[j]
<1>1. q \in Seq(Ids) /\ Len(q) \in Nat /\ DOMAIN q = 1..Len(q)
  BY RingBasics
<1>2. CASE Len(q) = 1
  BY <1>2 DEF IsRing
<1>3. CASE Len(q) # 1
  <2> DEFINE n == IF i = Len(q) THEN 1 ELSE i + 1
             p == IF i = 1 THEN Len(q) ELSE i - 1
  <2>1. n \in DOMAIN q /\ p \in DOMAIN q
    BY <1>1
  <2>2. s.next[q[i]] = q[n] /\ s.prev[q[i]] = q[p]
    BY <1>3 DEF IsRing
  <2> QED
    BY <2>1, <2>2
<1> QED
  BY <1>2, <1>3

LEMMA TimersOKParts ==
    ASSUME NEW s, NEW R, TimersOK(s, R)
    PROVE  /\ s \in SubsystemState /\ Rings(s, R) /\ LaterOK(s) /\ AllThere(s, R) /\ HashesOK(s)
           /\ SpentInFront(s, R)
           /\ s.made \in Nat /\ s.callBack \subseteq 1..s.made /\ s.hasSpent \subseteq 1..s.made
           /\ \A y \in Ids : y > s.made => s.next[y] = None /\ s.prev[y] = None
           /\ s.callBack \subseteq Ids /\ s.hasSpent \subseteq Ids
           /\ s.next \in [Ids -> Ids \cup {None}] /\ s.prev \in [Ids -> Ids \cup {None}]
           /\ s.bucket_list \in Seq(Ids \cup {None}) /\ Len(s.bucket_list) \in Nat
           /\ DOMAIN s.bucket_list = 1..Len(s.bucket_list) /\ DOMAIN R = DOMAIN s.bucket_list
           /\ s.processing \in Seq(Ids) /\ \A x : BUCKET_POS(s, x) = s.timeToRun[x] - s.head_offset + 1
           /\ \A x \in Ids : BUCKET_POS(s, x) \in Int /\ x # None
           /\ \A p \in DOMAIN R : /\ IsRing(s, R[p], s.bucket_list[p])
                                  /\ \A i \in DOMAIN R[p] : R[p][i] \in s.callBack /\ BUCKET_POS(s, R[p][i]) = p
<1>1. /\ s \in SubsystemState /\ Rings(s, R) /\ LaterOK(s) /\ AllThere(s, R) /\ HashesOK(s)
      /\ SpentInFront(s, R)
  BY DEF TimersOK
<1>7. s.made \in Nat
  BY <1>1, FieldsAre
<1>8. /\ s.callBack \subseteq 1..s.made /\ s.hasSpent \subseteq 1..s.made
      /\ \A y \in Ids : y > s.made => s.next[y] = None /\ s.prev[y] = None
  BY DEF TimersOK
<1>2. /\ s.callBack \subseteq Ids /\ s.hasSpent \subseteq Ids
      /\ s.next \in [Ids -> Ids \cup {None}] /\ s.prev \in [Ids -> Ids \cup {None}]
      /\ s.bucket_list \in Seq(Ids \cup {None}) /\ s.processing \in Seq(Ids)
      /\ s.timeToRun \in [Ids -> Nat] /\ s.head_offset \in Nat
  BY <1>1, FieldsAre
<1>3. Len(s.bucket_list) \in Nat /\ DOMAIN s.bucket_list = 1..Len(s.bucket_list)
  BY <1>2
<1>4. \A x \in Ids : BUCKET_POS(s, x) \in Int
  BY <1>2 DEF BUCKET_POS
<1>5. \A x : BUCKET_POS(s, x) = s.timeToRun[x] - s.head_offset + 1
  BY DEF BUCKET_POS
<1>6. \A x \in Ids : x # None
  BY TimerAssumption DEF Ids, None
<1> QED
  BY <1>1, <1>2, <1>3, <1>4, <1>5, <1>6, <1>7, <1>8 DEF Rings

\* A hash is given up with its timer.
LEMMA HashesGivenUp ==
    ASSUME NEW s, NEW t, NEW x, HashesOK(s), x \in s.callBack, s.callBack \subseteq Ids,
           t.hash = s.hash, t.callBack = s.callBack \ {x},
           t.hashes = [h \in Hashes |-> IF h = s.hash[x] THEN None ELSE s.hashes[h]]
    PROVE  HashesOK(t)
<1>1. \A h \in Hashes : t.hashes[h] = IF h = s.hash[x] THEN None ELSE s.hashes[h]
  OBVIOUS
<1>2. \A h \in Hashes : s.hash[x] = h <=> s.hashes[h] = x
  BY DEF HashesOK
<1>3. ASSUME NEW y \in t.callBack, NEW h \in Hashes PROVE t.hash[y] = h <=> t.hashes[h] = y
  <2>1. y \in s.callBack /\ y # x /\ y # None
    BY TimerAssumption DEF Ids, None
  <2>2. s.hash[y] = h <=> s.hashes[h] = y
    BY <2>1 DEF HashesOK
  <2> QED
    BY <1>1, <1>2, <2>1, <2>2
<1>4. \A h \in Hashes : t.hashes[h] \in t.callBack \cup {None}
  BY <1>1, <1>2 DEF HashesOK
<1> QED
  BY <1>3, <1>4 DEF HashesOK

\* A timer that ran and is in no ring is deleted: no ring knows of it.
LEMMA DestroyedSpent ==
    ASSUME NEW s, NEW R, TimersOK(s, R), NEW x \in s.callBack \cap s.hasSpent,
           \A p \in DOMAIN R : \A i \in DOMAIN R[p] : R[p][i] # x,
           NEW t, t = destroyed(s, x)
    PROVE  TimersOK(t, R) /\ t.hasSpent = s.hasSpent /\ t.resolution = s.resolution
           /\ t.practical_offset = s.practical_offset /\ t.bucket_list = s.bucket_list
           /\ t.head_offset = s.head_offset /\ t.callBack = s.callBack \ {x}
           /\ t.made = s.made
<1> DEFINE u == unlinked(s, x)
<1>1. /\ s \in SubsystemState /\ Rings(s, R) /\ LaterOK(s) /\ AllThere(s, R) /\ HashesOK(s)
      /\ SpentInFront(s, R)
      /\ s.callBack \subseteq Ids /\ s.hasSpent \subseteq Ids
      /\ DOMAIN s.bucket_list = 1..Len(s.bucket_list) /\ DOMAIN R = DOMAIN s.bucket_list
      /\ s.processing \in Seq(Ids) /\ \A y \in Ids : y # None
      /\ \A p \in DOMAIN R : /\ IsRing(s, R[p], s.bucket_list[p])
                             /\ \A i \in DOMAIN R[p] : R[p][i] \in s.callBack /\ BUCKET_POS(s, R[p][i]) = p
  BY TimersOKParts
<1>2. /\ t \in SubsystemState
      /\ t.made = s.made /\ t.timeToRun = s.timeToRun /\ t.hash = s.hash
      /\ t.hasSpent = s.hasSpent /\ t.callBack = s.callBack \ {x}
      /\ t.head_offset = s.head_offset /\ t.practical_offset = s.practical_offset
      /\ t.resolution = s.resolution
      /\ t.next = u.next /\ t.prev = u.prev
      /\ t.hashes = [h \in Hashes |-> IF h = s.hash[x] THEN None ELSE s.hashes[h]]
      /\ t.bucket_list = s.bucket_list /\ t.processing = s.processing
  BY <1>1, DestroyedIs
<1>3. x \in Ids /\ x # None
  BY <1>1
<1>4. /\ \A y \in Ids : y # x /\ s.next[y] # x => u.next[y] = s.next[y]
      /\ \A y \in Ids : y # x /\ s.prev[y] # x => u.prev[y] = s.prev[y]
  BY <1>1, <1>3, UnlinkedIs
<1> HIDE DEF u
<1>5. \A y : BUCKET_POS(t, y) = BUCKET_POS(s, y)
  BY <1>2 DEF BUCKET_POS
<1>6. ASSUME NEW p \in DOMAIN R PROVE IsRing(t, R[p], t.bucket_list[p])
  <2> SUFFICES ASSUME NEW i \in DOMAIN R[p]
               PROVE  t.next[R[p][i]] = s.next[R[p][i]] /\ t.prev[R[p][i]] = s.prev[R[p][i]]
    BY <1>1, <1>2, RingStays
  <2>1. R[p][i] \in Ids /\ R[p][i] # x
    BY <1>1
  <2>2. s.next[R[p][i]] # x /\ s.prev[R[p][i]] # x
    <3>1. /\ s.next[R[p][i]] = None \/ \E j \in DOMAIN R[p] : s.next[R[p][i]] = R[p][j]
          /\ s.prev[R[p][i]] = None \/ \E j \in DOMAIN R[p] : s.prev[R[p][i]] = R[p][j]
      BY <1>1, RingCloses
    <3> QED
      BY <1>3, <3>1
  <2> QED
    BY <1>2, <1>4, <2>1, <2>2
<1>7. Rings(t, R)
  BY <1>1, <1>2, <1>5, <1>6 DEF Rings
<1>8. WaitingIn(t) = WaitingIn(s)
  BY <1>2 DEF WaitingIn
<1>9. LaterOK(t)
  <2> SUFFICES ASSUME NEW i \in DOMAIN s.processing
               PROVE  t.next[s.processing[i]] = None /\ t.prev[s.processing[i]] = None
    BY <1>1, <1>2, <1>5, <1>8 DEF LaterOK
  <2>1. /\ s.processing[i] \in Ids /\ s.processing[i] # x
        /\ s.next[s.processing[i]] = None /\ s.prev[s.processing[i]] = None
    BY <1>1 DEF LaterOK, WaitingIn
  <2> QED
    BY <1>2, <1>3, <1>4, <2>1
<1>10. AllThere(t, R)
  BY <1>1, <1>2, <1>5, <1>8 DEF AllThere
<1>11. HashesOK(t)
  BY <1>1, <1>2, HashesGivenUp
<1>12. SpentInFront(t, R)
  BY <1>1, <1>2 DEF SpentInFront
<1>13. \A y \in Ids : y > t.made => t.next[y] = None /\ t.prev[y] = None
  <2> SUFFICES ASSUME NEW y \in Ids, y > s.made PROVE t.next[y] = None /\ t.prev[y] = None
    BY <1>2
  <2>1. s.next[y] = None /\ s.prev[y] = None /\ y # x
    <3>1. s.callBack \subseteq 1..s.made /\ s.made \in Nat /\ (s.next[y] = None /\ s.prev[y] = None)
      BY TimersOKParts
    <3> QED
      BY <3>1
  <2> QED
    BY <1>2, <1>3, <1>4, <2>1
<1> QED
  BY <1>2, <1>7, <1>9, <1>10, <1>11, <1>12, <1>13 DEF TimersOK

\* One that waits is deleted: it goes out of its ring, or out of processing.
LEMMA DestroyedLive ==
    ASSUME NEW s, NEW R, TimersOK(s, R), NEW x \in WaitingIn(s), NEW t, t = destroyed(s, x)
    PROVE  /\ t.made = s.made /\ t.hasSpent = s.hasSpent /\ t.resolution = s.resolution
           /\ t.practical_offset = s.practical_offset /\ t.head_offset = s.head_offset
           /\ t.callBack = s.callBack \ {x} /\ Len(t.bucket_list) = Len(s.bucket_list)
           /\ \E R2 : /\ TimersOK(t, R2) /\ DOMAIN R2 = DOMAIN R
                      /\ \A p \in DOMAIN R :
                           \/ R2[p] = R[p]
                           \/ \E k \in DOMAIN R[p] : R[p][k] = x /\ R2[p] = RemoveAt(R[p], k)
<1> DEFINE u == unlinked(s, x)
           pos == BUCKET_POS(s, x)
<1>1. /\ s \in SubsystemState /\ Rings(s, R) /\ LaterOK(s) /\ AllThere(s, R) /\ HashesOK(s)
      /\ SpentInFront(s, R)
      /\ s.callBack \subseteq Ids /\ s.hasSpent \subseteq Ids
      /\ s.bucket_list \in Seq(Ids \cup {None}) /\ Len(s.bucket_list) \in Nat
      /\ DOMAIN s.bucket_list = 1..Len(s.bucket_list) /\ DOMAIN R = DOMAIN s.bucket_list
      /\ s.processing \in Seq(Ids) /\ \A y \in Ids : y # None /\ BUCKET_POS(s, y) \in Int
      /\ \A p \in DOMAIN R : /\ IsRing(s, R[p], s.bucket_list[p])
                             /\ \A i \in DOMAIN R[p] : R[p][i] \in s.callBack /\ BUCKET_POS(s, R[p][i]) = p
  BY TimersOKParts
<1>2. x \in s.callBack /\ x \notin s.hasSpent /\ x \in Ids
  BY <1>1 DEF WaitingIn
<1>3. /\ t \in SubsystemState
      /\ t.made = s.made /\ t.timeToRun = s.timeToRun /\ t.hash = s.hash
      /\ t.hasSpent = s.hasSpent /\ t.callBack = s.callBack \ {x}
      /\ t.head_offset = s.head_offset /\ t.practical_offset = s.practical_offset
      /\ t.resolution = s.resolution
      /\ t.next = u.next /\ t.prev = u.prev
      /\ t.hashes = [h \in Hashes |-> IF h = s.hash[x] THEN None ELSE s.hashes[h]]
      /\ t.bucket_list = outOfBucket(s, x)
      /\ t.processing = IF pos \in DOMAIN s.bucket_list
                        THEN s.processing ELSE unprocessed(s.processing, x)
  BY <1>1, <1>2, DestroyedIs
<1>4. /\ DOMAIN t.bucket_list = DOMAIN s.bucket_list /\ Len(t.bucket_list) = Len(s.bucket_list)
      /\ \A p \in DOMAIN s.bucket_list : t.bucket_list[p] =
           IF p = pos /\ s.bucket_list[p] = x THEN s.next[x] ELSE s.bucket_list[p]
  <2>1. /\ DOMAIN t.bucket_list = DOMAIN s.bucket_list
        /\ \A p \in DOMAIN s.bucket_list : t.bucket_list[p] =
             IF p = pos /\ s.bucket_list[p] = x THEN s.next[x] ELSE s.bucket_list[p]
    BY <1>3 DEF outOfBucket
  <2>2. t.bucket_list \in Seq(Ids \cup {None})
    BY <1>3, FieldsAre
  <2>3. Len(t.bucket_list) = Len(s.bucket_list)
    <3>1. Len(t.bucket_list) \in Nat /\ DOMAIN t.bucket_list = 1..Len(t.bucket_list)
      BY <2>2
    <3>2. 1..Len(t.bucket_list) = 1..Len(s.bucket_list)
      BY <1>1, <2>1, <3>1
    <3> QED
      BY <1>1, <3>1, <3>2
  <2> QED
    BY <2>1, <2>3
<1>5. \A y : BUCKET_POS(t, y) = BUCKET_POS(s, y)
  BY <1>3 DEF BUCKET_POS
<1>6. WaitingIn(t) = WaitingIn(s) \ {x}
  BY <1>3 DEF WaitingIn
<1>7. HashesOK(t)
  BY <1>1, <1>2, <1>3, HashesGivenUp
<1>8. pos \in Int /\ pos >= 1
      /\ IF pos > Len(s.bucket_list) THEN x \in ToSet(s.processing) ELSE x \in ToSet(R[pos])
  BY <1>1, <1>2 DEF AllThere
<1> HIDE DEF u
<1>11. /\ s.callBack \subseteq 1..s.made /\ s.made \in Nat
       /\ \A y \in Ids : y > s.made => s.next[y] = None /\ s.prev[y] = None
  BY TimersOKParts
<1>9. CASE pos > Len(s.bucket_list)
  <2>1. pos \notin DOMAIN s.bucket_list /\ t.processing = unprocessed(s.processing, x)
        /\ x \in ToSet(s.processing)
    BY <1>1, <1>3, <1>8, <1>9
  <2>2. s.next[x] = None /\ s.prev[x] = None
    <3>1. PICK i \in DOMAIN s.processing : s.processing[i] = x
      BY <2>1 DEF ToSet
    <3> QED
      BY <1>1, <3>1 DEF LaterOK
  <2>3. \A y \in Ids : y # x => t.next[y] = s.next[y] /\ t.prev[y] = s.prev[y]
    <3>1. \A y \in Ids : y # x => u.next[y] = s.next[y] /\ u.prev[y] = s.prev[y]
      BY <1>1, <1>2, <2>2, UnlinkedIs DEF u
    <3> QED
      BY <1>3, <3>1
  <2>4. \A p \in DOMAIN R : t.bucket_list[p] = s.bucket_list[p]
                            /\ \A i \in DOMAIN R[p] : R[p][i] # x /\ R[p][i] \in t.callBack
    BY <1>1, <1>3, <1>4, <2>1
  <2>5. \A p \in DOMAIN R : IsRing(t, R[p], t.bucket_list[p])
    <3> SUFFICES ASSUME NEW p \in DOMAIN R PROVE IsRing(t, R[p], t.bucket_list[p])
      OBVIOUS
    <3>1. \A i \in DOMAIN R[p] : t.next[R[p][i]] = s.next[R[p][i]] /\ t.prev[R[p][i]] = s.prev[R[p][i]]
      BY <1>1, <2>3, <2>4
    <3>2. IsRing(t, R[p], s.bucket_list[p])
      BY <1>1, <3>1, RingStays
    <3> QED
      BY <2>4, <3>2
  <2>6. Rings(t, R)
    BY <1>1, <1>4, <1>5, <2>4, <2>5 DEF Rings
  <2>7. /\ Ascends(t.processing)
        /\ \A i \in DOMAIN t.processing : t.processing[i] # x /\ \E j \in DOMAIN s.processing : t.processing[i] = s.processing[j]
        /\ \A y \in ToSet(s.processing) : y # x => y \in ToSet(t.processing)
    BY <1>1, <2>1, UnprocessedIs DEF LaterOK
  <2>8. LaterOK(t)
    <3> SUFFICES ASSUME NEW i \in DOMAIN t.processing
                 PROVE  LET y == t.processing[i]
                        IN  /\ y \in WaitingIn(t) /\ BUCKET_POS(t, y) > Len(t.bucket_list)
                            /\ t.next[y] = None /\ t.prev[y] = None
      BY <2>7 DEF LaterOK
    <3>1. PICK j \in DOMAIN s.processing : t.processing[i] = s.processing[j] /\ s.processing[j] # x
      BY <2>7
    <3>2. /\ s.processing[j] \in WaitingIn(s) /\ BUCKET_POS(s, s.processing[j]) > Len(s.bucket_list)
          /\ s.next[s.processing[j]] = None /\ s.prev[s.processing[j]] = None
          /\ s.processing[j] \in Ids
      BY <1>1 DEF LaterOK
    <3> QED
      BY <1>4, <1>5, <1>6, <2>3, <3>1, <3>2
  <2>9. AllThere(t, R)
    BY <1>1, <1>3, <1>4, <1>5, <1>6, <2>7 DEF AllThere
  <2>10. SpentInFront(t, R)
    BY <1>1, <1>3 DEF SpentInFront
  <2>12. \A y \in Ids : y > t.made => t.next[y] = None /\ t.prev[y] = None
    <3>1. \A y \in Ids : y > s.made => y # x
      BY <1>2, <1>11
    <3> QED
      BY <1>3, <1>11, <2>3, <3>1
  <2>11. TimersOK(t, R)
    BY <1>3, <1>4, <1>7, <2>6, <2>8, <2>9, <2>10, <2>12 DEF TimersOK
  <2> QED
    BY <1>3, <1>4, <2>11
<1>10. CASE ~(pos > Len(s.bucket_list))
  <2>1. pos \in DOMAIN R /\ t.processing = s.processing /\ \E k \in DOMAIN R[pos] : R[pos][k] = x
    BY <1>1, <1>3, <1>8, <1>10 DEF ToSet
  <2>2. PICK k \in DOMAIN R[pos] : R[pos][k] = x
    BY <2>1
  <2> DEFINE q  == R[pos]
             r  == RemoveAt(q, k)
             R2 == [R EXCEPT ![pos] = r]
  <2>3. IsRing(s, q, s.bucket_list[pos]) /\ q \in Seq(Ids) /\ Ascends(q)
    BY <1>1, <2>1 DEF IsRing
  <2>4. /\ r \in Seq(Ids)
        /\ \A i \in DOMAIN r : \E j \in DOMAIN q : j # k /\ r[i] = q[j]
        /\ \A j \in DOMAIN q : j # k => \E i \in DOMAIN r : r[i] = q[j]
        /\ \A j \in DOMAIN q : j < k => j \in DOMAIN r /\ r[j] = q[j]
    BY <2>2, <2>3, RemovedIs
  <2>5. /\ IsRing(u, r, IF s.bucket_list[pos] = x THEN s.next[x] ELSE s.bucket_list[pos])
        /\ \A y \in Ids : (\A i \in DOMAIN q : y # q[i]) =>
             u.next[y] = s.next[y] /\ u.prev[y] = s.prev[y]
    <3>1. x = q[k] /\ k \in DOMAIN q
      BY <2>2
    <3> DEFINE first == s.bucket_list[pos]
    <3>2. IsRing(s, q, first)
      BY <2>3
    <3>3. u = unlinked(s, x)
      BY DEF u
    <3> HIDE DEF q, first
    <3>4. /\ IsRing(u, RemoveAt(q, k), IF first = x THEN s.next[x] ELSE first)
          /\ \A y \in Ids : (\A i \in DOMAIN q : y # q[i]) =>
                u.next[y] = s.next[y] /\ u.prev[y] = s.prev[y]
      BY ONLY <1>1, <1>2, <3>1, <3>2, <3>3, RingShrinks
    <3> QED
      BY <3>4 DEF q, first
  <2>6. IsRing(t, r, t.bucket_list[pos])
    <3>1. t.bucket_list[pos] = IF s.bucket_list[pos] = x THEN s.next[x] ELSE s.bucket_list[pos]
      BY <1>1, <1>4, <2>1
    <3>2. IsRing(u, r, t.bucket_list[pos])
      BY <2>5, <3>1
    <3> HIDE DEF r
    <3> QED
      BY <1>3, <3>2, RingStays
  <2>7. \A i, j \in DOMAIN q : q[i] = q[j] => i = j
    BY <2>3, RingBasics
  <2> HIDE DEF r
  <2>8. /\ DOMAIN R2 = DOMAIN R /\ R2[pos] = r /\ R2 \in [DOMAIN t.bucket_list -> Seq(Ids)]
        /\ \A p \in DOMAIN R : p # pos => R2[p] = R[p]
    <3>1. R \in [DOMAIN s.bucket_list -> Seq(Ids)]
      BY <1>1 DEF Rings
    <3> QED
      BY <1>4, <2>1, <2>4, <3>1
  <2> HIDE DEF R2
  <2>9. ASSUME NEW p \in DOMAIN R
        PROVE  /\ IsRing(t, R2[p], t.bucket_list[p])
               /\ \A i \in DOMAIN R2[p] : R2[p][i] \in t.callBack /\ BUCKET_POS(t, R2[p][i]) = p
    <3>1. CASE p = pos
      <4>1. \A i \in DOMAIN r : r[i] \in t.callBack /\ BUCKET_POS(t, r[i]) = pos
        <5> SUFFICES ASSUME NEW i \in DOMAIN r PROVE r[i] \in t.callBack /\ BUCKET_POS(t, r[i]) = pos
          OBVIOUS
        <5>1. PICK j \in DOMAIN q : j # k /\ r[i] = q[j]
          BY <2>4
        <5>2. q[j] # x /\ q[j] \in s.callBack /\ BUCKET_POS(s, q[j]) = pos
          BY <1>1, <2>1, <2>2, <2>7, <5>1
        <5> QED
          BY <1>3, <1>5, <5>1, <5>2
      <4> QED
        BY <2>6, <2>8, <3>1, <4>1
    <3>2. CASE p # pos
      <4>1. ASSUME NEW i \in DOMAIN R[p]
            PROVE  /\ t.next[R[p][i]] = s.next[R[p][i]] /\ t.prev[R[p][i]] = s.prev[R[p][i]]
                   /\ R[p][i] \in t.callBack /\ BUCKET_POS(t, R[p][i]) = p
        <5>1. R[p][i] \in s.callBack /\ BUCKET_POS(s, R[p][i]) = p /\ R[p][i] \in Ids
          BY <1>1
        <5>2. R[p][i] # x /\ \A j \in DOMAIN q : R[p][i] # q[j]
          BY <1>1, <2>1, <2>2, <3>2, <5>1
        <5> QED
          BY <1>3, <1>5, <2>5, <5>1, <5>2
      <4>2. IsRing(t, R[p], s.bucket_list[p])
        BY <1>1, <4>1, RingStays
      <4>3. t.bucket_list[p] = s.bucket_list[p] /\ R2[p] = R[p]
        BY <1>1, <1>4, <2>8, <3>2
      <4> QED
        BY <4>1, <4>2, <4>3
    <3> QED
      BY <3>1, <3>2
  <2>10. Rings(t, R2)
    BY <2>8, <2>9 DEF Rings
  <2>11. LaterOK(t)
    <3> SUFFICES ASSUME NEW i \in DOMAIN s.processing
                 PROVE  LET y == s.processing[i]
                        IN  /\ y \in WaitingIn(t) /\ BUCKET_POS(t, y) > Len(t.bucket_list)
                            /\ t.next[y] = None /\ t.prev[y] = None
      BY <1>1, <2>1 DEF LaterOK
    <3> DEFINE y == s.processing[i]
    <3>1. /\ y \in WaitingIn(s) /\ BUCKET_POS(s, y) > Len(s.bucket_list)
          /\ s.next[y] = None /\ s.prev[y] = None /\ y \in Ids
      BY <1>1 DEF LaterOK
    <3> HIDE DEF y
    <3>2. y # x /\ \A j \in DOMAIN q : y # q[j]
      <4>1. \A j \in DOMAIN q : BUCKET_POS(s, q[j]) = pos
        BY <1>1, <2>1
      <4> QED
        BY <1>10, <3>1, <4>1
    <3> QED
      BY <1>3, <1>4, <1>5, <1>6, <2>5, <3>1, <3>2 DEF y
  <2>12. AllThere(t, R2)
    <3> SUFFICES ASSUME NEW y \in WaitingIn(s), y # x
                 PROVE  LET at == BUCKET_POS(s, y)
                        IN  /\ at >= 1 /\ at >= s.practical_offset
                            /\ IF at > Len(s.bucket_list) THEN y \in ToSet(s.processing)
                               ELSE y \in ToSet(R2[at])
      BY <1>3, <1>4, <1>5, <1>6, <2>1 DEF AllThere
    <3> DEFINE at == BUCKET_POS(s, y)
    <3>1. /\ at >= 1 /\ at >= s.practical_offset /\ at \in Int
          /\ IF at > Len(s.bucket_list) THEN y \in ToSet(s.processing) ELSE y \in ToSet(R[at])
      BY <1>1 DEF AllThere, WaitingIn
    <3>2. CASE at > Len(s.bucket_list)
      BY <3>1, <3>2
    <3>3. CASE ~(at > Len(s.bucket_list))
      <4>1. at \in DOMAIN R /\ y \in ToSet(R[at])
        BY <1>1, <3>1, <3>3
      <4>2. CASE at = pos
        <5>1. PICK j \in DOMAIN q : q[j] = y
          BY <4>1, <4>2 DEF ToSet
        <5>2. \E i \in DOMAIN r : r[i] = y
          BY <2>2, <2>4, <5>1
        <5> QED
          BY <2>8, <3>1, <3>3, <4>2, <5>2 DEF ToSet
      <4>3. CASE at # pos
        BY <2>8, <3>1, <3>3, <4>1, <4>3
      <4> QED
        BY <4>2, <4>3
    <3> QED
      BY <3>2, <3>3
  <2>13. SpentInFront(t, R2)
    <3> SUFFICES ASSUME NEW p \in DOMAIN R, NEW i \in DOMAIN R2[p], R2[p][i] \in s.hasSpent
                 PROVE  /\ p = s.practical_offset /\ s.head_offset + p <= worldTime
                        /\ \A j \in 1..i : R2[p][j] \in s.hasSpent
      BY <1>3, <2>8 DEF SpentInFront
    <3>1. CASE p # pos
      BY <1>1, <2>8, <3>1 DEF SpentInFront
    <3>2. CASE p = pos
      <4>1. PICK j \in DOMAIN q : j # k /\ r[i] = q[j]
        BY <2>4, <2>8, <3>2
      <4>2. /\ p = s.practical_offset /\ s.head_offset + p <= worldTime
            /\ \A m \in 1..j : q[m] \in s.hasSpent
        BY <1>1, <2>1, <2>8, <3>2, <4>1 DEF SpentInFront
      <4>3. DOMAIN q = 1..Len(q) /\ Len(q) \in Nat /\ j \in 1..Len(q) /\ k \in 1..Len(q)
        BY <2>3
      <4>4. j < k
        BY <1>2, <2>2, <4>1, <4>2, <4>3
      <4>5. j \in DOMAIN r /\ r[j] = q[j] /\ \A m \in 1..j : r[m] = q[m]
        <5>1. \A m \in 1..j : m \in DOMAIN q /\ m < k
          BY <4>3, <4>4
        <5>2. j \in 1..j
          BY <4>3
        <5> QED
          BY <2>4, <5>1, <5>2
      <4>6. i = j
        <5>1. \A m, n \in DOMAIN r : r[m] = r[n] => m = n
          BY <2>6, RingBasics
        <5> QED
          BY <2>8, <3>2, <4>1, <4>5, <5>1
      <4> QED
        BY <2>8, <3>2, <4>2, <4>5, <4>6
    <3> QED
      BY <3>1, <3>2
  <2>17. \A y \in Ids : y > t.made => t.next[y] = None /\ t.prev[y] = None
    <3>1. \A y \in Ids : y > s.made => \A i \in DOMAIN q : y # q[i]
      BY <1>1, <1>11, <2>1
    <3> QED
      BY <1>3, <1>11, <2>5, <3>1
  <2>14. TimersOK(t, R2)
    BY <1>3, <1>4, <1>7, <2>10, <2>11, <2>12, <2>13, <2>17 DEF TimersOK
  <2>15. ASSUME NEW p \in DOMAIN R
         PROVE  \/ R2[p] = R[p]
                \/ \E m \in DOMAIN R[p] : R[p][m] = x /\ R2[p] = RemoveAt(R[p], m)
    <3>1. CASE p = pos
      BY <2>2, <2>8, <3>1 DEF r
    <3>2. CASE p # pos
      BY <2>8, <3>2
    <3> QED
      BY <3>1, <3>2
  <2>16. \E R3 : /\ TimersOK(t, R3) /\ DOMAIN R3 = DOMAIN R
                 /\ \A p \in DOMAIN R :
                      \/ R3[p] = R[p]
                      \/ \E m \in DOMAIN R[p] : R[p][m] = x /\ R3[p] = RemoveAt(R[p], m)
    BY <2>8, <2>14, <2>15
  <2> QED
    BY <1>3, <1>4, <2>16
<1> QED
  BY <1>9, <1>10

\* A timer whose callback runs loses its hash to the one that takes its place.
LEMMA ForgottenIs ==
    ASSUME NEW s, NEW R, TimersOK(s, R), NEW old \in Ids, NEW t, t = forgotten(s, old)
    PROVE  /\ TimersOK(t, R) /\ t.made = s.made /\ t.hasSpent = s.hasSpent /\ t.callBack = s.callBack
           /\ t.resolution = s.resolution /\ t.bucket_list = s.bucket_list
           /\ t.practical_offset = s.practical_offset /\ t.head_offset = s.head_offset
           /\ \A h \in Hashes : s.hashes[h] = old => t.hashes[h] = None
<1> DEFINE ha == [s.hash EXCEPT ![old] = Null]
           hs == [h \in Hashes |-> IF s.hashes[h] = old THEN None ELSE s.hashes[h]]
<1>1. s \in SubsystemState /\ old # None /\ HashesOK(s) /\ s.callBack \subseteq Ids
  BY TimersOKParts
<1>2. t = [s EXCEPT !.hash = ha, !.hashes = hs]
  BY DEF forgotten
<1>3. ha \in [Ids -> Hashes \cup {Null}] /\ hs \in [Hashes -> Ids \cup {None}]
  <2>1. s.hash \in [Ids -> Hashes \cup {Null}] /\ s.hashes \in [Hashes -> Ids \cup {None}]
    BY <1>1, FieldsAre
  <2> QED
    BY <2>1
<1>4. /\ \A y \in Ids : ha[y] = IF y = old THEN Null ELSE s.hash[y]
      /\ \A h \in Hashes : hs[h] = IF s.hashes[h] = old THEN None ELSE s.hashes[h]
  <2>1. s.hash \in [Ids -> Hashes \cup {Null}]
    BY <1>1, FieldsAre
  <2> QED
    BY <2>1
<1> HIDE DEF ha, hs
<1>5. t \in SubsystemState
  BY <1>1, <1>2, <1>3 DEF SubsystemState
<1>6. /\ t.made = s.made /\ t.timeToRun = s.timeToRun /\ t.hash = ha
      /\ t.hasSpent = s.hasSpent /\ t.callBack = s.callBack /\ t.hashes = hs
      /\ t.head_offset = s.head_offset /\ t.practical_offset = s.practical_offset
      /\ t.resolution = s.resolution /\ t.next = s.next /\ t.prev = s.prev
      /\ t.bucket_list = s.bucket_list /\ t.processing = s.processing
  BY <1>1, <1>2 DEF SubsystemState
<1>7. HashesOK(t)
  <2>1. \A h \in Hashes : h # Null
    BY TimerAssumption DEF Null
  <2>2. ASSUME NEW y \in s.callBack, NEW h \in Hashes PROVE ha[y] = h <=> hs[h] = y
    <3>1. y \in Ids /\ y # None /\ (s.hash[y] = h <=> s.hashes[h] = y)
      BY <1>1, TimersOKParts DEF HashesOK
    <3> QED
      BY <1>4, <2>1, <3>1
  <2>3. \A h \in Hashes : hs[h] \in s.callBack \cup {None}
    BY <1>1, <1>4 DEF HashesOK
  <2> QED
    BY <1>6, <2>2, <2>3 DEF HashesOK
<1>8. \A y : BUCKET_POS(t, y) = BUCKET_POS(s, y)
  BY <1>6 DEF BUCKET_POS
<1>9. Rings(t, R)
  BY <1>6, <1>8, TimersOKParts DEF Rings, IsRing
<1>10. WaitingIn(t) = WaitingIn(s)
  BY <1>6 DEF WaitingIn
<1>11. LaterOK(t) /\ AllThere(t, R) /\ SpentInFront(t, R)
  BY <1>6, <1>8, <1>10, TimersOKParts DEF LaterOK, AllThere, SpentInFront
<1>12. TimersOK(t, R)
  BY <1>5, <1>6, <1>7, <1>9, <1>11 DEF TimersOK
<1> QED
  BY <1>4, <1>6, <1>12

\* A timer is made, to run in this tick or later: it goes to the end of its ring, or of
\* processing.
LEMMA CreatedIs ==
    ASSUME NEW s, NEW R, TimersOK(s, R), s.made < MaxTimedEvents,
           NEW at \in Nat, at >= worldTime, worldTime \in Nat,
           NEW h \in Hashes \cup {Null}, h \in Hashes => s.hashes[h] = None,
           NEW t, t = created(s, at, h)
    PROVE  /\ t.hasSpent = s.hasSpent /\ t.resolution = s.resolution
           /\ t.practical_offset = s.practical_offset /\ t.head_offset = s.head_offset
           /\ Len(t.bucket_list) = Len(s.bucket_list) /\ t.made = s.made + 1
           /\ s.made + 1 \in Ids \ (s.callBack \cup s.hasSpent)
           /\ t.callBack = s.callBack \cup {s.made + 1}
           /\ \E R2 : /\ TimersOK(t, R2) /\ DOMAIN R2 = DOMAIN R
                      /\ \A p \in DOMAIN R :
                           \/ R2[p] = R[p]
                           \/ s.head_offset + p > worldTime /\ R2[p] = Append(R[p], s.made + 1)
<1> DEFINE x   == s.made + 1
           new == [s EXCEPT !.made = x, !.timeToRun[x] = at, !.hash[x] = h,
                            !.callBack = @ \cup {x},
                            !.hashes = [g \in Hashes |-> IF g = h THEN x ELSE @[g]]]
           pos == BUCKET_POS(new, x)
<1>1. /\ s \in SubsystemState /\ Rings(s, R) /\ LaterOK(s) /\ AllThere(s, R) /\ HashesOK(s)
      /\ SpentInFront(s, R)
      /\ s.made \in Nat /\ s.callBack \subseteq 1..s.made /\ s.hasSpent \subseteq 1..s.made
      /\ \A y \in Ids : y > s.made => s.next[y] = None /\ s.prev[y] = None
      /\ s.callBack \subseteq Ids
      /\ s.bucket_list \in Seq(Ids \cup {None}) /\ Len(s.bucket_list) \in Nat
      /\ DOMAIN s.bucket_list = 1..Len(s.bucket_list) /\ DOMAIN R = DOMAIN s.bucket_list
      /\ s.processing \in Seq(Ids) /\ \A y \in Ids : y # None /\ BUCKET_POS(s, y) \in Int
      /\ \A p \in DOMAIN R : /\ IsRing(s, R[p], s.bucket_list[p])
                             /\ \A i \in DOMAIN R[p] : R[p][i] \in s.callBack /\ BUCKET_POS(s, R[p][i]) = p
  BY TimersOKParts
<1>2. x \in Ids /\ x \in Nat /\ x \notin s.callBack /\ x \notin s.hasSpent
      /\ \A y \in 1..s.made : y < x
  BY <1>1, TimerAssumption DEF Ids
<1>3. /\ s.head_offset \in Nat /\ s.practical_offset \in Nat /\ s.head_offset <= worldTime
      /\ s.head_offset + s.practical_offset <= worldTime + 1
      /\ s.timeToRun \in [Ids -> Nat] /\ s.hash \in [Ids -> Hashes \cup {Null}]
      /\ s.hashes \in [Hashes -> Ids \cup {None}]
  BY <1>1, FieldsAre DEF TimersOK
<1> HIDE DEF x
<1>4. /\ new \in SubsystemState /\ new.made = x /\ new.timeToRun = [s.timeToRun EXCEPT ![x] = at]
      /\ new.hash = [s.hash EXCEPT ![x] = h] /\ new.callBack = s.callBack \cup {x}
      /\ new.hashes = [g \in Hashes |-> IF g = h THEN x ELSE s.hashes[g]]
      /\ new.hasSpent = s.hasSpent /\ new.next = s.next /\ new.prev = s.prev
      /\ new.bucket_list = s.bucket_list /\ new.processing = s.processing
      /\ new.head_offset = s.head_offset /\ new.practical_offset = s.practical_offset
      /\ new.resolution = s.resolution
  <2> DEFINE tr == [s.timeToRun EXCEPT ![x] = at]
             ha == [s.hash EXCEPT ![x] = h]
             cb == s.callBack \cup {x}
             hs == [g \in Hashes |-> IF g = h THEN x ELSE s.hashes[g]]
  <2>1. new = [s EXCEPT !.made = x, !.timeToRun = tr, !.hash = ha, !.callBack = cb, !.hashes = hs]
    OBVIOUS
  <2>2. /\ tr \in [Ids -> Nat] /\ ha \in [Ids -> Hashes \cup {Null}] /\ cb \in SUBSET Ids
        /\ hs \in [Hashes -> Ids \cup {None}] /\ x \in 0..MaxTimedEvents
    <3>1. x \in 0..MaxTimedEvents
      BY <1>1, TimerAssumption DEF x
    <3> QED
      BY <1>1, <1>2, <1>3, <3>1
  <2> HIDE DEF tr, ha, cb, hs, new
  <2>3. new \in SubsystemState
    BY <1>1, <2>1, <2>2 DEF SubsystemState
  <2>4. /\ new.made = x /\ new.timeToRun = tr /\ new.hash = ha /\ new.callBack = cb /\ new.hashes = hs
        /\ new.hasSpent = s.hasSpent /\ new.next = s.next /\ new.prev = s.prev
        /\ new.bucket_list = s.bucket_list /\ new.processing = s.processing
        /\ new.head_offset = s.head_offset /\ new.practical_offset = s.practical_offset
        /\ new.resolution = s.resolution
    BY <1>1, <2>1 DEF SubsystemState
  <2> QED
    BY <2>3, <2>4 DEF tr, ha, cb, hs
<1>5. pos = at - s.head_offset + 1 /\ pos \in Int /\ pos >= 1 /\ ~(pos < s.practical_offset)
      /\ s.head_offset + pos > worldTime
  <2>1. pos = at - s.head_offset + 1
    <3>1. new.timeToRun[x] = at
      BY <1>2, <1>3, <1>4
    <3> HIDE DEF new
    <3> QED
      BY <1>4, <3>1 DEF BUCKET_POS
  <2> QED
    BY <1>3, <2>1
<1>6. t = IF pos > Len(s.bucket_list) THEN [new EXCEPT !.processing = Append(@, x)]
          ELSE [linked(new, x) EXCEPT !.practical_offset = @]
  <2> DEFINE back == pos < s.practical_offset
             l == linked(new, x)
  <2>1. t = IF pos > Len(s.bucket_list) THEN [new EXCEPT !.processing = Append(@, x)]
            ELSE [l EXCEPT !.practical_offset = IF back /\ s.bucket_list[pos] = None THEN pos ELSE @]
    BY DEF created, x
  <2>2. ~back
    BY <1>5
  <2> HIDE DEF back, l
  <2>3. [l EXCEPT !.practical_offset = IF back /\ s.bucket_list[pos] = None THEN pos ELSE @]
          = [l EXCEPT !.practical_offset = @]
    BY <2>2
  <2> HIDE DEF new, pos
  <2> QED
    BY <2>1, <2>3 DEF l
<1> HIDE DEF new
<1>7. \A y \in Ids : y # x => BUCKET_POS(new, y) = BUCKET_POS(s, y)
  BY <1>3, <1>4 DEF BUCKET_POS
<1>8. HashesOK(new)
  <2>1. \A g \in Hashes : g # Null
    BY TimerAssumption DEF Null
  <2>2. ASSUME NEW y \in new.callBack, NEW g \in Hashes PROVE new.hash[y] = g <=> new.hashes[g] = y
    <3>1. /\ new.hash[y] = IF y = x THEN h ELSE s.hash[y]
          /\ new.hashes[g] = IF g = h THEN x ELSE s.hashes[g]
      BY <1>1, <1>2, <1>3, <1>4
    <3>2. s.hashes[g] \in s.callBack \cup {None} /\ (y # x => (s.hash[y] = g <=> s.hashes[g] = y))
      BY <1>1, <1>4 DEF HashesOK
    <3>3. CASE y = x
      BY <1>1, <1>2, <3>1, <3>2, <3>3
    <3>4. CASE y # x
      BY <1>1, <1>2, <1>4, <3>1, <3>2, <3>4
    <3> QED
      BY <3>3, <3>4
  <2>3. \A g \in Hashes : new.hashes[g] \in new.callBack \cup {None}
    BY <1>1, <1>4 DEF HashesOK
  <2> QED
    BY <2>2, <2>3 DEF HashesOK
<1>9. Rings(new, R)
  <2>1. R \in [DOMAIN new.bucket_list -> Seq(Ids)]
    BY <1>1, <1>4 DEF Rings
  <2>2. ASSUME NEW p \in DOMAIN R
        PROVE  /\ IsRing(new, R[p], new.bucket_list[p])
               /\ \A i \in DOMAIN R[p] : R[p][i] \in new.callBack /\ BUCKET_POS(new, R[p][i]) = p
    <3>1. IsRing(new, R[p], s.bucket_list[p])
      BY <1>1, <1>4, RingStays
    <3>2. \A i \in DOMAIN R[p] : R[p][i] \in s.callBack /\ BUCKET_POS(s, R[p][i]) = p
                                 /\ R[p][i] # x /\ R[p][i] \in Ids
      BY <1>1, <1>2
    <3> QED
      BY <1>4, <1>7, <3>1, <3>2
  <2> QED
    BY <2>1, <2>2 DEF Rings
<1>10. WaitingIn(new) = WaitingIn(s) \cup {x}
  BY <1>2, <1>4 DEF WaitingIn
<1>11. /\ new.callBack \subseteq 1..new.made /\ new.hasSpent \subseteq 1..new.made
  BY <1>1, <1>4 DEF x
<1>12. \A i \in DOMAIN s.processing :
         LET y == s.processing[i]
         IN  /\ y \in WaitingIn(s) /\ y \in Ids /\ y # x /\ y < x
             /\ BUCKET_POS(new, y) = BUCKET_POS(s, y) /\ BUCKET_POS(s, y) > Len(s.bucket_list)
             /\ s.next[y] = None /\ s.prev[y] = None
  BY <1>1, <1>2, <1>7 DEF LaterOK, WaitingIn
<1>13. CASE pos > Len(s.bucket_list)
  <2> DEFINE pr == Append(s.processing, x)
  <2>1. t = [new EXCEPT !.processing = pr]
    BY <1>4, <1>6, <1>13
  <2>2. pr \in Seq(Ids) /\ Len(pr) = Len(s.processing) + 1 /\ pr[Len(s.processing) + 1] = x
        /\ DOMAIN pr = 1..(Len(s.processing) + 1) /\ Len(s.processing) \in Nat
        /\ DOMAIN s.processing = 1..Len(s.processing)
        /\ \A i \in 1..Len(s.processing) : pr[i] = s.processing[i]
    BY <1>1, <1>2
  <2> HIDE DEF pr
  <2>3. t \in SubsystemState
    BY <1>4, <2>1, <2>2 DEF SubsystemState
  <2>4. /\ t.made = new.made /\ t.timeToRun = new.timeToRun /\ t.hash = new.hash
        /\ t.hasSpent = s.hasSpent /\ t.callBack = new.callBack /\ t.hashes = new.hashes
        /\ t.head_offset = s.head_offset /\ t.practical_offset = s.practical_offset
        /\ t.resolution = s.resolution /\ t.next = s.next /\ t.prev = s.prev
        /\ t.bucket_list = s.bucket_list /\ t.processing = pr
    BY <1>4, <2>1 DEF SubsystemState
  <2>5. \A y : BUCKET_POS(t, y) = BUCKET_POS(new, y)
    BY <1>4, <2>4 DEF BUCKET_POS
  <2>6. WaitingIn(t) = WaitingIn(s) \cup {x}
    BY <1>10, <1>4, <2>4 DEF WaitingIn
  <2>7. Rings(t, R)
    BY <1>4, <1>9, <2>4, <2>5 DEF Rings, IsRing
  <2>8. \A i \in DOMAIN pr : \/ i \in DOMAIN s.processing /\ pr[i] = s.processing[i]
                             \/ i = Len(s.processing) + 1 /\ pr[i] = x
    BY <2>2
  <2>9. LaterOK(t)
    <3>1. ASSUME NEW i \in DOMAIN pr, NEW j \in DOMAIN pr, i < j PROVE pr[i] < pr[j]
      <4>1. i \in DOMAIN s.processing /\ pr[i] = s.processing[i]
        BY <2>2, <3>1
      <4>2. CASE pr[j] = x
        BY <1>12, <4>1, <4>2
      <4>3. CASE pr[j] # x
        BY <1>1, <2>8, <3>1, <4>1, <4>3 DEF LaterOK, Ascends
      <4> QED
        BY <4>2, <4>3
    <3>2. ASSUME NEW i \in DOMAIN pr
          PROVE  LET y == pr[i]
                 IN  /\ y \in WaitingIn(t) /\ BUCKET_POS(t, y) > Len(t.bucket_list)
                     /\ t.next[y] = None /\ t.prev[y] = None
      <4>1. CASE pr[i] = x
        <5>1. s.next[x] = None /\ s.prev[x] = None
          BY <1>1, <1>2 DEF x
        <5> QED
          BY <1>13, <2>4, <2>5, <2>6, <4>1, <5>1
      <4>2. CASE pr[i] # x
        <5>1. i \in DOMAIN s.processing /\ pr[i] = s.processing[i]
          BY <2>8, <4>2
        <5> QED
          BY <1>12, <2>4, <2>5, <2>6, <5>1
      <4> QED
        BY <4>1, <4>2
    <3> QED
      BY <2>4, <3>1, <3>2 DEF LaterOK, Ascends
  <2>10. AllThere(t, R)
    <3> SUFFICES ASSUME NEW y \in WaitingIn(t)
                 PROVE  LET to == BUCKET_POS(t, y)
                        IN  /\ to >= 1 /\ to >= t.practical_offset
                            /\ IF to > Len(t.bucket_list) THEN y \in ToSet(t.processing)
                               ELSE y \in ToSet(R[to])
      BY DEF AllThere
    <3>1. CASE y = x
      <4>1. BUCKET_POS(t, y) = pos /\ x \in ToSet(pr)
        BY <2>2, <2>5, <3>1 DEF ToSet
      <4> QED
        BY <1>3, <1>5, <1>13, <2>4, <3>1, <4>1
    <3>2. CASE y # x
      <4>1. y \in WaitingIn(s) /\ y \in Ids
        BY <1>1, <2>6, <3>2 DEF WaitingIn
      <4>2. ToSet(s.processing) \subseteq ToSet(pr)
        BY <2>2 DEF ToSet
      <4>3. BUCKET_POS(t, y) = BUCKET_POS(s, y)
        BY <1>7, <2>5, <3>2, <4>1
      <4> QED
        BY <1>1, <2>4, <4>1, <4>2, <4>3 DEF AllThere
    <3> QED
      BY <3>1, <3>2
  <2>11. HashesOK(t) /\ SpentInFront(t, R)
    BY <1>1, <1>8, <2>4 DEF HashesOK, SpentInFront
  <2>12. \A y \in Ids : y > t.made => t.next[y] = None /\ t.prev[y] = None
    BY <1>1, <1>4, <2>4, TimerAssumption DEF x, Ids
  <2>13. TimersOK(t, R)
    <3>1. s.head_offset + s.practical_offset <= worldTime + 1 /\ Len(s.bucket_list) \in {0, BUCKET_LEN}
      BY DEF TimersOK
    <3>2. t.callBack \subseteq 1..t.made /\ t.hasSpent \subseteq 1..t.made
      BY <1>4, <1>11, <2>4
    <3> QED
      BY <1>3, <2>3, <2>4, <2>7, <2>9, <2>10, <2>11, <2>12, <3>1, <3>2 DEF TimersOK
  <2> QED
    BY <1>2, <1>4, <2>4, <2>13 DEF x
<1>14. CASE ~(pos > Len(s.bucket_list))
  <2> DEFINE q  == R[pos]
             R2 == [R EXCEPT ![pos] = Append(@, x)]
  <2>1. pos \in DOMAIN R /\ pos \in DOMAIN new.bucket_list
    BY <1>1, <1>4, <1>5, <1>14
  <2>2. PICK l : l = linked(new, x)
    OBVIOUS
  <2>3. /\ Relinked(new, l) /\ l.processing = s.processing
        /\ DOMAIN l.bucket_list = DOMAIN s.bucket_list /\ Len(l.bucket_list) = Len(s.bucket_list)
        /\ Rings(l, R2)
        /\ \A y \in Ids : y # x /\ (\A i \in DOMAIN q : y # q[i]) =>
             l.next[y] = s.next[y] /\ l.prev[y] = s.prev[y]
    <3>1. x \in new.callBack /\ \A i \in DOMAIN R[pos] : R[pos][i] < x
      BY <1>1, <1>2, <1>4, <2>1
    <3> DEFINE k == pos
    <3>2. k = BUCKET_POS(new, x) /\ k \in DOMAIN new.bucket_list /\ \A i \in DOMAIN R[k] : R[k][i] < x
      BY <2>1, <3>1
    <3> HIDE DEF k
    <3>3. /\ Relinked(new, l) /\ l.processing = new.processing
          /\ DOMAIN l.bucket_list = DOMAIN new.bucket_list /\ Len(l.bucket_list) = Len(new.bucket_list)
          /\ Rings(l, [R EXCEPT ![k] = Append(@, x)])
          /\ \A y \in Ids : y # x /\ (\A i \in DOMAIN R[k] : y # R[k][i]) =>
               l.next[y] = new.next[y] /\ l.prev[y] = new.prev[y]
      BY ONLY <1>4, <1>9, <2>2, <3>1, <3>2, LinkedKeeps
    <3> QED
      BY <1>4, <3>3 DEF k
  <2>4. l \in SubsystemState /\ Kept(new, l)
    BY <1>4, <2>3, RelinkedIs
  <2>5. t = l
    <3>1. t = [l EXCEPT !.practical_offset = @]
      BY <1>6, <1>14, <2>2
    <3> QED
      BY <2>4, <3>1 DEF SubsystemState
  <2>6. /\ t.made = x /\ t.timeToRun = new.timeToRun /\ t.hash = new.hash
        /\ t.hasSpent = s.hasSpent /\ t.callBack = new.callBack /\ t.hashes = new.hashes
        /\ t.head_offset = s.head_offset /\ t.practical_offset = s.practical_offset
        /\ t.resolution = s.resolution
    BY <1>4, <2>4, <2>5 DEF Kept
  <2>7. /\ DOMAIN R2 = DOMAIN R /\ R2[pos] = Append(q, x)
        /\ \A p \in DOMAIN R : p # pos => R2[p] = R[p]
    <3>1. R \in [DOMAIN s.bucket_list -> Seq(Ids)]
      BY <1>1 DEF Rings
    <3> QED
      BY <2>1, <3>1
  <2>8. q \in Seq(Ids) /\ Len(q) \in Nat /\ DOMAIN q = 1..Len(q) /\ DOMAIN Append(q, x) = 1..(Len(q) + 1)
        /\ (\A i \in DOMAIN q : Append(q, x)[i] = q[i]) /\ Append(q, x)[Len(q) + 1] = x
    <3>1. q \in Seq(Ids)
      BY <1>1, <2>1 DEF IsRing
    <3> HIDE DEF q
    <3> QED
      BY <1>2, <3>1
  <2> HIDE DEF R2, q
  <2>9. \A y : BUCKET_POS(t, y) = BUCKET_POS(new, y)
    BY <1>4, <2>6 DEF BUCKET_POS
  <2>10. WaitingIn(t) = WaitingIn(s) \cup {x}
    BY <1>10, <1>4, <2>6 DEF WaitingIn
  <2>11. LaterOK(t)
    <3> SUFFICES ASSUME NEW i \in DOMAIN s.processing
                 PROVE  LET y == s.processing[i]
                        IN  /\ y \in WaitingIn(t) /\ BUCKET_POS(t, y) > Len(t.bucket_list)
                            /\ t.next[y] = None /\ t.prev[y] = None
      BY <1>1, <2>3, <2>5 DEF LaterOK
    <3> DEFINE y == s.processing[i]
    <3>1. /\ y \in WaitingIn(s) /\ y \in Ids /\ y # x
          /\ BUCKET_POS(new, y) = BUCKET_POS(s, y) /\ BUCKET_POS(s, y) > Len(s.bucket_list)
          /\ s.next[y] = None /\ s.prev[y] = None
      BY <1>12
    <3> HIDE DEF y
    <3>2. \A j \in DOMAIN q : y # q[j]
      <4>1. \A j \in DOMAIN q : BUCKET_POS(s, q[j]) = pos
        BY <1>1, <2>1 DEF q
      <4> QED
        BY <1>14, <3>1, <4>1
    <3> QED
      BY <2>3, <2>5, <2>9, <2>10, <3>1, <3>2 DEF y
  <2>12. AllThere(t, R2)
    <3> SUFFICES ASSUME NEW y \in WaitingIn(t)
                 PROVE  LET to == BUCKET_POS(t, y)
                        IN  /\ to >= 1 /\ to >= t.practical_offset
                            /\ IF to > Len(t.bucket_list) THEN y \in ToSet(t.processing)
                               ELSE y \in ToSet(R2[to])
      BY DEF AllThere
    <3>1. CASE y = x
      <4>1. BUCKET_POS(t, y) = pos /\ Len(q) + 1 \in 1..(Len(q) + 1)
        BY <2>8, <2>9, <3>1
      <4>2. x \in ToSet(R2[pos])
        BY <2>7, <2>8, <4>1 DEF ToSet
      <4> QED
        BY <1>3, <1>5, <1>14, <2>3, <2>5, <2>6, <3>1, <4>1, <4>2
    <3>2. CASE y # x
      <4>1. y \in WaitingIn(s) /\ y \in Ids
        BY <1>1, <2>10, <3>2 DEF WaitingIn
      <4>2. \A p \in DOMAIN R : ToSet(R[p]) \subseteq ToSet(R2[p])
        <5> SUFFICES ASSUME NEW p \in DOMAIN R PROVE ToSet(R[p]) \subseteq ToSet(R2[p])
          OBVIOUS
        <5>1. CASE p = pos
          BY <2>7, <2>8, <5>1 DEF ToSet, q
        <5>2. CASE p # pos
          BY <2>7, <5>2
        <5> QED
          BY <5>1, <5>2
      <4>3. BUCKET_POS(t, y) = BUCKET_POS(s, y) /\ BUCKET_POS(s, y) \in Int
        BY <1>1, <1>7, <2>9, <3>2, <4>1
      <4> DEFINE to == BUCKET_POS(s, y)
      <4>4. /\ to >= 1 /\ to >= s.practical_offset
            /\ IF to > Len(s.bucket_list) THEN y \in ToSet(s.processing) ELSE y \in ToSet(R[to])
        BY <1>1, <4>1 DEF AllThere
      <4>5. ~(to > Len(s.bucket_list)) => to \in DOMAIN R
        BY <1>1, <4>3, <4>4
      <4> QED
        BY <2>3, <2>5, <2>6, <4>2, <4>3, <4>4, <4>5
    <3> QED
      BY <3>1, <3>2
  <2>13. SpentInFront(t, R2)
    <3> SUFFICES ASSUME NEW p \in DOMAIN R, NEW i \in DOMAIN R2[p], R2[p][i] \in s.hasSpent
                 PROVE  /\ p = s.practical_offset /\ s.head_offset + p <= worldTime
                        /\ \A j \in 1..i : R2[p][j] \in s.hasSpent
      BY <2>6, <2>7 DEF SpentInFront
    <3>1. CASE p # pos
      BY <1>1, <2>7, <3>1 DEF SpentInFront
    <3>2. CASE p = pos
      <4>1. i \in DOMAIN q /\ R2[p][i] = q[i] /\ \A j \in 1..i : j \in DOMAIN q
        BY <1>2, <2>7, <2>8, <3>2
      <4>2. /\ p = s.practical_offset /\ s.head_offset + p <= worldTime
            /\ \A j \in 1..i : q[j] \in s.hasSpent
        BY <1>1, <2>1, <3>2, <4>1 DEF SpentInFront, q
      <4> QED
        BY <2>7, <2>8, <3>2, <4>1, <4>2
    <3> QED
      BY <3>1, <3>2
  <2>14. \A y \in Ids : y > t.made => t.next[y] = None /\ t.prev[y] = None
    <3>1. \A y \in Ids : y > x => y > s.made /\ y # x /\ \A i \in DOMAIN q : y # q[i]
      <4>1. \A i \in DOMAIN q : q[i] \in 1..s.made
        BY <1>1, <2>1 DEF q
      <4> QED
        BY <1>1, <4>1, TimerAssumption DEF x, Ids
    <3> QED
      BY <1>1, <2>3, <2>5, <2>6, <3>1
  <2>15. HashesOK(t)
    BY <1>8, <2>6 DEF HashesOK
  <2>16. TimersOK(t, R2)
    <3>1. s.head_offset + s.practical_offset <= worldTime + 1 /\ Len(s.bucket_list) \in {0, BUCKET_LEN}
      BY DEF TimersOK
    <3> QED
      BY <1>3, <1>4, <1>11, <2>3, <2>4, <2>5, <2>6, <2>11, <2>12, <2>13, <2>14, <2>15, <3>1 DEF TimersOK
  <2>17. \A p \in DOMAIN R : \/ R2[p] = R[p]
                             \/ s.head_offset + p > worldTime /\ R2[p] = Append(R[p], x)
    BY <1>5, <2>7 DEF q
  <2>18. \E R3 : /\ TimersOK(t, R3) /\ DOMAIN R3 = DOMAIN R
                 /\ \A p \in DOMAIN R :
                      \/ R3[p] = R[p]
                      \/ s.head_offset + p > worldTime /\ R3[p] = Append(R[p], x)
    BY <2>7, <2>16, <2>17
  <2> QED
    BY <1>2, <1>4, <2>3, <2>5, <2>6, <2>18 DEF x
<1> QED
  BY <1>13, <1>14

\* The timers of the buckets come in the order of their ticks, and for a tick in that of
\* its ring.
LEMMA InBucketsIs ==
    ASSUME NEW s, NEW R, TimersOK(s, R), NEW l, l = inBuckets(s)
    PROVE  /\ l \in Seq(Ids)
           /\ \A i \in DOMAIN l : \E p \in DOMAIN R : \E k \in DOMAIN R[p] : l[i] = R[p][k]
           /\ \A p \in DOMAIN R : \A k \in DOMAIN R[p] : R[p][k] \in ToSet(l)
           /\ \A i, j \in DOMAIN l :
                i < j /\ BUCKET_POS(s, l[i]) = BUCKET_POS(s, l[j]) => l[i] < l[j]
<1> DEFINE L == Len(s.bucket_list)
<1>1. /\ L \in Nat /\ DOMAIN s.bucket_list = 1..L /\ DOMAIN R = 1..L
      /\ \A y \in Ids : BUCKET_POS(s, y) \in Int
      /\ \A p \in 1..L : /\ IsRing(s, R[p], s.bucket_list[p])
                         /\ \A i \in DOMAIN R[p] : R[p][i] \in s.callBack /\ BUCKET_POS(s, R[p][i]) = p
  BY TimersOKParts
<1>2. \A p \in 1..L : ring(s, s.bucket_list[p]) = R[p] /\ R[p] \in Seq(Ids) /\ Ascends(R[p])
  <2> SUFFICES ASSUME NEW p \in 1..L
               PROVE  ring(s, s.bucket_list[p]) = R[p] /\ R[p] \in Seq(Ids) /\ Ascends(R[p])
    OBVIOUS
  <2>1. IsRing(s, R[p], s.bucket_list[p])
    BY <1>1
  <2>2. ring(s, s.bucket_list[p]) = R[p]
    BY <2>1, RingIs
  <2>3. R[p] \in Seq(Ids) /\ Ascends(R[p])
    BY <2>1 DEF IsRing
  <2> QED
    BY <2>2, <2>3
<1> HIDE DEF L
<1>3. PICK f : StepsIn(f, "collect", s, <<>>, <<>>, L)
  BY <1>1, StepsInExist
<1>4. inBuckets(s) = f[L]
  <2> DEFINE g == CHOOSE g : g = [p \in 0..L |-> IF p = 0 THEN <<>>
                                                ELSE g[p - 1] \o ring(s, s.bucket_list[p])]
  <2>1. f = [p \in 0..L |-> IF p = 0 THEN <<>> ELSE f[p - 1] \o ring(s, s.bucket_list[p])]
    BY <1>3 DEF StepsIn, nextIn
  <2>2. g = [p \in 0..L |-> IF p = 0 THEN <<>> ELSE g[p - 1] \o ring(s, s.bucket_list[p])]
    BY <2>1
  <2>3. inBuckets(s) = g[L]
    BY DEF inBuckets, L
  <2> HIDE DEF g
  <2>4. /\ g[0] = <<>> /\ f[0] = <<>>
        /\ \A p \in 1..L : /\ g[p] = g[p - 1] \o ring(s, s.bucket_list[p])
                           /\ f[p] = f[p - 1] \o ring(s, s.bucket_list[p])
    <3>1. \A p \in 0..L :
             /\ g[p] = IF p = 0 THEN <<>> ELSE g[p - 1] \o ring(s, s.bucket_list[p])
             /\ f[p] = IF p = 0 THEN <<>> ELSE f[p - 1] \o ring(s, s.bucket_list[p])
      BY <2>1, <2>2
    <3>2. 0 \in 0..L /\ \A p \in 1..L : p \in 0..L /\ p # 0
      BY <1>1
    <3> HIDE DEF L
    <3> QED
      BY ONLY <3>1, <3>2
  <2> DEFINE bad == {n \in Nat : n \in 0..L /\ f[n] # g[n]}
  <2>5. bad = {}
    <3> SUFFICES ASSUME bad # {} PROVE FALSE
      OBVIOUS
    <3>1. PICK n \in bad : \A m \in bad : n <= m
      BY LeastNat
    <3>2. n # 0
      BY <2>4
    <3>3. n \in 1..L /\ n - 1 \in 0..L /\ n - 1 \in Nat /\ ~(n <= n - 1)
      BY <1>1, <3>2
    <3>4. f[n - 1] = g[n - 1]
      BY <3>1, <3>3
    <3> QED
      BY <2>4, <3>3, <3>4
  <2>6. L \in Nat /\ L \in 0..L
    BY <1>1
  <2> QED
    BY <2>3, <2>5, <2>6
<1>5. f[0] = <<>> /\ \A n \in 1..L : f[n] = f[n - 1] \o R[n]
  <2>1. f[0] = <<>> /\ \A n \in 1..L : f[n] = nextIn("collect", s, <<>>, f[n - 1], n)
    BY <1>1, <1>3, StepsAre
  <2> QED
    BY <1>2, <2>1 DEF nextIn
<1> DEFINE good(n) ==
      /\ f[n] \in Seq(Ids)
      /\ \A i \in DOMAIN f[n] : \E p \in 1..n : \E k \in DOMAIN R[p] : f[n][i] = R[p][k]
      /\ \A p \in 1..n : \A k \in DOMAIN R[p] : \E i \in DOMAIN f[n] : f[n][i] = R[p][k]
      /\ \A i, j \in DOMAIN f[n] :
           i < j /\ BUCKET_POS(s, f[n][i]) = BUCKET_POS(s, f[n][j]) => f[n][i] < f[n][j]
<1>6. good(0)
  <2>1. f[0] = <<>> /\ <<>> \in Seq(Ids) /\ DOMAIN <<>> = {}
    BY <1>5
  <2> QED
    BY <2>1
<1>7. ASSUME NEW n \in 1..L, good(n - 1) PROVE good(n)
  <2> DEFINE q == f[n - 1]
             r == R[n]
             l2 == q \o r
  <2>0. n \in Nat /\ n >= 1
    BY <1>1
  <2>1. /\ q \in Seq(Ids) /\ r \in Seq(Ids) /\ l2 \in Seq(Ids) /\ f[n] = l2
        /\ Len(q) \in Nat /\ Len(r) \in Nat
        /\ DOMAIN q = 1..Len(q) /\ DOMAIN r = 1..Len(r) /\ DOMAIN l2 = 1..(Len(q) + Len(r))
        /\ \A i \in 1..(Len(q) + Len(r)) : l2[i] = IF i <= Len(q) THEN q[i] ELSE r[i - Len(q)]
    <3>1. q \in Seq(Ids) /\ r \in Seq(Ids) /\ f[n] = l2
      BY <1>2, <1>5, <1>7
    <3> HIDE DEF q, r
    <3> QED
      BY <3>1
  <2>2. /\ \A i \in DOMAIN q : \E p \in 1..(n - 1) : \E k \in DOMAIN R[p] : q[i] = R[p][k]
        /\ \A p \in 1..(n - 1) : \A k \in DOMAIN R[p] : \E i \in DOMAIN q : q[i] = R[p][k]
        /\ \A i, j \in DOMAIN q :
             i < j /\ BUCKET_POS(s, q[i]) = BUCKET_POS(s, q[j]) => q[i] < q[j]
    BY <1>7
  <2>3. \A p \in 1..(n - 1) : p \in 1..L /\ p \in 1..n /\ p < n
    BY <1>1
  <2>4. \A p \in 1..n : p = n \/ p \in 1..(n - 1)
    BY <1>1
  <2>5. /\ \A k \in DOMAIN r : BUCKET_POS(s, r[k]) = n
        /\ \A j, k \in DOMAIN r : j < k => r[j] < r[k]
    BY <1>1, <1>2 DEF Ascends
  <2>6. \A i \in DOMAIN q : BUCKET_POS(s, q[i]) < n
    BY <1>1, <2>2, <2>3
  <2> HIDE DEF l2, q
  <2>7. \A i \in 1..(Len(q) + Len(r)) : \/ i \in DOMAIN q /\ l2[i] = q[i]
                                        \/ i - Len(q) \in DOMAIN r /\ l2[i] = r[i - Len(q)] /\ i > Len(q)
    BY <2>1
  <2>8. \A i \in DOMAIN l2 : \E p \in 1..n : \E k \in DOMAIN R[p] : l2[i] = R[p][k]
    <3> SUFFICES ASSUME NEW i \in DOMAIN l2 PROVE \E p \in 1..n : \E k \in DOMAIN R[p] : l2[i] = R[p][k]
      OBVIOUS
    <3>1. n \in 1..n
      BY <2>0
    <3>2. CASE i \in DOMAIN q /\ l2[i] = q[i]
      BY <2>2, <2>3, <3>2
    <3>3. CASE i - Len(q) \in DOMAIN r /\ l2[i] = r[i - Len(q)]
      BY <3>1, <3>3
    <3> QED
      BY <2>1, <2>7, <3>2, <3>3
  <2>9. \A p \in 1..n : \A k \in DOMAIN R[p] : \E i \in DOMAIN l2 : l2[i] = R[p][k]
    <3> SUFFICES ASSUME NEW p \in 1..n, NEW k \in DOMAIN R[p] PROVE \E i \in DOMAIN l2 : l2[i] = R[p][k]
      OBVIOUS
    <3>1. CASE p = n
      <4>1. k \in 1..Len(r) /\ R[p][k] = r[k]
        BY <2>1, <3>1
      <4> HIDE DEF r
      <4>2. k + Len(q) \in DOMAIN l2 /\ l2[k + Len(q)] = r[k]
        BY <2>1, <4>1
      <4> QED
        BY <4>1, <4>2
    <3>2. CASE p \in 1..(n - 1)
      <4>1. PICK i \in DOMAIN q : q[i] = R[p][k]
        BY <2>2, <3>2
      <4> HIDE DEF r
      <4>2. i \in DOMAIN l2 /\ l2[i] = q[i]
        BY <2>1
      <4> QED
        BY <4>1, <4>2
    <3> QED
      BY <2>4, <3>1, <3>2
  <2>10. ASSUME NEW i \in DOMAIN l2, NEW j \in DOMAIN l2, i < j,
                BUCKET_POS(s, l2[i]) = BUCKET_POS(s, l2[j])
         PROVE  l2[i] < l2[j]
    <3> HIDE DEF r
    <3>1. CASE j \in DOMAIN q /\ l2[j] = q[j]
      <4>1. i \in DOMAIN q /\ l2[i] = q[i]
        BY <2>1, <2>10, <3>1
      <4> QED
        BY <2>2, <2>10, <3>1, <4>1
    <3>2. CASE j - Len(q) \in DOMAIN r /\ l2[j] = r[j - Len(q)]
      <4>1. CASE i \in DOMAIN q /\ l2[i] = q[i]
        BY <2>0, <2>5, <2>6, <2>10, <3>2, <4>1
      <4>2. CASE i - Len(q) \in DOMAIN r /\ l2[i] = r[i - Len(q)]
        <5>1. i - Len(q) < j - Len(q)
          BY <2>1, <2>10
        <5> QED
          BY <2>5, <3>2, <4>2, <5>1
      <4> QED
        BY <2>1, <2>7, <4>1, <4>2
    <3> QED
      BY <2>1, <2>7, <3>1, <3>2
  <2> QED
    BY <2>1, <2>8, <2>9, <2>10
<1> HIDE DEF good
<1>8. good(L)
  <2> DEFINE bad == {n \in Nat : n \in 0..L /\ ~good(n)}
  <2>1. bad = {}
    <3> SUFFICES ASSUME bad # {} PROVE FALSE
      OBVIOUS
    <3>1. PICK n \in bad : \A m \in bad : n <= m
      BY LeastNat
    <3>2. n # 0
      BY <1>6
    <3>3. n \in 1..L /\ n - 1 \in 0..L /\ n - 1 \in Nat /\ ~(n <= n - 1)
      BY <1>1, <3>2
    <3>4. good(n - 1)
      BY <3>1, <3>3
    <3> QED
      BY <1>7, <3>3, <3>4
  <2>2. L \in Nat /\ L \in 0..L
    BY <1>1
  <2> QED
    BY <2>1, <2>2
<1>9. f[L] = l
  BY <1>4
<1>10. /\ l \in Seq(Ids)
       /\ \A i \in DOMAIN l : \E p \in 1..L : \E k \in DOMAIN R[p] : l[i] = R[p][k]
       /\ \A p \in 1..L : \A k \in DOMAIN R[p] : \E i \in DOMAIN l : l[i] = R[p][k]
       /\ \A i, j \in DOMAIN l :
            i < j /\ BUCKET_POS(s, l[i]) = BUCKET_POS(s, l[j]) => l[i] < l[j]
  BY <1>8, <1>9 DEF good
<1>11. \A p \in 1..L : \A k \in DOMAIN R[p] : R[p][k] \in ToSet(l)
  BY <1>10 DEF ToSet
<1>12. DOMAIN R = 1..L
  BY <1>1
<1>13. /\ \A i \in DOMAIN l : \E p \in DOMAIN R : \E k \in DOMAIN R[p] : l[i] = R[p][k]
       /\ \A p \in DOMAIN R : \A k \in DOMAIN R[p] : R[p][k] \in ToSet(l)
  BY ONLY <1>10, <1>11, <1>12
<1> QED
  BY ONLY <1>10, <1>13

\* What a shift goes through: all that wait, in an order that keeps those of a tick, and
\* the later ones, as they were made.
LEMMA AllTimersAre ==
    ASSUME NEW s, NEW R, TimersOK(s, R), NEW q, q = inBuckets(s) \o s.processing
    PROVE  /\ q \in Seq(Ids)
           /\ \A i \in DOMAIN q : q[i] \in s.callBack /\ BUCKET_POS(s, q[i]) >= 1
           /\ \A i \in DOMAIN q : BUCKET_POS(s, q[i]) > Len(s.bucket_list) =>
                q[i] \in WaitingIn(s) /\ s.next[q[i]] = None /\ s.prev[q[i]] = None
           /\ WaitingIn(s) \subseteq ToSet(q)
           /\ \A i, j \in DOMAIN q :
                /\ i < j
                /\ \/ BUCKET_POS(s, q[i]) = BUCKET_POS(s, q[j])
                   \/ /\ BUCKET_POS(s, q[i]) > Len(s.bucket_list)
                      /\ BUCKET_POS(s, q[j]) > Len(s.bucket_list)
                => q[i] < q[j]
<1> DEFINE L == Len(s.bucket_list)
           l == inBuckets(s)
           m == s.processing
<1>1. /\ LaterOK(s) /\ AllThere(s, R) /\ s.callBack \subseteq Ids
      /\ L \in Nat /\ DOMAIN s.bucket_list = 1..L /\ DOMAIN R = 1..L
      /\ \A y \in Ids : BUCKET_POS(s, y) \in Int
      /\ m \in Seq(Ids)
      /\ \A p \in 1..L : \A i \in DOMAIN R[p] : R[p][i] \in s.callBack /\ BUCKET_POS(s, R[p][i]) = p
  BY TimersOKParts
<1>2. /\ l \in Seq(Ids)
      /\ \A i \in DOMAIN l : \E p \in DOMAIN R : \E k \in DOMAIN R[p] : l[i] = R[p][k]
      /\ \A p \in DOMAIN R : \A k \in DOMAIN R[p] : R[p][k] \in ToSet(l)
      /\ \A i, j \in DOMAIN l :
           i < j /\ BUCKET_POS(s, l[i]) = BUCKET_POS(s, l[j]) => l[i] < l[j]
  BY InBucketsIs
<1> HIDE DEF l
<1>3. /\ \A i \in DOMAIN l : l[i] \in s.callBack /\ l[i] \in Ids
                             /\ BUCKET_POS(s, l[i]) >= 1 /\ BUCKET_POS(s, l[i]) <= L
      /\ \A i \in DOMAIN m : m[i] \in WaitingIn(s) /\ m[i] \in s.callBack /\ m[i] \in Ids
                             /\ BUCKET_POS(s, m[i]) > L /\ s.next[m[i]] = None /\ s.prev[m[i]] = None
      /\ \A i, j \in DOMAIN m : i < j => m[i] < m[j]
  <2>1. \A i \in DOMAIN l : l[i] \in s.callBack /\ l[i] \in Ids
                             /\ BUCKET_POS(s, l[i]) >= 1 /\ BUCKET_POS(s, l[i]) <= L
    <3> SUFFICES ASSUME NEW i \in DOMAIN l
                 PROVE  l[i] \in s.callBack /\ l[i] \in Ids
                        /\ BUCKET_POS(s, l[i]) >= 1 /\ BUCKET_POS(s, l[i]) <= L
      OBVIOUS
    <3>1. PICK p \in 1..L : \E k \in DOMAIN R[p] : l[i] = R[p][k]
      BY <1>1, <1>2
    <3>2. p \in Int /\ p >= 1 /\ p <= L
      BY <1>1
    <3> QED
      BY <1>1, <3>1, <3>2
  <2>2. \A i \in DOMAIN m : m[i] \in WaitingIn(s) /\ m[i] \in s.callBack /\ m[i] \in Ids
                             /\ BUCKET_POS(s, m[i]) > L /\ s.next[m[i]] = None /\ s.prev[m[i]] = None
    BY <1>1 DEF LaterOK, WaitingIn
  <2>3. \A i, j \in DOMAIN m : i < j => m[i] < m[j]
    BY <1>1 DEF LaterOK, Ascends
  <2> QED
    BY <2>1, <2>2, <2>3
<1>4. WaitingIn(s) \subseteq ToSet(l) \cup ToSet(m)
  <2> SUFFICES ASSUME NEW x \in WaitingIn(s) PROVE x \in ToSet(l) \cup ToSet(m)
    OBVIOUS
  <2> DEFINE pos == BUCKET_POS(s, x)
  <2>1. pos >= 1 /\ pos \in Int /\ IF pos > L THEN x \in ToSet(m) ELSE x \in ToSet(R[pos])
    BY <1>1 DEF AllThere, WaitingIn
  <2>2. CASE ~(pos > L)
    <3>1. pos \in DOMAIN R /\ x \in ToSet(R[pos])
      BY <1>1, <2>1, <2>2
    <3>2. PICK k \in DOMAIN R[pos] : R[pos][k] = x
      BY <3>1 DEF ToSet
    <3> QED
      BY <1>2, <3>1, <3>2
  <2> QED
    BY <2>1, <2>2
<1> HIDE DEF m
<1>5. /\ q \in Seq(Ids) /\ Len(l) \in Nat /\ Len(m) \in Nat
      /\ DOMAIN l = 1..Len(l) /\ DOMAIN m = 1..Len(m) /\ DOMAIN q = 1..(Len(l) + Len(m))
      /\ \A i \in 1..(Len(l) + Len(m)) : q[i] = IF i <= Len(l) THEN l[i] ELSE m[i - Len(l)]
  <2>1. q = l \o m
    BY DEF l, m
  <2> QED
    BY <1>1, <1>2, <2>1
<1>6. \A i \in DOMAIN q : \/ i \in DOMAIN l /\ q[i] = l[i]
                          \/ i - Len(l) \in DOMAIN m /\ q[i] = m[i - Len(l)] /\ i > Len(l)
  <2> SUFFICES ASSUME NEW i \in DOMAIN q
               PROVE  \/ i \in DOMAIN l /\ q[i] = l[i]
                      \/ i - Len(l) \in DOMAIN m /\ q[i] = m[i - Len(l)] /\ i > Len(l)
    OBVIOUS
  <2>1. i \in 1..(Len(l) + Len(m)) /\ q[i] = IF i <= Len(l) THEN l[i] ELSE m[i - Len(l)]
    BY <1>5
  <2>2. \/ i \in 1..Len(l) /\ i <= Len(l)
        \/ i - Len(l) \in 1..Len(m) /\ i > Len(l) /\ ~(i <= Len(l))
    BY <1>5, <2>1
  <2> QED
    BY <1>5, <2>1, <2>2
<1>7. ToSet(l) \cup ToSet(m) \subseteq ToSet(q)
  <2>1. \A i \in DOMAIN l : i \in DOMAIN q /\ q[i] = l[i]
    BY <1>5
  <2>2. \A i \in DOMAIN m : i + Len(l) \in DOMAIN q /\ q[i + Len(l)] = m[i]
    BY <1>5
  <2> QED
    BY <2>1, <2>2 DEF ToSet
<1>8. ASSUME NEW i \in DOMAIN q
      PROVE  /\ q[i] \in s.callBack /\ BUCKET_POS(s, q[i]) >= 1
             /\ BUCKET_POS(s, q[i]) > L => q[i] \in WaitingIn(s) /\ s.next[q[i]] = None /\ s.prev[q[i]] = None
  <2>1. CASE i \in DOMAIN l /\ q[i] = l[i]
    <3>1. BUCKET_POS(s, l[i]) \in Int /\ L \in Int
      BY <1>1, <1>3, <2>1
    <3> QED
      BY <1>3, <2>1, <3>1
  <2>2. CASE i - Len(l) \in DOMAIN m /\ q[i] = m[i - Len(l)]
    <3>1. BUCKET_POS(s, q[i]) \in Int /\ L \in Nat
      BY <1>1, <1>3, <2>2
    <3> QED
      BY <1>3, <2>2, <3>1
  <2> QED
    BY <1>6, <2>1, <2>2
<1>9. ASSUME NEW i \in DOMAIN q, NEW j \in DOMAIN q, i < j,
             \/ BUCKET_POS(s, q[i]) = BUCKET_POS(s, q[j])
             \/ BUCKET_POS(s, q[i]) > L /\ BUCKET_POS(s, q[j]) > L
      PROVE  q[i] < q[j]
  <2>1. CASE i \in DOMAIN l /\ q[i] = l[i]
    <3>0. BUCKET_POS(s, l[i]) \in Int /\ L \in Int /\ BUCKET_POS(s, l[i]) <= L
      BY <1>1, <1>3, <2>1
    <3>1. CASE j \in DOMAIN l /\ q[j] = l[j]
      BY <1>2, <1>9, <2>1, <3>0, <3>1
    <3>2. CASE j - Len(l) \in DOMAIN m /\ q[j] = m[j - Len(l)]
      <4>1. BUCKET_POS(s, q[j]) \in Int /\ BUCKET_POS(s, q[j]) > L
        BY <1>1, <1>3, <3>2
      <4> QED
        BY <1>9, <2>1, <3>0, <4>1
    <3> QED
      BY <1>6, <3>1, <3>2
  <2>2. CASE i - Len(l) \in DOMAIN m /\ q[i] = m[i - Len(l)] /\ i > Len(l)
    <3>1. j - Len(l) \in DOMAIN m /\ q[j] = m[j - Len(l)] /\ i - Len(l) < j - Len(l)
      BY <1>5, <1>6, <1>9, <2>2
    <3> QED
      BY <1>3, <2>2, <3>1
  <2> QED
    BY <1>6, <2>1, <2>2
<1> QED
  BY <1>4, <1>5, <1>7, <1>8, <1>9 DEF L

\* What holds of a shift when n of the timers q are placed, from the empty buckets of s on.
Placed(s, q, n, t, Q) ==
    /\ t \in SubsystemState /\ Kept(s, t) /\ Len(t.bucket_list) = BUCKET_LEN
    /\ Rings(t, Q) /\ Ascends(t.processing)
    /\ \A p \in DOMAIN Q : \A i \in DOMAIN Q[p] :
         Q[p][i] \notin s.hasSpent /\ \E j \in 1..n : Q[p][i] = q[j]
    /\ \A i \in DOMAIN t.processing :
         \E j \in 1..n : t.processing[i] = q[j] /\ BUCKET_POS(s, q[j]) > BUCKET_LEN
    /\ \A j \in 1..n : q[j] \notin s.hasSpent =>
         IF BUCKET_POS(s, q[j]) > BUCKET_LEN THEN q[j] \in ToSet(t.processing)
         ELSE q[j] \in ToSet(Q[BUCKET_POS(s, q[j])])
    /\ \A j \in DOMAIN q : BUCKET_POS(s, q[j]) > BUCKET_LEN =>
         t.next[q[j]] = None /\ t.prev[q[j]] = None
    /\ \A y \in Ids : y > s.made => t.next[y] = None /\ t.prev[y] = None

\* The order in which the timers of a shift have to come.
Placeable(s, q) ==
    /\ s \in SubsystemState /\ q \in Seq(Ids) /\ s.callBack \subseteq 1..s.made
    /\ \A i \in DOMAIN q : q[i] \in s.callBack /\ BUCKET_POS(s, q[i]) >= 1
    /\ \A i, j \in DOMAIN q :
         /\ i < j
         /\ \/ BUCKET_POS(s, q[i]) = BUCKET_POS(s, q[j])
            \/ BUCKET_POS(s, q[i]) > BUCKET_LEN /\ BUCKET_POS(s, q[j]) > BUCKET_LEN
         => q[i] < q[j]

LEMMA PlacedNext ==
    ASSUME NEW s, NEW q, Placeable(s, q), NEW n \in Nat, n + 1 \in DOMAIN q,
           NEW t, NEW Q, Placed(s, q, n, t, Q)
    PROVE  \E Q2 : Placed(s, q, n + 1, placed(t, q[n + 1]), Q2)
<1> DEFINE x   == q[n + 1]
           pos == BUCKET_POS(s, x)
           t2  == placed(t, x)
<1>1. /\ t \in SubsystemState /\ Kept(s, t) /\ Len(t.bucket_list) = BUCKET_LEN
      /\ Rings(t, Q) /\ Ascends(t.processing)
      /\ \A p \in DOMAIN Q : \A i \in DOMAIN Q[p] :
           Q[p][i] \notin s.hasSpent /\ \E j \in 1..n : Q[p][i] = q[j]
      /\ \A i \in DOMAIN t.processing :
           \E j \in 1..n : t.processing[i] = q[j] /\ BUCKET_POS(s, q[j]) > BUCKET_LEN
      /\ \A j \in 1..n : q[j] \notin s.hasSpent =>
           IF BUCKET_POS(s, q[j]) > BUCKET_LEN THEN q[j] \in ToSet(t.processing)
           ELSE q[j] \in ToSet(Q[BUCKET_POS(s, q[j])])
      /\ \A j \in DOMAIN q : BUCKET_POS(s, q[j]) > BUCKET_LEN =>
           t.next[q[j]] = None /\ t.prev[q[j]] = None
      /\ \A y \in Ids : y > s.made => t.next[y] = None /\ t.prev[y] = None
  BY DEF Placed
<1>2. /\ s \in SubsystemState /\ q \in Seq(Ids) /\ s.callBack \subseteq 1..s.made
      /\ \A i \in DOMAIN q : q[i] \in s.callBack /\ BUCKET_POS(s, q[i]) >= 1
      /\ \A i, j \in DOMAIN q :
           /\ i < j
           /\ \/ BUCKET_POS(s, q[i]) = BUCKET_POS(s, q[j])
              \/ BUCKET_POS(s, q[i]) > BUCKET_LEN /\ BUCKET_POS(s, q[j]) > BUCKET_LEN
           => q[i] < q[j]
  BY DEF Placeable
<1>3. /\ s.callBack \subseteq Ids /\ s.made \in Nat /\ BUCKET_LEN \in Nat
      /\ DOMAIN t.bucket_list = 1..BUCKET_LEN /\ t.processing \in Seq(Ids)
      /\ t.next \in [Ids -> Ids \cup {None}] /\ t.prev \in [Ids -> Ids \cup {None}]
      /\ \A y \in Ids : BUCKET_POS(s, y) \in Int
  <2>1. t.bucket_list \in Seq(Ids \cup {None}) /\ t.processing \in Seq(Ids)
        /\ t.next \in [Ids -> Ids \cup {None}] /\ t.prev \in [Ids -> Ids \cup {None}]
    BY <1>1, FieldsAre
  <2>2. s.callBack \in SUBSET Ids /\ s.made \in 0..MaxTimedEvents /\ s.timeToRun \in [Ids -> Nat]
        /\ s.head_offset \in Nat
    BY <1>2, FieldsAre
  <2>3. \A y \in Ids : BUCKET_POS(s, y) \in Int
    BY <2>2 DEF BUCKET_POS
  <2>4. s.made \in Nat /\ BUCKET_LEN \in Nat
    BY <2>2, TimerAssumption
  <2>5. DOMAIN t.bucket_list = 1..BUCKET_LEN
    BY <1>1, <2>1
  <2> QED
    BY <2>1, <2>2, <2>3, <2>4, <2>5
<1>4. /\ x \in s.callBack /\ x \in Ids /\ pos >= 1 /\ pos \in Int
      /\ t.callBack = s.callBack /\ t.hasSpent = s.hasSpent
      /\ \A y : BUCKET_POS(t, y) = BUCKET_POS(s, y)
  <2>1. \A y : BUCKET_POS(t, y) = BUCKET_POS(s, y)
    BY <1>1 DEF BUCKET_POS, Kept
  <2> QED
    BY <1>1, <1>2, <1>3, <2>1 DEF Kept
<1>5. \A j \in 1..n : j \in DOMAIN q /\ j < n + 1 /\ j \in 1..(n + 1)
  <2>1. DOMAIN q = 1..Len(q) /\ Len(q) \in Nat
    BY <1>2
  <2> QED
    BY <2>1
<1>6. \A j \in 1..(n + 1) : j \in 1..n \/ j = n + 1
  OBVIOUS
<1>7. n + 1 \in 1..(n + 1)
  OBVIOUS
<1> HIDE DEF x
<1>8. CASE pos > BUCKET_LEN
  <2> DEFINE pr == Append(t.processing, x)
  <2>1. t2 = [t EXCEPT !.processing = pr]
    BY <1>4, <1>8 DEF placed
  <2>2. /\ pr \in Seq(Ids) /\ DOMAIN pr = 1..(Len(t.processing) + 1) /\ Len(t.processing) \in Nat
        /\ pr[Len(t.processing) + 1] = x /\ DOMAIN t.processing = 1..Len(t.processing)
        /\ \A i \in DOMAIN t.processing : i \in DOMAIN pr /\ pr[i] = t.processing[i]
        /\ \A i \in DOMAIN pr : i \in DOMAIN t.processing \/ i = Len(t.processing) + 1
    BY <1>3, <1>4
  <2> HIDE DEF pr, t2
  <2>3. t2 \in SubsystemState
    BY <1>1, <2>1, <2>2 DEF SubsystemState
  <2>4. /\ Kept(t, t2) /\ t2.bucket_list = t.bucket_list /\ t2.next = t.next /\ t2.prev = t.prev
        /\ t2.processing = pr
    BY <1>1, <2>1 DEF SubsystemState, Kept
  <2>5. Kept(s, t2) /\ \A y : BUCKET_POS(t2, y) = BUCKET_POS(t, y)
    BY <1>1, <2>4 DEF Kept, BUCKET_POS
  <2>6. Rings(t2, Q)
    <3>1. t2.callBack = t.callBack
      BY <2>4 DEF Kept
    <3> QED
      BY <1>1, <2>4, <2>5, <3>1 DEF Rings, IsRing
  <2>7. Ascends(pr)
    <3> SUFFICES ASSUME NEW i \in DOMAIN pr, NEW j \in DOMAIN pr, i < j PROVE pr[i] < pr[j]
      BY DEF Ascends
    <3>1. i \in DOMAIN t.processing /\ pr[i] = t.processing[i]
      BY <2>2
    <3>2. CASE j \in DOMAIN t.processing
      BY <1>1, <2>2, <3>1, <3>2 DEF Ascends
    <3>3. CASE j = Len(t.processing) + 1
      <4>1. PICK k \in 1..n : t.processing[i] = q[k] /\ BUCKET_POS(s, q[k]) > BUCKET_LEN
        BY <1>1, <3>1
      <4>2. q[k] < q[n + 1]
        BY <1>2, <1>5, <1>8, <4>1 DEF x
      <4> QED
        BY <2>2, <3>1, <3>3, <4>1, <4>2 DEF x
    <3> QED
      BY <2>2, <3>2, <3>3
  <2>8. \A i \in DOMAIN pr : \E j \in 1..(n + 1) : pr[i] = q[j] /\ BUCKET_POS(s, q[j]) > BUCKET_LEN
    <3> SUFFICES ASSUME NEW i \in DOMAIN pr
                 PROVE  \E j \in 1..(n + 1) : pr[i] = q[j] /\ BUCKET_POS(s, q[j]) > BUCKET_LEN
      OBVIOUS
    <3>1. CASE i \in DOMAIN t.processing
      <4>1. PICK j \in 1..n : t.processing[i] = q[j] /\ BUCKET_POS(s, q[j]) > BUCKET_LEN
        BY <1>1, <3>1
      <4>2. j \in 1..(n + 1) /\ pr[i] = q[j]
        BY <1>5, <2>2, <3>1, <4>1
      <4> QED
        BY <4>1, <4>2
    <3>2. CASE i = Len(t.processing) + 1
      BY <1>7, <1>8, <2>2, <3>2 DEF x
    <3> QED
      BY <2>2, <3>1, <3>2
  <2>9. ToSet(t.processing) \subseteq ToSet(pr) /\ x \in ToSet(pr)
    <3>1. Len(t.processing) + 1 \in DOMAIN pr
      BY <2>2
    <3> QED
      BY <2>2, <3>1 DEF ToSet
  <2>10. ASSUME NEW j \in 1..(n + 1), q[j] \notin s.hasSpent
         PROVE  IF BUCKET_POS(s, q[j]) > BUCKET_LEN THEN q[j] \in ToSet(pr)
                ELSE q[j] \in ToSet(Q[BUCKET_POS(s, q[j])])
    <3>1. CASE j \in 1..n
      BY <1>1, <2>9, <2>10, <3>1
    <3>2. CASE j = n + 1
      BY <1>8, <2>9, <3>2 DEF x
    <3> QED
      BY <1>6, <3>1, <3>2
  <2>11. Placed(s, q, n + 1, t2, Q)
    <3>1. \A p \in DOMAIN Q : \A i \in DOMAIN Q[p] :
            Q[p][i] \notin s.hasSpent /\ \E j \in 1..(n + 1) : Q[p][i] = q[j]
      BY <1>1, <1>5
    <3> QED
      BY <1>1, <2>3, <2>4, <2>5, <2>6, <2>7, <2>8, <2>10, <3>1 DEF Placed
  <2> QED
    BY <2>11 DEF t2, x
<1>9. CASE ~(pos > BUCKET_LEN) /\ x \in s.hasSpent
  <2>1. t2 = t
    BY <1>4, <1>9 DEF placed
  <2>2. Placed(s, q, n + 1, t, Q)
    <3>1. \A p \in DOMAIN Q : \A i \in DOMAIN Q[p] :
            Q[p][i] \notin s.hasSpent /\ \E j \in 1..(n + 1) : Q[p][i] = q[j]
      BY <1>1, <1>5
    <3>2. \A i \in DOMAIN t.processing :
            \E j \in 1..(n + 1) : t.processing[i] = q[j] /\ BUCKET_POS(s, q[j]) > BUCKET_LEN
      BY <1>1, <1>5
    <3>3. \A j \in 1..(n + 1) : q[j] \notin s.hasSpent =>
            IF BUCKET_POS(s, q[j]) > BUCKET_LEN THEN q[j] \in ToSet(t.processing)
            ELSE q[j] \in ToSet(Q[BUCKET_POS(s, q[j])])
      BY <1>1, <1>6, <1>9 DEF x
    <3> QED
      BY <1>1, <3>1, <3>2, <3>3 DEF Placed
  <2> QED
    BY <2>1, <2>2 DEF x
<1>10. CASE ~(pos > BUCKET_LEN) /\ x \notin s.hasSpent
  <2> DEFINE Q2 == [Q EXCEPT ![pos] = Append(@, x)]
  <2>1. t2 = linked(t, x)
    BY <1>4, <1>10 DEF placed
  <2>2. pos \in DOMAIN t.bucket_list /\ pos = BUCKET_POS(t, x)
    BY <1>3, <1>4, <1>10
  <2>3. /\ Q \in [DOMAIN t.bucket_list -> Seq(Ids)] /\ DOMAIN Q = DOMAIN t.bucket_list
        /\ \A p \in DOMAIN Q : \A i \in DOMAIN Q[p] :
             Q[p][i] \in s.callBack /\ Q[p][i] \in Ids /\ BUCKET_POS(s, Q[p][i]) = p
    BY <1>1, <1>3, <1>4 DEF Rings
  <2>4. \A i \in DOMAIN Q[pos] : Q[pos][i] < x
    <3> SUFFICES ASSUME NEW i \in DOMAIN Q[pos] PROVE Q[pos][i] < x
      OBVIOUS
    <3>1. PICK j \in 1..n : Q[pos][i] = q[j]
      BY <1>1, <2>2, <2>3
    <3>2. BUCKET_POS(s, q[j]) = pos
      BY <2>2, <2>3, <3>1
    <3>3. q[j] < q[n + 1]
      BY <1>2, <1>5, <3>2 DEF x
    <3> QED
      BY <3>1, <3>3 DEF x
  <2> HIDE DEF t2
  <2>5. /\ Relinked(t, t2) /\ t2.processing = t.processing
        /\ Len(t2.bucket_list) = Len(t.bucket_list)
        /\ Rings(t2, Q2)
        /\ \A y \in Ids : y # x /\ (\A i \in DOMAIN Q[pos] : y # Q[pos][i]) =>
             t2.next[y] = t.next[y] /\ t2.prev[y] = t.prev[y]
    <3> DEFINE k == pos
    <3>1. k = BUCKET_POS(t, x) /\ k \in DOMAIN t.bucket_list /\ \A i \in DOMAIN Q[k] : Q[k][i] < x
      BY <2>2, <2>4
    <3>2. x \in t.callBack
      BY <1>4
    <3> HIDE DEF k
    <3>3. /\ Relinked(t, t2) /\ t2.processing = t.processing
          /\ Len(t2.bucket_list) = Len(t.bucket_list)
          /\ Rings(t2, [Q EXCEPT ![k] = Append(@, x)])
          /\ \A y \in Ids : y # x /\ (\A i \in DOMAIN Q[k] : y # Q[k][i]) =>
               t2.next[y] = t.next[y] /\ t2.prev[y] = t.prev[y]
      <4>1. t \in SubsystemState /\ Rings(t, Q)
        BY <1>1
      <4> QED
        BY ONLY <2>1, <3>1, <3>2, <4>1, LinkedKeeps
    <3> QED
      BY <3>3 DEF k
  <2>6. /\ DOMAIN Q2 = DOMAIN Q /\ Q2[pos] = Append(Q[pos], x)
        /\ \A p \in DOMAIN Q : p # pos => Q2[p] = Q[p]
    BY <2>2, <2>3
  <2>7. /\ DOMAIN Q[pos] = 1..Len(Q[pos]) /\ Len(Q[pos]) \in Nat
        /\ DOMAIN Append(Q[pos], x) = 1..(Len(Q[pos]) + 1)
        /\ (\A i \in DOMAIN Q[pos] : Append(Q[pos], x)[i] = Q[pos][i])
        /\ Append(Q[pos], x)[Len(Q[pos]) + 1] = x
    <3> DEFINE r == Q[pos]
    <3>1. r \in Seq(Ids)
      BY <2>2, <2>3
    <3> HIDE DEF r
    <3>2. /\ DOMAIN r = 1..Len(r) /\ Len(r) \in Nat
          /\ DOMAIN Append(r, x) = 1..(Len(r) + 1)
          /\ (\A i \in DOMAIN r : Append(r, x)[i] = r[i])
          /\ Append(r, x)[Len(r) + 1] = x
      BY <1>4, <3>1
    <3> QED
      BY <3>2 DEF r
  <2> HIDE DEF Q2
  <2>8. t2 \in SubsystemState /\ Kept(s, t2)
    <3>1. t2 \in SubsystemState /\ Kept(t, t2)
      BY <1>1, <2>5, RelinkedIs
    <3> QED
      BY <1>1, <3>1 DEF Kept
  <2>9. ASSUME NEW p \in DOMAIN Q2, NEW i \in DOMAIN Q2[p]
        PROVE  Q2[p][i] \notin s.hasSpent /\ \E j \in 1..(n + 1) : Q2[p][i] = q[j]
    <3>1. CASE p = pos
      <4>1. CASE i \in DOMAIN Q[pos]
        <5>1. Q2[p][i] = Q[pos][i]
          BY <2>6, <2>7, <3>1, <4>1
        <5> QED
          BY <1>1, <1>5, <2>2, <2>3, <4>1, <5>1
      <4>2. CASE i \notin DOMAIN Q[pos]
        <5>1. i = Len(Q[pos]) + 1 /\ Q2[p][i] = x
          BY <2>6, <2>7, <3>1, <4>2
        <5> QED
          BY <1>7, <1>10, <5>1 DEF x
      <4> QED
        BY <4>1, <4>2
    <3>2. CASE p # pos
      BY <1>1, <1>5, <2>6, <3>2
    <3> QED
      BY <3>1, <3>2
  <2>10. \A p \in DOMAIN Q : ToSet(Q[p]) \subseteq ToSet(Q2[p])
    <3> SUFFICES ASSUME NEW p \in DOMAIN Q PROVE ToSet(Q[p]) \subseteq ToSet(Q2[p])
      OBVIOUS
    <3>1. CASE p = pos
      <4>1. \A i \in DOMAIN Q[pos] : i \in DOMAIN Q2[pos] /\ Q2[pos][i] = Q[pos][i]
        BY <2>6, <2>7
      <4> QED
        BY <3>1, <4>1 DEF ToSet
    <3>2. CASE p # pos
      BY <2>6, <3>2
    <3> QED
      BY <3>1, <3>2
  <2>11. x \in ToSet(Q2[pos])
    <3>1. Len(Q[pos]) + 1 \in 1..(Len(Q[pos]) + 1)
      BY <2>7
    <3> QED
      BY <2>6, <2>7, <3>1 DEF ToSet
  <2>12. ASSUME NEW j \in 1..(n + 1), q[j] \notin s.hasSpent
         PROVE  IF BUCKET_POS(s, q[j]) > BUCKET_LEN THEN q[j] \in ToSet(t.processing)
                ELSE q[j] \in ToSet(Q2[BUCKET_POS(s, q[j])])
    <3>1. CASE j \in 1..n
      <4>1. IF BUCKET_POS(s, q[j]) > BUCKET_LEN THEN q[j] \in ToSet(t.processing)
            ELSE q[j] \in ToSet(Q[BUCKET_POS(s, q[j])])
        BY <1>1, <2>12, <3>1
      <4>2. ~(BUCKET_POS(s, q[j]) > BUCKET_LEN) => BUCKET_POS(s, q[j]) \in DOMAIN Q
        <5>1. BUCKET_POS(s, q[j]) >= 1 /\ BUCKET_POS(s, q[j]) \in Int
          BY <1>2, <1>3, <1>5, <3>1
        <5> QED
          BY <1>3, <2>3, <5>1
      <4> QED
        BY <2>10, <4>1, <4>2
    <3>2. CASE j = n + 1
      BY <1>10, <2>11, <3>2 DEF x
    <3> QED
      BY <1>6, <3>1, <3>2
  <2>13. ASSUME NEW j \in DOMAIN q, BUCKET_POS(s, q[j]) > BUCKET_LEN
         PROVE  t2.next[q[j]] = None /\ t2.prev[q[j]] = None
    <3>1. t.next[q[j]] = None /\ t.prev[q[j]] = None /\ q[j] \in Ids
      BY <1>1, <1>2, <1>3, <2>13
    <3>2. q[j] # x /\ \A i \in DOMAIN Q[pos] : q[j] # Q[pos][i]
      <4>1. \A i \in DOMAIN Q[pos] : BUCKET_POS(s, Q[pos][i]) = pos
        BY <2>2, <2>3
      <4> QED
        BY <1>10, <2>13, <4>1
    <3> QED
      BY <2>5, <3>1, <3>2
  <2>14. ASSUME NEW y \in Ids, y > s.made PROVE t2.next[y] = None /\ t2.prev[y] = None
    <3>1. y \notin s.callBack
      BY <1>2, <1>3, <2>14
    <3>2. y # x /\ \A i \in DOMAIN Q[pos] : y # Q[pos][i]
      BY <1>4, <2>2, <2>3, <3>1
    <3> QED
      BY <1>1, <2>5, <2>14, <3>2
  <2>15. \A i \in DOMAIN t.processing :
            \E j \in 1..(n + 1) : t.processing[i] = q[j] /\ BUCKET_POS(s, q[j]) > BUCKET_LEN
    BY <1>1, <1>5
  <2>16. Placed(s, q, n + 1, t2, Q2)
    BY <1>1, <2>5, <2>8, <2>9, <2>12, <2>13, <2>14, <2>15 DEF Placed
  <2> QED
    BY <2>16 DEF t2, x
<1> QED
  BY <1>8, <1>9, <1>10

\* shift_buckets() makes the rings anew: of all that wait, and of no timer that ran.
LEMMA ShiftIs ==
    ASSUME NEW s, NEW R, TimersOK(s, R), worldTime \in Nat, NEW t, t = shift_buckets(s)
    PROVE  /\ t.hasSpent = s.hasSpent /\ t.resolution /\ Len(t.bucket_list) = BUCKET_LEN
           /\ \E Q : TimersOK(t, Q) /\ NoneSpent(t, Q)
<1> DEFINE q     == inBuckets(s) \o s.processing
           times == {s.timeToRun[x] : x \in ToSet(q)} \cup {worldTime}
           m     == CHOOSE i \in times : \A u \in times : i <= u
           bs    == [p \in 1..BUCKET_LEN |-> None]
           empty == [s EXCEPT !.bucket_list = [p \in 1..BUCKET_LEN |-> None],
                              !.processing = <<>>,
                              !.practical_offset = 1,
                              !.resolution = TRUE,
                              !.head_offset = CHOOSE i \in times : \A u \in times : i <= u]
<1>1. /\ s \in SubsystemState /\ LaterOK(s) /\ AllThere(s, R) /\ HashesOK(s)
      /\ s.made \in Nat /\ s.callBack \subseteq 1..s.made /\ s.hasSpent \subseteq 1..s.made
      /\ \A y \in Ids : y > s.made => s.next[y] = None /\ s.prev[y] = None
      /\ s.callBack \subseteq Ids /\ Len(s.bucket_list) \in Nat
      /\ \A y \in Ids : BUCKET_POS(s, y) \in Int
      /\ \A y : BUCKET_POS(s, y) = s.timeToRun[y] - s.head_offset + 1
  BY TimersOKParts
<1>2. /\ Len(s.bucket_list) \in {0, BUCKET_LEN} /\ s.head_offset <= worldTime
      /\ BUCKET_LEN \in Nat /\ BUCKET_LEN >= 1
      /\ s.timeToRun \in [Ids -> Nat] /\ s.head_offset \in Nat
  BY <1>1, FieldsAre, TimerAssumption DEF TimersOK
<1>3. /\ q \in Seq(Ids)
      /\ \A i \in DOMAIN q : q[i] \in s.callBack /\ BUCKET_POS(s, q[i]) >= 1
      /\ \A i \in DOMAIN q : BUCKET_POS(s, q[i]) > Len(s.bucket_list) =>
           q[i] \in WaitingIn(s) /\ s.next[q[i]] = None /\ s.prev[q[i]] = None
      /\ WaitingIn(s) \subseteq ToSet(q)
      /\ \A i, j \in DOMAIN q :
           /\ i < j
           /\ \/ BUCKET_POS(s, q[i]) = BUCKET_POS(s, q[j])
              \/ /\ BUCKET_POS(s, q[i]) > Len(s.bucket_list)
                 /\ BUCKET_POS(s, q[j]) > Len(s.bucket_list)
           => q[i] < q[j]
  BY AllTimersAre
<1>4. PICK f : StepsIn(f, "place", s, q, empty, Len(q))
  <2>1. Len(q) \in Nat
    BY <1>3
  <2> HIDE DEF q, empty
  <2> QED
    BY <2>1, StepsInExist
<1>5. t = f[Len(q)]
  <2> DEFINE g == CHOOSE g : g = [n \in 0..Len(q) |-> IF n = 0 THEN empty ELSE placed(g[n - 1], q[n])]
  <2>1. t = g[Len(q)]
    BY DEF shift_buckets
  <2> HIDE DEF q, empty
  <2>2. f = [n \in 0..Len(q) |-> IF n = 0 THEN empty ELSE placed(f[n - 1], q[n])]
    BY <1>4 DEF StepsIn, nextIn
  <2>3. g = [n \in 0..Len(q) |-> IF n = 0 THEN empty ELSE placed(g[n - 1], q[n])]
    BY <2>2
  <2>4. Len(q) \in Nat
    BY <1>3
  <2> HIDE DEF g
  <2>5. \A n \in 0..Len(q) :
          /\ f[n] = IF n = 0 THEN empty ELSE placed(f[n - 1], q[n])
          /\ g[n] = IF n = 0 THEN empty ELSE placed(g[n - 1], q[n])
    BY <2>2, <2>3
  <2> DEFINE bad == {n \in Nat : n \in 0..Len(q) /\ f[n] # g[n]}
  <2>6. bad = {}
    <3> SUFFICES ASSUME bad # {} PROVE FALSE
      OBVIOUS
    <3>1. PICK n \in bad : \A i \in bad : n <= i
      BY LeastNat
    <3>2. n # 0
      BY <2>5
    <3>3. n \in 0..Len(q) /\ n - 1 \in 0..Len(q) /\ n - 1 \in Nat /\ ~(n <= n - 1)
      BY <2>4, <3>2
    <3>4. f[n - 1] = g[n - 1]
      BY <3>1, <3>3
    <3> QED
      BY <2>5, <3>2, <3>3, <3>4
  <2>7. Len(q) \in 0..Len(q)
    BY <2>4
  <2> QED
    BY <2>1, <2>4, <2>6, <2>7
<1>6. f[0] = empty /\ \A n \in 1..Len(q) : f[n] = placed(f[n - 1], q[n])
  <2> HIDE DEF q, empty
  <2>1. Len(q) \in Nat
    BY <1>3
  <2>2. f[0] = empty /\ \A n \in 1..Len(q) : f[n] = nextIn("place", s, q, f[n - 1], n)
    BY <1>4, <2>1, StepsAre
  <2> QED
    BY <2>2 DEF nextIn
<1> HIDE DEF q
<1>7. /\ m \in Nat /\ m <= worldTime /\ s.head_offset <= m
      /\ \A i \in DOMAIN q : m <= s.timeToRun[q[i]]
  <2>1. \A i \in DOMAIN q : s.timeToRun[q[i]] \in times /\ s.timeToRun[q[i]] \in Nat
    BY <1>1, <1>2, <1>3 DEF ToSet
  <2>2. worldTime \in times /\ times \subseteq Nat
    BY <1>2, <1>3 DEF ToSet
  <2>3. \A u \in times : s.head_offset <= u
    <3> SUFFICES ASSUME NEW u \in times, u # worldTime PROVE s.head_offset <= u
      BY <1>2
    <3>1. PICK i \in DOMAIN q : u = s.timeToRun[q[i]]
      BY DEF ToSet
    <3> QED
      BY <1>1, <1>2, <1>3, <2>1, <3>1
  <2> HIDE DEF times
  <2>4. PICK k \in times : \A u \in times : k <= u
    BY <2>2, LeastNat
  <2>5. m \in times /\ \A u \in times : m <= u
    BY <2>4
  <2> QED
    BY <2>1, <2>2, <2>3, <2>5
<1>8. empty = [s EXCEPT !.bucket_list = bs, !.processing = <<>>, !.practical_offset = 1,
                        !.resolution = TRUE, !.head_offset = m]
  OBVIOUS
<1> HIDE DEF empty, m, times
<1>9. bs \in Seq(Ids \cup {None}) /\ Len(bs) = BUCKET_LEN /\ DOMAIN bs = 1..BUCKET_LEN
      /\ \A p \in 1..BUCKET_LEN : bs[p] = None
  BY <1>2
<1> HIDE DEF bs
<1>10. empty \in SubsystemState
  <2>1. <<>> \in Seq(Ids)
    OBVIOUS
  <2> QED
    BY <1>1, <1>7, <1>8, <1>9, <2>1 DEF SubsystemState
<1>11. /\ empty.made = s.made /\ empty.timeToRun = s.timeToRun /\ empty.hash = s.hash
       /\ empty.hasSpent = s.hasSpent /\ empty.callBack = s.callBack /\ empty.hashes = s.hashes
       /\ empty.head_offset = m /\ empty.practical_offset = 1 /\ empty.resolution = TRUE
       /\ empty.next = s.next /\ empty.prev = s.prev
       /\ empty.bucket_list = bs /\ empty.processing = <<>>
  BY <1>1, <1>8 DEF SubsystemState
<1>12. /\ \A i \in DOMAIN q : /\ BUCKET_POS(empty, q[i]) >= 1
                              /\ BUCKET_POS(empty, q[i]) <= BUCKET_POS(s, q[i])
       /\ \A y : BUCKET_POS(empty, y) = s.timeToRun[y] - m + 1
       /\ \A y \in Ids : BUCKET_POS(empty, y) \in Int
  <2>1. \A y : BUCKET_POS(empty, y) = s.timeToRun[y] - m + 1
    BY <1>11 DEF BUCKET_POS
  <2>2. \A i \in DOMAIN q : s.timeToRun[q[i]] \in Nat
    BY <1>2, <1>3
  <2> QED
    BY <1>1, <1>2, <1>7, <2>1, <2>2
<1>13. \A i \in DOMAIN q : BUCKET_POS(empty, q[i]) > BUCKET_LEN => BUCKET_POS(s, q[i]) > Len(s.bucket_list)
  <2>1. \A i \in DOMAIN q : BUCKET_POS(empty, q[i]) \in Int /\ BUCKET_POS(s, q[i]) \in Int
    BY <1>1, <1>3, <1>12
  <2> QED
    BY <1>2, <1>12, <2>1
<1>14. Placeable(empty, q)
  <2>1. ASSUME NEW i \in DOMAIN q, NEW j \in DOMAIN q, i < j,
               \/ BUCKET_POS(empty, q[i]) = BUCKET_POS(empty, q[j])
               \/ BUCKET_POS(empty, q[i]) > BUCKET_LEN /\ BUCKET_POS(empty, q[j]) > BUCKET_LEN
        PROVE  q[i] < q[j]
    <3>1. CASE BUCKET_POS(empty, q[i]) = BUCKET_POS(empty, q[j])
      <4>1. s.timeToRun[q[i]] \in Nat /\ s.timeToRun[q[j]] \in Nat
        BY <1>2, <1>3
      <4>2. s.timeToRun[q[i]] = s.timeToRun[q[j]]
        BY <1>7, <1>12, <3>1, <4>1
      <4>3. BUCKET_POS(s, q[i]) = BUCKET_POS(s, q[j])
        BY <1>1, <4>2
      <4> QED
        BY <1>3, <2>1, <4>3
    <3>2. CASE BUCKET_POS(empty, q[i]) > BUCKET_LEN /\ BUCKET_POS(empty, q[j]) > BUCKET_LEN
      BY <1>3, <1>13, <2>1, <3>2
    <3> QED
      BY <2>1, <3>1, <3>2
  <2> QED
    BY <1>1, <1>3, <1>10, <1>11, <1>12, <2>1 DEF Placeable
<1>15. Placed(empty, q, 0, empty, [p \in 1..BUCKET_LEN |-> <<>>])
  <2> DEFINE Q == [p \in 1..BUCKET_LEN |-> <<>>]
  <2>1. <<>> \in Seq(Ids) /\ DOMAIN <<>> = {} /\ Q \in [1..BUCKET_LEN -> Seq(Ids)]
        /\ \A p \in 1..BUCKET_LEN : Q[p] = <<>>
    OBVIOUS
  <2>2. DOMAIN Q = 1..BUCKET_LEN
    OBVIOUS
  <2> HIDE DEF Q
  <2>3. \A p \in 1..BUCKET_LEN : IsRing(empty, Q[p], empty.bucket_list[p])
    BY <1>9, <1>11, <2>1 DEF IsRing, Ascends
  <2>4. Rings(empty, Q)
    BY <1>9, <1>11, <2>1, <2>2, <2>3 DEF Rings
  <2>5. Ascends(empty.processing) /\ \A i \in DOMAIN empty.processing : FALSE
    BY <1>11, <2>1 DEF Ascends
  <2>6. \A p \in DOMAIN Q : \A i \in DOMAIN Q[p] : FALSE
    BY <2>1, <2>2
  <2>7. \A j \in 1..0 : FALSE
    OBVIOUS
  <2>8. \A j \in DOMAIN q : BUCKET_POS(empty, q[j]) > BUCKET_LEN =>
          empty.next[q[j]] = None /\ empty.prev[q[j]] = None
    BY <1>3, <1>11, <1>13
  <2>9. Kept(empty, empty) /\ Len(empty.bucket_list) = BUCKET_LEN
        /\ \A y \in Ids : y > empty.made => empty.next[y] = None /\ empty.prev[y] = None
    BY <1>1, <1>9, <1>11 DEF Kept
  <2> HIDE DEF empty
  <2>10. Placed(empty, q, 0, empty, Q)
    BY ONLY <1>10, <2>4, <2>5, <2>6, <2>7, <2>8, <2>9 DEF Placed
  <2> QED
    BY <2>10 DEF Q
<1>16. \E Q : Placed(empty, q, Len(q), t, Q)
  <2> DEFINE good(n) == \E Q : Placed(empty, q, n, f[n], Q)
             bad == {n \in Nat : n \in 0..Len(q) /\ ~good(n)}
  <2>1. Len(q) \in Nat /\ DOMAIN q = 1..Len(q)
    BY <1>3
  <2>2. bad = {}
    <3> SUFFICES ASSUME bad # {} PROVE FALSE
      OBVIOUS
    <3>1. PICK n \in bad : \A i \in bad : n <= i
      BY LeastNat
    <3>2. n # 0
      BY <1>6, <1>15
    <3>3. n \in 1..Len(q) /\ n - 1 \in 0..Len(q) /\ n - 1 \in Nat /\ ~(n <= n - 1) /\ (n - 1) + 1 = n
      BY <2>1, <3>2
    <3>4. PICK Q : Placed(empty, q, n - 1, f[n - 1], Q)
      BY <3>1, <3>3
    <3> DEFINE k == n - 1
    <3>5. k \in Nat /\ k + 1 \in DOMAIN q /\ Placed(empty, q, k, f[k], Q)
      BY <2>1, <3>3, <3>4
    <3> HIDE DEF k
    <3>6. \E Q2 : Placed(empty, q, k + 1, placed(f[k], q[k + 1]), Q2)
      BY ONLY <1>14, <3>5, PlacedNext
    <3>7. \E Q2 : Placed(empty, q, n, placed(f[n - 1], q[n]), Q2)
      BY <3>3, <3>6 DEF k
    <3> QED
      BY <1>6, <3>3, <3>7
  <2>3. Len(q) \in 0..Len(q)
    BY <2>1
  <2> QED
    BY <1>5, <2>1, <2>2, <2>3
<1>17. PICK Q : Placed(empty, q, Len(q), t, Q)
  BY <1>16
<1>18. /\ t \in SubsystemState /\ Kept(empty, t) /\ Len(t.bucket_list) = BUCKET_LEN
       /\ Rings(t, Q) /\ Ascends(t.processing)
       /\ \A p \in DOMAIN Q : \A i \in DOMAIN Q[p] : Q[p][i] \notin s.hasSpent
       /\ \A i \in DOMAIN t.processing :
            \E j \in 1..Len(q) : t.processing[i] = q[j] /\ BUCKET_POS(empty, q[j]) > BUCKET_LEN
       /\ \A j \in 1..Len(q) : q[j] \notin s.hasSpent =>
            IF BUCKET_POS(empty, q[j]) > BUCKET_LEN THEN q[j] \in ToSet(t.processing)
            ELSE q[j] \in ToSet(Q[BUCKET_POS(empty, q[j])])
       /\ \A j \in DOMAIN q : BUCKET_POS(empty, q[j]) > BUCKET_LEN =>
            t.next[q[j]] = None /\ t.prev[q[j]] = None
       /\ \A y \in Ids : y > s.made => t.next[y] = None /\ t.prev[y] = None
  BY <1>11, <1>17 DEF Placed
<1>19. /\ t.made = s.made /\ t.timeToRun = s.timeToRun /\ t.hash = s.hash
       /\ t.hasSpent = s.hasSpent /\ t.callBack = s.callBack /\ t.hashes = s.hashes
       /\ t.head_offset = m /\ t.practical_offset = 1 /\ t.resolution = TRUE
       /\ \A y : BUCKET_POS(t, y) = BUCKET_POS(empty, y)
  BY <1>11, <1>18 DEF Kept, BUCKET_POS
<1>20. DOMAIN q = 1..Len(q)
  BY <1>3
<1>21. WaitingIn(t) = WaitingIn(s)
  BY <1>19 DEF WaitingIn
<1>22. LaterOK(t)
  <2> SUFFICES ASSUME NEW i \in DOMAIN t.processing
               PROVE  LET y == t.processing[i]
                      IN  /\ y \in WaitingIn(t) /\ BUCKET_POS(t, y) > Len(t.bucket_list)
                          /\ t.next[y] = None /\ t.prev[y] = None
    BY <1>18 DEF LaterOK
  <2>1. PICK j \in DOMAIN q : t.processing[i] = q[j] /\ BUCKET_POS(empty, q[j]) > BUCKET_LEN
    BY <1>18, <1>20
  <2> QED
    BY <1>3, <1>13, <1>18, <1>19, <1>21, <2>1
<1>23. AllThere(t, Q)
  <2> SUFFICES ASSUME NEW y \in WaitingIn(s)
               PROVE  LET to == BUCKET_POS(t, y)
                      IN  /\ to >= 1 /\ to >= 1
                          /\ IF to > BUCKET_LEN THEN y \in ToSet(t.processing) ELSE y \in ToSet(Q[to])
    BY <1>18, <1>19, <1>21 DEF AllThere
  <2>1. PICK j \in DOMAIN q : y = q[j]
    BY <1>3 DEF ToSet
  <2>2. y \notin s.hasSpent
    BY DEF WaitingIn
  <2> QED
    BY <1>12, <1>18, <1>19, <1>20, <2>1, <2>2
<1>24. HashesOK(t)
  BY <1>1, <1>19 DEF HashesOK
<1>25. SpentInFront(t, Q) /\ NoneSpent(t, Q)
  BY <1>18, <1>19 DEF SpentInFront, NoneSpent
<1>26. TimersOK(t, Q)
  <2>1. t.head_offset <= worldTime /\ t.head_offset + t.practical_offset <= worldTime + 1
    BY <1>7, <1>19
  <2> QED
    BY <1>1, <1>18, <1>19, <1>22, <1>23, <1>24, <1>25, <2>1 DEF TimersOK
<1> QED
  BY <1>18, <1>19, <1>25, <1>26

\* Timers that ran and are in no ring any more are deleted together.
LEMMA AllDestroyedIs ==
    ASSUME NEW s, NEW R, TimersOK(s, R), NoneSpent(s, R), NEW xs \in Seq(Ids),
           \A i \in DOMAIN xs : xs[i] \in s.hasSpent, NEW t, t = allDestroyed(s, xs)
    PROVE  /\ TimersOK(t, R) /\ NoneSpent(t, R)
           /\ t.hasSpent = s.hasSpent /\ t.resolution = s.resolution
           /\ t.bucket_list = s.bucket_list /\ t.made = s.made
<1> DEFINE L == Len(xs)
           good(y) == /\ TimersOK(y, R) /\ y.hasSpent = s.hasSpent /\ y.resolution = s.resolution
                      /\ y.bucket_list = s.bucket_list /\ y.made = s.made
<1>1. L \in Nat /\ DOMAIN xs = 1..L
  OBVIOUS
<1>2. PICK f : StepsIn(f, "destroy", s, xs, s, L)
  BY <1>1, StepsInExist
<1>3. t = f[L]
  <2> DEFINE g == CHOOSE g : g = [n \in 0..L |-> IF n = 0 THEN s ELSE destroyed(g[n - 1], xs[n])]
  <2>1. t = g[L]
    BY DEF allDestroyed
  <2>2. f = [n \in 0..L |-> IF n = 0 THEN s ELSE destroyed(f[n - 1], xs[n])]
    BY <1>2 DEF StepsIn, nextIn
  <2>3. g = [n \in 0..L |-> IF n = 0 THEN s ELSE destroyed(g[n - 1], xs[n])]
    BY <2>2
  <2> HIDE DEF g
  <2>4. \A n \in 0..L :
          /\ f[n] = IF n = 0 THEN s ELSE destroyed(f[n - 1], xs[n])
          /\ g[n] = IF n = 0 THEN s ELSE destroyed(g[n - 1], xs[n])
    BY <2>2, <2>3
  <2> DEFINE bad == {n \in Nat : n \in 0..L /\ f[n] # g[n]}
  <2>5. bad = {}
    <3> SUFFICES ASSUME bad # {} PROVE FALSE
      OBVIOUS
    <3>1. PICK n \in bad : \A i \in bad : n <= i
      BY LeastNat
    <3>2. n # 0
      BY <2>4
    <3>3. n \in 0..L /\ n - 1 \in 0..L /\ n - 1 \in Nat /\ ~(n <= n - 1)
      BY <1>1, <3>2
    <3>4. f[n - 1] = g[n - 1]
      BY <3>1, <3>3
    <3> QED
      BY <2>4, <3>2, <3>3, <3>4
  <2>6. L \in 0..L
    BY <1>1
  <2> QED
    BY <1>1, <2>1, <2>5, <2>6
<1>4. f[0] = s /\ \A n \in 1..L : f[n] = destroyed(f[n - 1], xs[n])
  <2>1. f[0] = s /\ \A n \in 1..L : f[n] = nextIn("destroy", s, xs, f[n - 1], n)
    BY <1>1, <1>2, StepsAre
  <2> QED
    BY <2>1 DEF nextIn
<1> HIDE DEF L
<1>5. ASSUME NEW y, good(y), NEW i \in DOMAIN xs PROVE good(destroyed(y, xs[i]))
  <2>1. CASE xs[i] \notin y.callBack
    BY <1>5, <2>1 DEF destroyed
  <2>2. CASE xs[i] \in y.callBack
    <3> DEFINE x == xs[i]
               z == destroyed(y, x)
    <3>1. TimersOK(y, R) /\ x \in y.callBack \cap y.hasSpent
      BY <1>5, <2>2
    <3>2. \A p \in DOMAIN R : \A k \in DOMAIN R[p] : R[p][k] # x
      BY <1>5 DEF NoneSpent
    <3>3. z = destroyed(y, x)
      OBVIOUS
    <3> HIDE DEF x, z
    <3>4. TimersOK(z, R) /\ z.hasSpent = y.hasSpent /\ z.resolution = y.resolution
          /\ z.bucket_list = y.bucket_list /\ z.made = y.made
      BY ONLY <3>1, <3>2, <3>3, DestroyedSpent
    <3> QED
      BY <1>5, <3>4 DEF x, z
  <2> QED
    BY <2>1, <2>2
<1>6. good(s)
  OBVIOUS
<1> HIDE DEF good
<1>7. good(f[L])
  <2> DEFINE bad == {n \in Nat : n \in 0..L /\ ~good(f[n])}
  <2>1. bad = {}
    <3> SUFFICES ASSUME bad # {} PROVE FALSE
      OBVIOUS
    <3>1. PICK n \in bad : \A i \in bad : n <= i
      BY LeastNat
    <3>2. n # 0
      BY <1>4, <1>6
    <3>3. n \in 1..L /\ n - 1 \in 0..L /\ n - 1 \in Nat /\ ~(n <= n - 1)
      BY <1>1, <3>2
    <3>4. good(f[n - 1]) /\ n \in DOMAIN xs
      BY <1>1, <3>1, <3>3
    <3>5. good(destroyed(f[n - 1], xs[n]))
      BY <1>5, <3>4
    <3> QED
      BY <1>4, <3>3, <3>5
  <2>2. L \in 0..L
    BY <1>1
  <2> QED
    BY <1>1, <2>1, <2>2
<1> QED
  BY <1>3, <1>7 DEF good, NoneSpent

\* Where fire() is in the middle of a bucket, its first timer ran.
LEMMA HeadRan ==
    ASSUME NEW s, NEW R, FireOK(s, R), TimersOK(s, R), firing \in {"callback", "paused"}
    PROVE  \/ NoneSpent(s, R) /\ (timer = None \/ head = None) /\ firing = "paused"
           \/ /\ InBucket(s, R) /\ head \in s.hasSpent
              /\ \/ /\ firing = "paused" /\ timer \in {None, head}
                    /\ \A i \in DOMAIN R[s.practical_offset] : R[s.practical_offset][i] \in s.hasSpent
                 \/ (firing = "callback" \/ timer \notin {None, head}) /\ Reached(s, R, timer)
<1>1. CASE firing = "paused"
  BY <1>1 DEF FireOK, Stands
<1>2. CASE firing = "callback"
  <2>1. InBucket(s, R) /\ Reached(s, R, timer) /\ timer \in s.callBack \cap s.hasSpent
    BY <1>2 DEF FireOK
  <2> DEFINE q == R[s.practical_offset]
  <2>2. PICK i \in DOMAIN q : q[i] = timer /\ \A j \in 1..(i - 1) : q[j] \in s.hasSpent
    BY <2>1 DEF Reached
  <2>3. DOMAIN q = 1..Len(q) /\ Len(q) \in Nat
    <3>1. s.practical_offset \in DOMAIN R
      BY <2>1 DEF InBucket
    <3>2. IsRing(s, q, s.bucket_list[s.practical_offset])
      BY <3>1, TimersOKParts
    <3> HIDE DEF q
    <3> QED
      BY <3>2, RingBasics
  <2>4. q[1] \in s.hasSpent
    <3>1. CASE i = 1
      BY <2>1, <2>2, <3>1
    <3>2. CASE i # 1
      <4>1. 1 \in 1..(i - 1)
        BY <2>3, <3>2
      <4> QED
        BY <2>2, <4>1
    <3> QED
      BY <3>1, <3>2
  <2> QED
    BY <1>2, <2>1, <2>4 DEF InBucket
<1> QED
  BY <1>1, <1>2

\* What a step of the game leaves of where fire() is.
LEMMA FireKept ==
    ASSUME NEW s, NEW R, FireOK(s, R), TimersOK(s, R), firing \in {"idle", "callback", "paused"},
           NEW t, NEW R2, t.hasSpent = s.hasSpent, t.resolution = s.resolution,
           t.practical_offset = s.practical_offset, t.head_offset = s.head_offset,
           Len(t.bucket_list) = Len(s.bucket_list), DOMAIN R2 = DOMAIN R,
           timer \in 0..t.made,
           \A y \in s.callBack \cap s.hasSpent : y \in t.callBack,
           NoneSpent(s, R) => NoneSpent(t, R2),
           NEW q, q = R[s.practical_offset],
           NEW r, r = R2[s.practical_offset],
           InBucket(s, R) => /\ q[1] \in s.hasSpent => r # <<>> /\ r[1] = q[1]
                             /\ (\A i \in DOMAIN q : q[i] \in s.hasSpent) => r = q
                             /\ Reached(s, R, timer) => Reached(t, R2, timer)
    PROVE  FireOK(t, R2)
<1>1. CASE firing = "idle"
  BY <1>1 DEF FireOK
<1>2. CASE firing \in {"callback", "paused"}
  <2>1. t.resolution /\ Len(t.bucket_list) = BUCKET_LEN
        /\ (firing = "callback" => timer \in t.callBack \cap t.hasSpent)
    BY <1>2 DEF FireOK
  <2>2. CASE NoneSpent(s, R) /\ (timer = None \/ head = None) /\ firing = "paused"
    BY <2>1, <2>2 DEF FireOK, Stands
  <2>3. CASE InBucket(s, R) /\ head \in s.hasSpent
    <3>1. /\ \/ /\ firing = "paused" /\ timer \in {None, head}
                /\ \A i \in DOMAIN q : q[i] \in s.hasSpent
             \/ (firing = "callback" \/ timer \notin {None, head}) /\ Reached(s, R, timer)
             \/ NoneSpent(s, R) /\ (timer = None \/ head = None) /\ firing = "paused"
      BY <1>2, HeadRan
    <3>2. InBucket(t, R2) /\ head \in t.hasSpent
      BY <2>3 DEF InBucket
    <3>3. CASE firing = "paused" /\ timer \in {None, head} /\ \A i \in DOMAIN q : q[i] \in s.hasSpent
      BY <2>1, <2>3, <3>2, <3>3 DEF FireOK, Stands
    <3>4. CASE (firing = "callback" \/ timer \notin {None, head}) /\ Reached(s, R, timer)
      BY <1>2, <2>1, <2>3, <3>2, <3>4 DEF FireOK, Stands
    <3> QED
      BY <2>2, <3>1, <3>3, <3>4
  <2> QED
    BY <1>2, <2>2, <2>3, HeadRan
<1> QED
  BY <1>1, <1>2

LEMMA FireKeptDestroyed ==
    ASSUME NEW s, NEW R, FireOK(s, R), TimersOK(s, R), firing \in {"idle", "callback", "paused"},
           NEW x \in WaitingIn(s), NEW t, t = destroyed(s, x)
    PROVE  t.made = s.made /\ t.hasSpent = s.hasSpent /\ \E R2 : TimersOK(t, R2) /\ FireOK(t, R2)
<1>1. /\ t.made = s.made /\ t.hasSpent = s.hasSpent /\ t.resolution = s.resolution
      /\ t.practical_offset = s.practical_offset /\ t.head_offset = s.head_offset
      /\ t.callBack = s.callBack \ {x} /\ Len(t.bucket_list) = Len(s.bucket_list)
      /\ \E R2 : /\ TimersOK(t, R2) /\ DOMAIN R2 = DOMAIN R
                 /\ \A p \in DOMAIN R :
                      \/ R2[p] = R[p]
                      \/ \E k \in DOMAIN R[p] : R[p][k] = x /\ R2[p] = RemoveAt(R[p], k)
  BY DestroyedLive
<1>2. PICK R2 : /\ TimersOK(t, R2) /\ DOMAIN R2 = DOMAIN R
                /\ \A p \in DOMAIN R :
                     \/ R2[p] = R[p]
                     \/ \E k \in DOMAIN R[p] : R[p][k] = x /\ R2[p] = RemoveAt(R[p], k)
  BY <1>1
<1>3. /\ x \notin s.hasSpent /\ x \in s.callBack
      /\ \A p \in DOMAIN R : R[p] \in Seq(Ids) /\ Ascends(R[p])
  BY TimersOKParts DEF WaitingIn, IsRing
<1>4. ASSUME NoneSpent(s, R) PROVE NoneSpent(t, R2)
  <2> SUFFICES ASSUME NEW p \in DOMAIN R, NEW i \in DOMAIN R2[p] PROVE R2[p][i] \notin s.hasSpent
    BY <1>1, <1>2 DEF NoneSpent
  <2>1. CASE R2[p] = R[p]
    BY <1>4, <2>1 DEF NoneSpent
  <2>2. CASE R2[p] # R[p]
    <3>1. PICK k \in DOMAIN R[p] : R2[p] = RemoveAt(R[p], k)
      BY <1>2, <2>2
    <3>2. PICK j \in DOMAIN R[p] : R2[p][i] = R[p][j]
      BY <1>3, <3>1, RemovedIs
    <3> QED
      BY <1>4, <3>2 DEF NoneSpent
  <2> QED
    BY <2>1, <2>2
<1> DEFINE po == s.practical_offset
           q  == R[po]
           r  == R2[po]
<1>5. ASSUME InBucket(s, R)
      PROVE  /\ q[1] \in s.hasSpent => r # <<>> /\ r[1] = q[1]
             /\ (\A i \in DOMAIN q : q[i] \in s.hasSpent) => r = q
             /\ Reached(s, R, timer) => Reached(t, R2, timer)
  <2>1. po \in DOMAIN R /\ q # <<>>
    BY <1>5 DEF InBucket
  <2>2. q \in Seq(Ids) /\ Ascends(q) /\ DOMAIN q = 1..Len(q) /\ Len(q) \in Nat
    BY <1>3, <2>1
  <2>3. CASE r = q
    <3>1. Reached(s, R, timer) => Reached(t, R2, timer)
      BY <1>1, <2>3 DEF Reached
    <3> QED
      BY <2>1, <2>3, <3>1
  <2>4. CASE r # q
    <3>1. PICK k \in DOMAIN q : q[k] = x /\ r = RemoveAt(q, k)
      BY <1>2, <2>1, <2>4
    <3> HIDE DEF q, r
    <3>2. r \in Seq(Ids) /\ \A j \in DOMAIN q : j < k => j \in DOMAIN r /\ r[j] = q[j]
      BY <2>2, <3>1, RemovedIs
    <3>3. q[1] \in s.hasSpent => r # <<>> /\ r[1] = q[1]
      <4> SUFFICES ASSUME q[1] \in s.hasSpent PROVE r # <<>> /\ r[1] = q[1]
        OBVIOUS
      <4>1. k # 1 /\ 1 \in DOMAIN q /\ 1 < k
        BY <1>3, <2>2, <3>1
      <4>2. 1 \in DOMAIN r /\ r[1] = q[1]
        BY <3>2, <4>1
      <4>3. DOMAIN <<>> = {}
        OBVIOUS
      <4> QED
        BY <4>2, <4>3
    <3>4. ~\A i \in DOMAIN q : q[i] \in s.hasSpent
      BY <1>3, <3>1
    <3>5. Reached(s, R, timer) => Reached(t, R2, timer)
      <4> SUFFICES ASSUME Reached(s, R, timer), timer \in s.callBack, timer # x
                   PROVE  Reached(t, R2, timer)
        BY <1>1 DEF Reached
      <4>1. PICK i \in DOMAIN q : q[i] = timer /\ \A j \in 1..(i - 1) : q[j] \in s.hasSpent
        BY DEF Reached, q
      <4>2. k \in 1..Len(q) /\ i \in 1..Len(q) /\ k # i
        BY <2>2, <3>1, <4>1
      <4>3. i < k
        <5> SUFFICES ASSUME ~(i < k) PROVE FALSE
          OBVIOUS
        <5>1. k \in 1..(i - 1)
          BY <2>2, <4>2
        <5> QED
          BY <1>3, <3>1, <4>1, <5>1
      <4>4. \A j \in 1..(i - 1) : j \in DOMAIN q /\ j < k
        BY <2>2, <4>2, <4>3
      <4>5. i \in DOMAIN r /\ r[i] = timer /\ \A j \in 1..(i - 1) : r[j] \in s.hasSpent
        BY <3>2, <4>1, <4>3, <4>4
      <4> QED
        BY <1>1, <4>5 DEF Reached, r
    <3> QED
      BY <3>3, <3>4, <3>5
  <2> QED
    BY <2>3, <2>4
<1>6. \A y \in s.callBack \cap s.hasSpent : y \in t.callBack
  BY <1>1, <1>3
<1>7. q = R[s.practical_offset] /\ r = R2[s.practical_offset]
  OBVIOUS
<1> HIDE DEF q, r
<1>9. timer \in 0..t.made
  BY <1>1 DEF FireOK
<1>10. /\ t.hasSpent = s.hasSpent /\ t.resolution = s.resolution
       /\ t.practical_offset = s.practical_offset /\ t.head_offset = s.head_offset
       /\ Len(t.bucket_list) = Len(s.bucket_list) /\ DOMAIN R2 = DOMAIN R
  BY <1>1, <1>2
<1>8. FireOK(t, R2)
  BY ONLY FireOK(s, R), TimersOK(s, R), firing \in {"idle", "callback", "paused"},
          <1>4, <1>5, <1>6, <1>7, <1>9, <1>10, FireKept, SMTT(60)
<1> QED
  BY <1>1, <1>2, <1>8

LEMMA FireKeptForgotten ==
    ASSUME NEW s, NEW R, FireOK(s, R), TimersOK(s, R), firing \in {"idle", "callback", "paused"},
           NEW old \in Ids, NEW t, t = forgotten(s, old)
    PROVE  FireOK(t, R)
<1>1. /\ t.made = s.made /\ t.hasSpent = s.hasSpent /\ t.callBack = s.callBack
      /\ t.resolution = s.resolution /\ t.bucket_list = s.bucket_list
      /\ t.practical_offset = s.practical_offset /\ t.head_offset = s.head_offset
  BY ForgottenIs
<1> QED
  BY <1>1 DEF FireOK, NoneSpent, Stands, InBucket, Reached

LEMMA FireKeptCreated ==
    ASSUME NEW s, NEW R, FireOK(s, R), TimersOK(s, R), firing \in {"idle", "callback", "paused"},
           s.made < MaxTimedEvents, NEW at \in Nat, at >= worldTime, worldTime \in Nat,
           NEW h \in Hashes \cup {Null}, h \in Hashes => s.hashes[h] = None,
           NEW t, t = created(s, at, h)
    PROVE  t.hasSpent = s.hasSpent /\ \E R2 : TimersOK(t, R2) /\ FireOK(t, R2)
<1> DEFINE x == s.made + 1
<1>1. /\ t.hasSpent = s.hasSpent /\ t.resolution = s.resolution
      /\ t.practical_offset = s.practical_offset /\ t.head_offset = s.head_offset
      /\ Len(t.bucket_list) = Len(s.bucket_list) /\ t.made = x
      /\ x \in Ids \ (s.callBack \cup s.hasSpent)
      /\ t.callBack = s.callBack \cup {x}
      /\ \E R2 : /\ TimersOK(t, R2) /\ DOMAIN R2 = DOMAIN R
                 /\ \A p \in DOMAIN R :
                      \/ R2[p] = R[p]
                      \/ s.head_offset + p > worldTime /\ R2[p] = Append(R[p], x)
  BY CreatedIs
<1> HIDE DEF x
<1>2. PICK R2 : /\ TimersOK(t, R2) /\ DOMAIN R2 = DOMAIN R
                /\ \A p \in DOMAIN R :
                     \/ R2[p] = R[p]
                     \/ s.head_offset + p > worldTime /\ R2[p] = Append(R[p], x)
  BY <1>1
<1>3. /\ x \notin s.hasSpent /\ x \notin s.callBack
      /\ \A p \in DOMAIN R : R[p] \in Seq(Ids)
  BY <1>1, TimersOKParts DEF IsRing
<1>4. ASSUME NoneSpent(s, R) PROVE NoneSpent(t, R2)
  <2> SUFFICES ASSUME NEW p \in DOMAIN R, NEW i \in DOMAIN R2[p] PROVE R2[p][i] \notin s.hasSpent
    BY <1>1, <1>2 DEF NoneSpent
  <2>1. CASE R2[p] = R[p]
    BY <1>4, <2>1 DEF NoneSpent
  <2>2. CASE R2[p] # R[p]
    <3> DEFINE q == R[p]
    <3>1. R2[p] = Append(q, x) /\ q \in Seq(Ids)
      BY <1>2, <1>3, <2>2
    <3>2. \A j \in DOMAIN q : q[j] \notin s.hasSpent
      BY <1>4 DEF NoneSpent
    <3> HIDE DEF q
    <3>3. DOMAIN Append(q, x) = 1..(Len(q) + 1) /\ Append(q, x)[Len(q) + 1] = x
          /\ DOMAIN q = 1..Len(q) /\ Len(q) \in Nat /\ \A j \in DOMAIN q : Append(q, x)[j] = q[j]
      BY <1>1, <3>1
    <3>4. i \in DOMAIN q \/ i = Len(q) + 1
      BY <3>1, <3>3
    <3> QED
      BY <1>3, <3>1, <3>2, <3>3, <3>4
  <2> QED
    BY <2>1, <2>2
<1> DEFINE q == R[s.practical_offset]
           r == R2[s.practical_offset]
<1>5. ASSUME InBucket(s, R)
      PROVE  /\ q[1] \in s.hasSpent => r # <<>> /\ r[1] = q[1]
             /\ (\A i \in DOMAIN q : q[i] \in s.hasSpent) => r = q
             /\ Reached(s, R, timer) => Reached(t, R2, timer)
  <2>1. s.practical_offset \in DOMAIN R /\ q # <<>> /\ s.head_offset + s.practical_offset <= worldTime
    BY <1>5 DEF InBucket
  <2>2. s.practical_offset \in Nat /\ s.head_offset \in Nat
    BY TimersOKParts, FieldsAre
  <2>3. r = q
    BY <1>2, <2>1, <2>2
  <2>4. timer \in s.callBack => (Reached(s, R, timer) => Reached(t, R2, timer))
    BY <1>1, <2>3 DEF Reached
  <2>5. timer \notin s.callBack => timer \notin t.callBack
    <3>1. timer # x
      BY TimersOKParts DEF x, FireOK
    <3> QED
      BY <1>1, <3>1
  <2>6. timer \notin s.callBack => Reached(t, R2, timer)
    BY <2>5 DEF Reached
  <2> QED
    BY <2>1, <2>3, <2>4, <2>6
<1>6. \A y \in s.callBack \cap s.hasSpent : y \in t.callBack
  BY <1>1
<1>7. q = R[s.practical_offset] /\ r = R2[s.practical_offset]
  OBVIOUS
<1> HIDE DEF q, r
<1>9. timer \in 0..t.made
  <2>1. s.made \in Nat /\ t.made = s.made + 1
    BY <1>1, TimersOKParts DEF x
  <2> QED
    BY <2>1 DEF FireOK
<1>10. /\ t.hasSpent = s.hasSpent /\ t.resolution = s.resolution
       /\ t.practical_offset = s.practical_offset /\ t.head_offset = s.head_offset
       /\ Len(t.bucket_list) = Len(s.bucket_list) /\ DOMAIN R2 = DOMAIN R
  BY <1>1, <1>2
<1>8. FireOK(t, R2)
  BY ONLY FireOK(s, R), TimersOK(s, R), firing \in {"idle", "callback", "paused"},
          <1>4, <1>5, <1>6, <1>7, <1>9, <1>10, FireKept, SMTT(60)
<1> QED
  BY <1>1, <1>2, <1>8

\* The invariant, of the next state.
LEMMA NextInv ==
    ASSUME worldTime' = worldTime, worldTime \in 0..MaxTime,
           firing' \in {"idle", "while", "do", "callback", "paused"},
           timer' \in Ids \cup {None}, head' \in Ids \cup {None},
           spent' \in Seq(Ids), \A i \in DOMAIN spent' : spent'[i] \in ss'.hasSpent,
           NEW t, t = ss', NEW R, TimersOK(t, R), FireOK(t, R)'
    PROVE  TimerInv'
<1>1. TimersOK(ss, R)'
  BY DEF TimersOK, SpentInFront
<1>2. FireOK(ss, R)'
  BY DEF FireOK, Stands, InBucket
<1> QED
  BY <1>1, <1>2 DEF TimerInv

LEMMA TimerGameKeeps ==
    ASSUME TimerInv, TimerGame
    PROVE  TimerInv'
<1>1. /\ worldTime \in 0..MaxTime /\ worldTime \in Nat
      /\ spent \in Seq(Ids) /\ \A i \in DOMAIN spent : spent[i] \in ss.hasSpent
  BY TimerAssumption DEF TimerInv
<1>2. PICK R : TimersOK(ss, R) /\ FireOK(ss, R)
  BY DEF TimerInv
<1>3. PICK s : s = ss
  OBVIOUS
<1>4. PICK t : t = ss'
  OBVIOUS
<1>5. TimersOK(s, R) /\ FireOK(s, R) /\ firing \in {"idle", "callback", "paused"}
  BY <1>2, <1>3 DEF TimerGame
<1>6. t.hasSpent = s.hasSpent /\ \E R2 : TimersOK(t, R2) /\ FireOK(t, R2)
  <2>1. ASSUME NEW wait \in Nat, NEW h \in Hashes \cup {Null}, NEW override, addtimer(wait, h, override)
        PROVE  t.hasSpent = s.hasSpent /\ \E R2 : TimersOK(t, R2) /\ FireOK(t, R2)
    <3> DEFINE old == IF h = Null THEN None ELSE s.hashes[h]
               waits == old # None /\ old \notin s.hasSpent
               u == CASE old = None -> s [] old # None /\ ~waits -> forgotten(s, old)
                      [] waits -> destroyed(s, old)
    <3>1. s.made < MaxTimedEvents /\ t = created(u, worldTime + wait, h)
      BY <1>3, <1>4, <2>1 DEF addtimer
    <3>2. Null \notin Hashes /\ s \in SubsystemState /\ HashesOK(s) /\ s.callBack \subseteq Ids
          /\ LaterOK(s) /\ s.made \in Nat
      BY <1>5, TimerAssumption, TimersOKParts DEF Null
    <3>3. old \in Ids \cup {None} /\ (old # None => h \in Hashes /\ old = s.hashes[h] /\ old \in s.callBack)
      BY <3>2 DEF HashesOK
    <3>4. u.made = s.made /\ u.hasSpent = s.hasSpent /\ (h \in Hashes => u.hashes[h] = None)
          /\ \E R2 : TimersOK(u, R2) /\ FireOK(u, R2)
      <4>1. CASE old = None
        <5>1. u = s /\ (h \in Hashes => s.hashes[h] = None)
          BY <3>2, <4>1
        <5> QED
          BY <1>5, <5>1
      <4>2. CASE old # None /\ ~waits
        <5>1. u = forgotten(s, old)
          BY <4>2
        <5>2. old \in Ids /\ h \in Hashes /\ s.hashes[h] = old
          BY <3>3, <4>2
        <5> HIDE DEF old, u
        <5>3. /\ TimersOK(u, R) /\ u.made = s.made /\ u.hasSpent = s.hasSpent
              /\ \A g \in Hashes : s.hashes[g] = old => u.hashes[g] = None
          BY <1>5, <5>1, <5>2, ForgottenIs
        <5>4. FireOK(u, R)
          BY <1>5, <5>1, <5>2, FireKeptForgotten
        <5> QED
          BY <5>2, <5>3, <5>4
      <4>3. CASE waits
        <5>1. u = destroyed(s, old)
          BY <4>3
        <5>2. old \in s.callBack /\ old \in WaitingIn(s) /\ h \in Hashes /\ s.hashes[h] = old
          BY <3>3, <4>3 DEF WaitingIn
        <5> HIDE DEF old, u
        <5>3. u.made = s.made /\ u.hasSpent = s.hasSpent /\ \E R2 : TimersOK(u, R2) /\ FireOK(u, R2)
          BY <1>5, <5>1, <5>2, FireKeptDestroyed
        <5>4. s.hash[old] = h
          BY <3>2, <5>2 DEF HashesOK
        <5>5. PICK v : v = unlinked(s, old)
          OBVIOUS
        <5>6. u.hashes = [g \in Hashes |-> IF g = s.hash[old] THEN None ELSE s.hashes[g]]
          BY ONLY <3>2, <5>1, <5>2, <5>5, DestroyedIs
        <5>7. u.hashes[h] = None
          BY <5>2, <5>4, <5>6
        <5> QED
          BY <5>3, <5>7
      <4> QED
        BY <4>1, <4>2, <4>3
    <3> HIDE DEF u
    <3>5. PICK R2 : TimersOK(u, R2) /\ FireOK(u, R2)
      BY <3>4
    <3>6. worldTime + wait \in Nat /\ worldTime + wait >= worldTime /\ u.made < MaxTimedEvents
      BY <1>1, <3>1, <3>4
    <3>7. t.hasSpent = u.hasSpent /\ \E R3 : TimersOK(t, R3) /\ FireOK(t, R3)
      BY ONLY <1>1, <1>5, <2>1, <3>1, <3>4, <3>5, <3>6, FireKeptCreated
    <3> QED
      BY <3>4, <3>7
  <2>2. ASSUME NEW x \in Ids, deltimer(x)
        PROVE  t.hasSpent = s.hasSpent /\ \E R2 : TimersOK(t, R2) /\ FireOK(t, R2)
    <3>1. x \in WaitingIn(s) /\ t = destroyed(s, x)
      BY <1>3, <1>4, <2>2 DEF deltimer, WaitingIn
    <3> QED
      BY <1>5, <3>1, FireKeptDestroyed
  <2>3. \A wait \in Waits \cup Hashes : wait \in Nat
    BY TimerAssumption
  <2>4. CASE \E wait \in Waits : addtimer(wait, Null, FALSE)
    <3>1. PICK wait \in Waits : addtimer(wait, Null, FALSE)
      BY <2>4
    <3>2. wait \in Nat /\ Null \in Hashes \cup {Null}
      BY <2>3
    <3> QED
      BY <2>1, <3>1, <3>2
  <2>5. CASE \E h \in Hashes, override \in BOOLEAN : addtimer(h, h, override)
    <3>1. PICK h \in Hashes, override \in BOOLEAN : addtimer(h, h, override)
      BY <2>5
    <3>2. h \in Nat /\ h \in Hashes \cup {Null}
      BY <2>3
    <3> QED
      BY <2>1, <3>1, <3>2
  <2>6. CASE \E x \in Ids : deltimer(x)
    BY <2>2, <2>6
  <2> QED
    BY <2>4, <2>5, <2>6 DEF TimerGame
<1>7. PICK R2 : TimersOK(t, R2) /\ FireOK(t, R2)
  BY <1>6
<1>8. UNCHANGED <<worldTime, firing, timer, head, spent>>
  BY DEF TimerGame
<1>9. FireOK(t, R2)'
  BY <1>7, <1>8 DEF FireOK, Stands, InBucket, NoneSpent, Reached
<1>10. /\ firing' \in {"idle", "while", "do", "callback", "paused"}
       /\ timer' \in Ids \cup {None} /\ head' \in Ids \cup {None}
       /\ spent' \in Seq(Ids) /\ \A i \in DOMAIN spent' : spent'[i] \in ss'.hasSpent
  BY <1>1, <1>3, <1>4, <1>6, <1>8 DEF TimerInv
<1> QED
  BY <1>1, <1>4, <1>7, <1>8, <1>9, <1>10, NextInv

LEMMA TimerInitInv == TimerInit => TimerInv
<1> SUFFICES ASSUME TimerInit PROVE TimerInv
  OBVIOUS
<1>1. PICK s : s = ss
  OBVIOUS
<1>2. s = [made |-> 0, timeToRun |-> [x \in Ids |-> 0], hash |-> [x \in Ids |-> Null],
           callBack |-> {}, hasSpent |-> {},
           next |-> [x \in Ids |-> None], prev |-> [x \in Ids |-> None],
           bucket_list |-> <<>>, processing |-> <<>>,
           hashes |-> [h \in Hashes |-> None],
           head_offset |-> 0, practical_offset |-> 0, resolution |-> FALSE]
  BY <1>1 DEF TimerInit
<1>3. /\ worldTime = 0 /\ firing = "idle" /\ timer = None /\ head = None /\ spent = <<>>
      /\ MaxTimedEvents \in Nat /\ MaxTime \in Nat
  BY TimerAssumption DEF TimerInit
<1>4. s \in SubsystemState
  <2>1. s.made \in 0..MaxTimedEvents
    BY <1>2, <1>3
  <2>2. s.timeToRun \in [Ids -> Nat] /\ s.hash \in [Ids -> Hashes \cup {Null}]
        /\ s.callBack \in SUBSET Ids /\ s.hasSpent \in SUBSET Ids
        /\ s.next \in [Ids -> Ids \cup {None}] /\ s.prev \in [Ids -> Ids \cup {None}]
        /\ s.hashes \in [Hashes -> Ids \cup {None}]
    BY <1>2
  <2>3. s.bucket_list \in Seq(Ids \cup {None}) /\ s.processing \in Seq(Ids)
        /\ s.head_offset \in Nat /\ s.practical_offset \in Nat /\ s.resolution \in BOOLEAN
    BY <1>2
  <2>4. s = [made |-> s.made, timeToRun |-> s.timeToRun, hash |-> s.hash,
             callBack |-> s.callBack, hasSpent |-> s.hasSpent, next |-> s.next, prev |-> s.prev,
             bucket_list |-> s.bucket_list, processing |-> s.processing, hashes |-> s.hashes,
             head_offset |-> s.head_offset, practical_offset |-> s.practical_offset,
             resolution |-> s.resolution]
    BY <1>2
  <2> QED
    BY <2>1, <2>2, <2>3, <2>4 DEF SubsystemState
<1>5. /\ s.made = 0 /\ s.callBack = {} /\ s.hasSpent = {} /\ s.bucket_list = <<>>
      /\ s.processing = <<>> /\ s.head_offset = 0 /\ s.practical_offset = 0
      /\ s.resolution = FALSE /\ \A h \in Hashes : s.hashes[h] = None
      /\ \A y \in Ids : s.next[y] = None /\ s.prev[y] = None
  BY <1>2
<1> DEFINE R == [p \in {} |-> <<>>]
<1>6. DOMAIN s.bucket_list = {} /\ DOMAIN R = {} /\ R \in [{} -> Seq(Ids)]
      /\ Len(s.bucket_list) = 0 /\ DOMAIN s.processing = {}
  BY <1>5
<1> HIDE DEF R
<1>7. Rings(s, R) /\ SpentInFront(s, R) /\ NoneSpent(s, R)
  BY <1>6 DEF Rings, SpentInFront, NoneSpent
<1>8. LaterOK(s) /\ AllThere(s, R) /\ HashesOK(s)
  BY <1>5, <1>6 DEF LaterOK, AllThere, HashesOK, WaitingIn, Ascends
<1>9. TimersOK(s, R)
  BY <1>3, <1>4, <1>5, <1>6, <1>7, <1>8, TimerAssumption DEF TimersOK
<1>10. FireOK(s, R)
  BY <1>3, <1>5, <1>7 DEF FireOK, None
<1> QED
  BY <1>1, <1>3, <1>9, <1>10 DEF TimerInv, None

\* fire() begins or resumes.
LEMMA TimerFireKeeps ==
    ASSUME TimerInv, TimerFire
    PROVE  TimerInv'
<1>1. /\ worldTime \in 0..MaxTime /\ worldTime \in Nat
      /\ spent \in Seq(Ids) /\ (\A i \in DOMAIN spent : spent[i] \in ss.hasSpent)
      /\ timer \in Ids \cup {None} /\ head \in Ids \cup {None}
  BY TimerAssumption DEF TimerInv
<1>2. PICK R : TimersOK(ss, R) /\ FireOK(ss, R)
  BY DEF TimerInv
<1>3. PICK s : s = ss
  OBVIOUS
<1>4. PICK t : t = ss'
  OBVIOUS
<1>5. TimersOK(s, R) /\ FireOK(s, R)
  BY <1>2, <1>3
<1> DEFINE resumed == firing = "paused"
           shifts  == \/ s.practical_offset > BUCKET_LEN
                      \/ ~resumed /\ Len(s.bucket_list) # BUCKET_LEN
                      \/ ~s.resolution
           afresh  == shifts \/ ~resumed
<1>6. /\ firing \in {"idle", "paused"} /\ firing' = "while"
      /\ t = (IF shifts THEN shift_buckets(s) ELSE s)
      /\ timer' = (IF afresh THEN None ELSE timer)
      /\ head' = (IF afresh THEN None ELSE head)
      /\ UNCHANGED <<worldTime, spent>>
  BY <1>3, <1>4 DEF TimerFire
<1>7. timer' \in Ids \cup {None} /\ head' \in Ids \cup {None}
  BY <1>1, <1>6
<1>8. t.hasSpent = s.hasSpent /\ \E R2 : TimersOK(t, R2) /\ FireOK(t, R2)'
  <2>1. CASE shifts
    <3>1. /\ t.hasSpent = s.hasSpent /\ t.resolution /\ Len(t.bucket_list) = BUCKET_LEN
          /\ \E Q : TimersOK(t, Q) /\ NoneSpent(t, Q)
      BY <1>1, <1>5, <1>6, <2>1, ShiftIs
    <3>2. PICK Q : TimersOK(t, Q) /\ NoneSpent(t, Q)
      BY <3>1
    <3>3. t.made \in Nat
      BY <3>2, TimersOKParts
    <3>4. timer' = None /\ head' = None /\ timer' \in 0..t.made
      BY <1>6, <2>1, <3>3 DEF None
    <3>5. FireOK(t, Q)'
      BY <1>4, <1>6, <3>1, <3>2, <3>4 DEF FireOK, Stands, NoneSpent
    <3> QED
      BY <3>1, <3>2, <3>5
  <2>2. CASE ~shifts
    <3>1. t = s /\ s.resolution /\ (~resumed => Len(s.bucket_list) = BUCKET_LEN)
      BY <1>6, <2>2
    <3>2. s.made \in Nat
      BY <1>5, TimersOKParts
    <3>3. timer' \in 0..s.made
      BY <1>5, <1>6, <3>2 DEF FireOK, None
    <3>4. CASE resumed
      <4>1. timer' = timer /\ head' = head
        BY <1>6, <2>2, <3>4
      <4>2. Stands(s, R) /\ Len(s.bucket_list) = BUCKET_LEN
        BY <1>5, <3>4 DEF FireOK
      <4>3. Stands(s, R)'
        BY <1>6, <4>1, <4>2, <3>1, <1>4 DEF Stands, InBucket, Reached, NoneSpent
      <4>4. FireOK(s, R)'
        BY <1>4, <1>6, <3>1, <3>3, <4>2, <4>3 DEF FireOK
      <4> QED
        BY <1>4, <1>5, <3>1, <4>4 DEF FireOK, Stands, InBucket, Reached, NoneSpent
    <3>5. CASE ~resumed
      <4>1. timer' = None /\ head' = None
        BY <1>6, <3>5
      <4>2. NoneSpent(s, R)
        BY <1>5, <1>6, <3>1, <3>5 DEF FireOK
      <4>3. FireOK(t, R)'
        BY <1>4, <1>6, <3>1, <3>3, <3>5, <4>1, <4>2 DEF FireOK, Stands, NoneSpent
      <4> QED
        BY <1>5, <3>1, <4>3
    <3> QED
      BY <3>4, <3>5
  <2> QED
    BY <2>1, <2>2
<1>9. PICK R2 : TimersOK(t, R2) /\ FireOK(t, R2)'
  BY <1>8
<1>10. \A i \in DOMAIN spent' : spent'[i] \in ss'.hasSpent
  BY <1>1, <1>3, <1>4, <1>6, <1>8
<1> QED
  BY <1>1, <1>4, <1>6, <1>7, <1>9, <1>10, NextInv

\* The end of fire(): no ring has any that ran, which are all deleted.
LEMMA TimerDoneKeeps ==
    ASSUME TimerInv, TimerDone, ~late'
    PROVE  TimerInv'
<1>1. /\ worldTime \in 0..MaxTime /\ worldTime \in Nat
      /\ spent \in Seq(Ids) /\ (\A i \in DOMAIN spent : spent[i] \in ss.hasSpent)
      /\ timer \in Ids \cup {None} /\ head \in Ids \cup {None}
  BY TimerAssumption DEF TimerInv
<1>2. PICK R : TimersOK(ss, R) /\ FireOK(ss, R)
  BY DEF TimerInv
<1>3. PICK s : s = ss
  OBVIOUS
<1>4. PICK t : t = ss'
  OBVIOUS
<1>5. TimersOK(s, R) /\ FireOK(s, R)
  BY <1>2, <1>3
<1>6. /\ firing = "while" /\ firing' \in {"idle", "paused"}
      /\ firing' = "idle" => ~Due
      /\ firing' = "paused" => ~Midway
      /\ t = allDestroyed(s, spent) /\ spent' = <<>>
      /\ UNCHANGED <<worldTime, timer, head>>
  BY <1>3, <1>4 DEF TimerDone, ends
<1>7. NoneSpent(s, R) /\ (timer = None \/ head = None)
  <2> SUFFICES ASSUME InBucket(s, R), head \in s.hasSpent PROVE FALSE
    BY <1>5, <1>6 DEF FireOK, Stands
  <2> DEFINE po == s.practical_offset
  <2>1. po \in DOMAIN R /\ s.head_offset + po <= worldTime /\ R[po] # <<>> /\ R[po][1] = head
    BY DEF InBucket
  <2>2. DOMAIN R = 1..BUCKET_LEN
    BY <1>5, <1>6, TimersOKParts DEF FireOK
  <2>3. po <= BUCKET_LEN
    BY <2>1, <2>2
  <2>4. Due
    BY <1>3, <2>1, <2>3 DEF Due
  <2>5. s.bucket_list[po] = head
    BY <1>5, <2>1, TimersOKParts DEF IsRing
  <2> QED
    BY <1>3, <1>6, <2>4, <2>5 DEF Midway
<1>8. /\ TimersOK(t, R) /\ NoneSpent(t, R) /\ t.hasSpent = s.hasSpent
      /\ t.resolution = s.resolution /\ t.bucket_list = s.bucket_list /\ t.made = s.made
  BY <1>1, <1>3, <1>5, <1>6, <1>7, AllDestroyedIs
<1>9. /\ timer' \in 0..t.made /\ t.resolution /\ Len(t.bucket_list) = BUCKET_LEN
  BY <1>5, <1>6, <1>8 DEF FireOK
<1>10. FireOK(t, R)'
  BY <1>6, <1>7, <1>8, <1>9 DEF FireOK, Stands, NoneSpent
<1>11. spent' \in Seq(Ids) /\ \A i \in DOMAIN spent' : spent'[i] \in ss'.hasSpent
  BY <1>6
<1>12. timer' \in Ids \cup {None} /\ head' \in Ids \cup {None}
  BY <1>1, <1>6
<1> QED
  BY <1>1, <1>4, <1>6, <1>8, <1>10, <1>11, <1>12, NextInv

bucketPassed(s) ==
    [s EXCEPT !.bucket_list = [@ EXCEPT ![s.practical_offset] = None], !.practical_offset = @ + 1]

\* No timer waits in the bucket that fire() is at, whose tick is over.
AllRan(s, R) ==
    /\ s.practical_offset \in DOMAIN R /\ s.head_offset + s.practical_offset <= worldTime
    /\ \A i \in DOMAIN R[s.practical_offset] : R[s.practical_offset][i] \in s.hasSpent

\* fire() is done with such a bucket, and goes to the next.
LEMMA BucketPassed ==
    ASSUME NEW s, NEW R, TimersOK(s, R), AllRan(s, R), worldTime \in Nat,
           NEW t, t = bucketPassed(s)
    PROVE  /\ t.hasSpent = s.hasSpent /\ t.resolution = s.resolution /\ t.made = s.made
           /\ Len(t.bucket_list) = Len(s.bucket_list)
           /\ \E Q : TimersOK(t, Q) /\ NoneSpent(t, Q)
<1> DEFINE po == s.practical_offset
           Q  == [R EXCEPT ![po] = <<>>]
<1>0. /\ po \in DOMAIN R /\ s.head_offset + po <= worldTime
      /\ \A i \in DOMAIN R[po] : R[po][i] \in s.hasSpent
  BY DEF AllRan
<1>1. /\ s \in SubsystemState /\ Rings(s, R) /\ LaterOK(s) /\ AllThere(s, R) /\ HashesOK(s)
      /\ SpentInFront(s, R) /\ s.made \in Nat
      /\ s.bucket_list \in Seq(Ids \cup {None}) /\ Len(s.bucket_list) \in Nat
      /\ DOMAIN s.bucket_list = 1..Len(s.bucket_list) /\ DOMAIN R = DOMAIN s.bucket_list
      /\ s.processing \in Seq(Ids)
      /\ \A x \in Ids : BUCKET_POS(s, x) \in Int
      /\ \A p \in DOMAIN R : /\ IsRing(s, R[p], s.bucket_list[p])
                             /\ \A i \in DOMAIN R[p] : R[p][i] \in s.callBack /\ BUCKET_POS(s, R[p][i]) = p
  BY TimersOKParts
<1>2. /\ s.head_offset \in Nat /\ po \in Nat /\ po = s.practical_offset /\ s.callBack \subseteq Ids
      /\ R \in [DOMAIN s.bucket_list -> Seq(Ids)]
  BY <1>1, FieldsAre DEF Rings
<1> DEFINE bs == [s.bucket_list EXCEPT ![po] = None]
<1>3. t = [s EXCEPT !.bucket_list = bs, !.practical_offset = po + 1]
  BY <1>1 DEF SubsystemState, bucketPassed
<1>4. bs \in Seq(Ids \cup {None}) /\ Len(bs) = Len(s.bucket_list) /\ bs[po] = None
      /\ \A p \in DOMAIN R : p # po => bs[p] = s.bucket_list[p]
  BY <1>0, <1>1
<1> HIDE DEF bs, Q, po
<1>5. t \in SubsystemState
  <2>1. PICK n \in Nat : n = po + 1
    BY <1>2
  <2>2. t = [s EXCEPT !.bucket_list = bs, !.practical_offset = n]
    BY <1>3, <2>1
  <2>3. s \in SubsystemState /\ bs \in Seq(Ids \cup {None})
    BY <1>0, <1>1, <1>4
  <2> QED
    BY ONLY <2>1, <2>2, <2>3 DEF SubsystemState
<1>6. /\ t.made = s.made /\ t.timeToRun = s.timeToRun /\ t.hash = s.hash
      /\ t.hasSpent = s.hasSpent /\ t.callBack = s.callBack /\ t.hashes = s.hashes
      /\ t.next = s.next /\ t.prev = s.prev /\ t.processing = s.processing
      /\ t.head_offset = s.head_offset /\ t.practical_offset = po + 1 /\ t.resolution = s.resolution
      /\ t.bucket_list = bs
  BY <1>0, <1>1, <1>3 DEF SubsystemState
<1>7. /\ \A x : BUCKET_POS(t, x) = BUCKET_POS(s, x)
      /\ WaitingIn(t) = WaitingIn(s)
  BY <1>6 DEF BUCKET_POS, WaitingIn
<1>8. /\ DOMAIN Q = DOMAIN t.bucket_list /\ DOMAIN Q = DOMAIN R /\ Q[po] = <<>>
      /\ Q \in [DOMAIN t.bucket_list -> Seq(Ids)]
      /\ \A p \in DOMAIN R : p # po => Q[p] = R[p]
  <2>1. DOMAIN t.bucket_list = DOMAIN R
    BY <1>0, <1>1, <1>4, <1>6
  <2>2. R \in [DOMAIN R -> Seq(Ids)] /\ <<>> \in Seq(Ids)
    BY <1>0, <1>1, <1>2
  <2>3. Q \in [DOMAIN R -> Seq(Ids)] /\ Q[po] = <<>> /\ \A p \in DOMAIN R : p # po => Q[p] = R[p]
    BY <1>0, <2>2 DEF Q
  <2> QED
    BY <2>1, <2>3
<1>9. Rings(t, Q)
  <2> SUFFICES ASSUME NEW p \in DOMAIN R
               PROVE  /\ IsRing(t, Q[p], t.bucket_list[p])
                      /\ \A i \in DOMAIN Q[p] : Q[p][i] \in t.callBack /\ BUCKET_POS(t, Q[p][i]) = p
    BY <1>8 DEF Rings
  <2>1. CASE p = po
    <3>1. Q[p] = <<>> /\ t.bucket_list[p] = None
      BY <1>4, <1>6, <1>8, <2>1
    <3>2. DOMAIN <<>> = {} /\ <<>> \in Seq(Ids)
      OBVIOUS
    <3> QED
      BY <3>1, <3>2 DEF IsRing, Ascends
  <2>2. CASE p # po
    <3>1. Q[p] = R[p] /\ t.bucket_list[p] = s.bucket_list[p]
      BY <1>4, <1>6, <1>8, <2>2
    <3>2. IsRing(t, R[p], s.bucket_list[p])
      BY <1>0, <1>1, <1>6, RingStays
    <3> QED
      BY <1>0, <1>1, <1>6, <1>7, <3>1, <3>2
  <2> QED
    BY <2>1, <2>2
<1>10. LaterOK(t)
  BY <1>0, <1>1, <1>4, <1>6, <1>7 DEF LaterOK
<1>11. AllThere(t, Q)
  <2> SUFFICES ASSUME NEW x \in WaitingIn(s)
               PROVE  LET pos == BUCKET_POS(s, x)
                      IN  /\ pos >= 1 /\ pos >= po + 1
                          /\ IF pos > Len(s.bucket_list) THEN x \in ToSet(s.processing)
                             ELSE x \in ToSet(Q[pos])
    BY <1>4, <1>6, <1>7 DEF AllThere
  <2> DEFINE pos == BUCKET_POS(s, x)
  <2>1. /\ pos \in Int /\ pos >= 1 /\ pos >= po
        /\ IF pos > Len(s.bucket_list) THEN x \in ToSet(s.processing) ELSE x \in ToSet(R[pos])
    BY <1>1, <1>2 DEF AllThere, WaitingIn
  <2> HIDE DEF pos
  <2>2. pos # po
    <3> SUFFICES ASSUME pos = po PROVE FALSE
      OBVIOUS
    <3>1. x \in ToSet(R[po])
      BY <1>0, <1>1, <2>1
    <3> QED
      BY <1>0, <3>1 DEF ToSet, WaitingIn
  <2>3. pos >= po + 1
    BY <1>2, <2>1, <2>2
  <2>4. ~(pos > Len(s.bucket_list)) => pos \in DOMAIN R
    BY <1>0, <1>1, <2>1
  <2>5. ~(pos > Len(s.bucket_list)) => Q[pos] = R[pos]
    BY ONLY <1>8, <2>2, <2>4
  <2> QED
    BY <2>1, <2>3, <2>5 DEF pos
<1>12. NoneSpent(t, Q) /\ SpentInFront(t, Q)
  <2> SUFFICES ASSUME NEW p \in DOMAIN Q, NEW i \in DOMAIN Q[p] PROVE Q[p][i] \notin s.hasSpent
    BY <1>6 DEF NoneSpent, SpentInFront
  <2>1. p # po /\ p \in DOMAIN R /\ Q[p] = R[p]
    BY <1>8
  <2> QED
    BY <1>1, <1>2, <2>1 DEF SpentInFront
<1>13. HashesOK(t)
  BY <1>0, <1>1, <1>6 DEF HashesOK
<1>14. /\ Len(t.bucket_list) \in {0, BUCKET_LEN}
       /\ t.practical_offset >= 1
       /\ t.head_offset <= worldTime /\ t.head_offset + t.practical_offset <= worldTime + 1
       /\ t.callBack \subseteq 1..t.made /\ t.hasSpent \subseteq 1..t.made
       /\ \A y \in Ids : y > t.made => t.next[y] = None /\ t.prev[y] = None
  BY <1>0, <1>2, <1>4, <1>6 DEF TimersOK
<1>15. TimersOK(t, Q)
  BY <1>5, <1>9, <1>10, <1>11, <1>12, <1>13, <1>14 DEF TimersOK
<1> QED
  BY <1>4, <1>6, <1>12, <1>15

\* fire() goes on at a first timer, or at the one where it was.
LEMMA NextBucketKeeps ==
    ASSUME TimerInv, NextBucket
    PROVE  TimerInv'
<1>1. /\ worldTime \in 0..MaxTime /\ worldTime \in Nat
      /\ spent \in Seq(Ids) /\ (\A i \in DOMAIN spent : spent[i] \in ss.hasSpent)
      /\ timer \in Ids \cup {None} /\ head \in Ids \cup {None}
  BY TimerAssumption DEF TimerInv
<1>2. PICK R : TimersOK(ss, R) /\ FireOK(ss, R)
  BY DEF TimerInv
<1>3. PICK s : s = ss
  OBVIOUS
<1>4. PICK t : t = ss'
  OBVIOUS
<1>5. TimersOK(s, R) /\ FireOK(s, R)
  BY <1>2, <1>3
<1>6. PICK po : po = s.practical_offset
  OBVIOUS
<1>7. PICK first : first = s.bucket_list[po]
  OBVIOUS
<1> DEFINE old == timer # None /\ head # None /\ timer # head
<1>8. firing = "while" /\ Due /\ worldTime' = worldTime
  BY DEF NextBucket
<1>9. s.resolution /\ Len(s.bucket_list) = BUCKET_LEN /\ timer \in 0..s.made /\ Stands(s, R)
  BY <1>5, <1>8 DEF FireOK
<1>10. po \in DOMAIN R /\ s.head_offset + po <= worldTime /\ DOMAIN R = 1..BUCKET_LEN
  <2>1. po \in Nat /\ po >= 1 /\ po <= BUCKET_LEN /\ s.head_offset + po <= worldTime
        /\ DOMAIN R = 1..BUCKET_LEN /\ BUCKET_LEN \in Nat
    <3>1. s \in SubsystemState /\ DOMAIN R = 1..BUCKET_LEN /\ po >= 1
      BY <1>5, <1>6, <1>9, TimersOKParts DEF TimersOK
    <3>2. po <= BUCKET_LEN /\ s.head_offset + po <= worldTime
      BY <1>3, <1>6, <1>8 DEF Due
    <3> QED
      BY <1>6, <3>1, <3>2, FieldsAre, TimerAssumption
  <2> QED
    BY <2>1
<1>11. IsRing(s, R[po], first) /\ \A i \in DOMAIN R[po] : R[po][i] \in s.callBack
  BY <1>5, <1>7, <1>10, TimersOKParts
<1>12. CASE old
  <2>1. firing' = "do" /\ t = s /\ timer' = timer /\ head' = head /\ spent' = spent
    BY <1>3, <1>4, <1>12 DEF NextBucket
  <2>2. InBucket(s, R) /\ Reached(s, R, timer)
    BY <1>9, <1>12 DEF Stands
  <2>3. FireOK(s, R)'
    BY <1>8, <1>9, <2>1, <2>2 DEF FireOK, InBucket, Reached
  <2>4. \A i \in DOMAIN spent' : spent'[i] \in ss'.hasSpent
    BY <1>1, <1>3, <1>4, <2>1
  <2>5. FireOK(t, R)'
    BY <2>1, <2>3 DEF FireOK, Stands, InBucket, Reached, NoneSpent
  <2> QED
    BY <1>1, <1>4, <1>5, <1>8, <2>1, <2>4, <2>5, NextInv
<1>13. CASE ~old /\ first # None
  <2>1. firing' = "do" /\ timer' = first /\ head' = first /\ t = s /\ spent' = spent
    BY <1>3, <1>4, <1>6, <1>7, <1>13 DEF NextBucket
  <2>2. R[po] # <<>> /\ R[po][1] = first /\ 1 \in DOMAIN R[po] /\ first \in s.callBack
    BY <1>11, <1>13, RingBasics
  <2>3. first \in 1..s.made /\ s.made \in Nat /\ first \in Ids
    BY <1>5, <2>2, TimersOKParts
  <2>4. InBucket(s, R)' /\ Reached(s, R, first)
    BY <1>6, <1>8, <1>10, <2>1, <2>2 DEF InBucket, Reached
  <2>5. first \in 0..s.made
    BY <2>3
  <2>6. FireOK(t, R)'
    BY <1>8, <1>9, <2>1, <2>4, <2>5 DEF FireOK, InBucket, Reached
  <2>7. \A i \in DOMAIN spent' : spent'[i] \in ss'.hasSpent
    BY <1>1, <1>3, <1>4, <2>1
  <2> QED
    BY <1>1, <1>4, <1>5, <1>8, <2>1, <2>3, <2>6, <2>7, NextInv
<1>14. CASE ~old /\ first = None
  <2>1. PICK u : u = [s EXCEPT !.practical_offset = @ + 1]
    OBVIOUS
  <2>2. /\ head' = None /\ timer' = timer
        /\ \/ firing' = "while" /\ t = u /\ spent' = spent
           \/ firing' = "paused" /\ t = allDestroyed(u, spent) /\ spent' = <<>>
    <3> HIDE DEF old
    <3>1. /\ head' = ss.bucket_list[ss.practical_offset]
          /\ \/ ss.bucket_list[ss.practical_offset] # None
             \/ /\ UNCHANGED timer
                /\ \/ firing' = "while" /\ ss' = [ss EXCEPT !.practical_offset = @ + 1]
                      /\ UNCHANGED spent
                   \/ firing' = "paused" /\ ends([ss EXCEPT !.practical_offset = @ + 1])
      BY <1>14 DEF NextBucket, old
    <3> QED
      BY <1>3, <1>4, <1>6, <1>7, <1>14, <2>1, <3>1 DEF ends
  <2>3. R[po] = <<>>
    BY <1>11, <1>14, RingBasics
  <2>5. u = bucketPassed(s)
    <3>1. s \in SubsystemState /\ s.bucket_list \in Seq(Ids \cup {None}) /\ DOMAIN s.bucket_list = DOMAIN R
      BY <1>5, TimersOKParts
    <3>2. PICK bs : bs = s.bucket_list
      OBVIOUS
    <3>3. bs \in Seq(Ids \cup {None}) /\ po \in DOMAIN bs
      BY <1>10, <3>1, <3>2
    <3>5. bs[po] = None
      BY <1>7, <1>14, <3>2
    <3>4. [bs EXCEPT ![po] = None] = bs
      BY ONLY <3>3, <3>5
    <3> QED
      BY <1>6, <2>1, <3>1, <3>2, <3>4 DEF SubsystemState, bucketPassed
  <2>6. \A i \in DOMAIN R[po] : R[po][i] \in s.hasSpent
    BY <2>3
  <2>7. /\ u.hasSpent = s.hasSpent /\ u.resolution = s.resolution /\ u.made = s.made
        /\ Len(u.bucket_list) = Len(s.bucket_list)
        /\ \E Q : TimersOK(u, Q) /\ NoneSpent(u, Q)
    <3>1. worldTime \in Nat /\ TimersOK(s, R)
      BY <1>1, <1>5
    <3>2. AllRan(s, R)
      BY <1>6, <1>10, <2>6 DEF AllRan
    <3> QED
      BY ONLY <2>5, <3>1, <3>2, BucketPassed
  <2>4. PICK Q : TimersOK(u, Q) /\ NoneSpent(u, Q)
    BY <2>7
  <2>8. /\ TimersOK(t, Q) /\ NoneSpent(t, Q) /\ t.hasSpent = s.hasSpent
        /\ t.resolution = s.resolution /\ t.made = s.made
        /\ Len(t.bucket_list) = Len(s.bucket_list)
    <3>1. CASE t = u
      BY <2>4, <2>7, <3>1
    <3>2. CASE t = allDestroyed(u, spent)
      <4>1. \A i \in DOMAIN spent : spent[i] \in u.hasSpent
        BY <1>1, <1>3, <2>7
      <4>2. /\ TimersOK(t, Q) /\ NoneSpent(t, Q) /\ t.hasSpent = u.hasSpent
            /\ t.resolution = u.resolution /\ t.bucket_list = u.bucket_list /\ t.made = u.made
        BY <1>1, <2>4, <3>2, <4>1, AllDestroyedIs
      <4> QED
        BY <2>7, <4>2
    <3> QED
      BY <2>2, <3>1, <3>2
  <2>9. FireOK(t, Q)'
    BY <1>8, <1>9, <2>2, <2>8 DEF FireOK, Stands, NoneSpent
  <2>10. spent' \in Seq(Ids) /\ \A i \in DOMAIN spent' : spent'[i] \in ss'.hasSpent
    <3>1. CASE spent' = spent
      BY <1>1, <1>3, <1>4, <2>8, <3>1
    <3>2. CASE spent' = <<>>
      BY <3>2
    <3> QED
      BY <2>2, <3>1, <3>2
  <2>11. /\ timer' \in Ids \cup {None} /\ head' \in Ids \cup {None}
         /\ firing' \in {"idle", "while", "do", "callback", "paused"}
    BY <1>1, <2>2
  <2> QED
    BY <1>1, <1>4, <1>8, <2>8, <2>9, <2>10, <2>11, NextInv
<1> QED
  BY <1>12, <1>13, <1>14

\* CRASH(): the next fire() shifts.
LEMMA InvalidTimerKeeps ==
    ASSUME TimerInv, InvalidTimer
    PROVE  TimerInv'
<1>1. /\ worldTime \in 0..MaxTime
      /\ spent \in Seq(Ids) /\ (\A i \in DOMAIN spent : spent[i] \in ss.hasSpent)
      /\ timer \in Ids \cup {None} /\ head \in Ids \cup {None}
  BY DEF TimerInv
<1>2. PICK R : TimersOK(ss, R) /\ FireOK(ss, R)
  BY DEF TimerInv
<1>3. PICK s : s = ss
  OBVIOUS
<1>4. PICK t : t = ss'
  OBVIOUS
<1>5. TimersOK(s, R) /\ FireOK(s, R)
  BY <1>2, <1>3
<1>6. /\ t = [s EXCEPT !.resolution = FALSE] /\ firing' = "idle"
      /\ UNCHANGED <<worldTime, timer, head, spent>>
  BY <1>3, <1>4 DEF InvalidTimer
<1>7. s \in SubsystemState
  BY <1>5, TimersOKParts
<1>8. t \in SubsystemState
  BY <1>6, <1>7 DEF SubsystemState
<1>9. /\ t.made = s.made /\ t.timeToRun = s.timeToRun /\ t.hash = s.hash
      /\ t.hasSpent = s.hasSpent /\ t.callBack = s.callBack /\ t.hashes = s.hashes
      /\ t.next = s.next /\ t.prev = s.prev /\ t.processing = s.processing
      /\ t.head_offset = s.head_offset /\ t.practical_offset = s.practical_offset
      /\ t.bucket_list = s.bucket_list /\ t.resolution = FALSE
  BY <1>6, <1>7 DEF SubsystemState
<1>10. TimersOK(t, R)
  BY <1>5, <1>8, <1>9 DEF TimersOK, Rings, LaterOK, AllThere, HashesOK, SpentInFront, IsRing,
                          WaitingIn, BUCKET_POS
<1>11. FireOK(t, R)'
  BY <1>5, <1>6, <1>9 DEF FireOK
<1>12. \A i \in DOMAIN spent' : spent'[i] \in ss'.hasSpent
  BY <1>1, <1>3, <1>4, <1>6, <1>9
<1> QED
  BY <1>1, <1>4, <1>6, <1>10, <1>11, <1>12, NextInv

\* A timer begins to run: all before it in its ring have.
LEMMA RunTimerKeeps ==
    ASSUME TimerInv, RunTimer
    PROVE  TimerInv'
<1>1. /\ worldTime \in 0..MaxTime
      /\ spent \in Seq(Ids) /\ (\A i \in DOMAIN spent : spent[i] \in ss.hasSpent)
      /\ timer \in Ids \cup {None} /\ head \in Ids \cup {None}
  BY DEF TimerInv
<1>2. PICK R : TimersOK(ss, R) /\ FireOK(ss, R)
  BY DEF TimerInv
<1>3. PICK s : s = ss
  OBVIOUS
<1>4. PICK t : t = ss'
  OBVIOUS
<1>5. TimersOK(s, R) /\ FireOK(s, R)
  BY <1>2, <1>3
<1>a. PICK x : x = timer
  OBVIOUS
<1>6. /\ firing = "do" /\ x \in s.callBack \ s.hasSpent
      /\ t = [s EXCEPT !.hasSpent = @ \cup {x}] /\ firing' = "callback"
      /\ spent' = Append(spent, x) /\ UNCHANGED <<worldTime, timer, head>>
  BY <1>3, <1>4, <1>a DEF RunTimer
<1>7. /\ s \in SubsystemState /\ Rings(s, R) /\ LaterOK(s) /\ AllThere(s, R) /\ HashesOK(s)
      /\ SpentInFront(s, R)
      /\ s.made \in Nat /\ s.callBack \subseteq 1..s.made /\ s.hasSpent \subseteq 1..s.made
      /\ s.callBack \subseteq Ids /\ s.hasSpent \subseteq Ids
      /\ DOMAIN s.bucket_list = 1..Len(s.bucket_list) /\ DOMAIN R = DOMAIN s.bucket_list
      /\ \A p \in DOMAIN R : /\ IsRing(s, R[p], s.bucket_list[p])
                             /\ \A i \in DOMAIN R[p] : R[p][i] \in s.callBack /\ BUCKET_POS(s, R[p][i]) = p
  BY <1>5, TimersOKParts
<1>8. t \in SubsystemState
  <2>1. PICK h : h = s.hasSpent \cup {x}
    OBVIOUS
  <2>2. h \in SUBSET Ids /\ t = [s EXCEPT !.hasSpent = h]
    BY <1>6, <1>7, <2>1
  <2> QED
    BY ONLY <1>7, <2>2 DEF SubsystemState
<1>9. /\ t.made = s.made /\ t.timeToRun = s.timeToRun /\ t.hash = s.hash
      /\ t.hasSpent = s.hasSpent \cup {x} /\ t.callBack = s.callBack /\ t.hashes = s.hashes
      /\ t.next = s.next /\ t.prev = s.prev /\ t.processing = s.processing
      /\ t.head_offset = s.head_offset /\ t.practical_offset = s.practical_offset
      /\ t.bucket_list = s.bucket_list /\ t.resolution = s.resolution
  BY <1>6, <1>7 DEF SubsystemState
<1>10. \A y : BUCKET_POS(t, y) = BUCKET_POS(s, y)
  BY <1>9 DEF BUCKET_POS
<1> DEFINE po == s.practical_offset
           q  == R[po]
<1>11. InBucket(s, R) /\ Reached(s, R, x) /\ po \in DOMAIN R /\ s.head_offset + po <= worldTime
  BY <1>5, <1>6, <1>a DEF FireOK, InBucket
<1>12. PICK k \in DOMAIN q : q[k] = x /\ \A j \in 1..(k - 1) : q[j] \in s.hasSpent
  BY <1>6, <1>11 DEF Reached
<1>13. q \in Seq(Ids) /\ DOMAIN q = 1..Len(q) /\ Len(q) \in Nat
       /\ \A i, j \in DOMAIN q : q[i] = q[j] => i = j
  <2>1. IsRing(s, q, s.bucket_list[po])
    BY <1>7, <1>11
  <2> HIDE DEF q
  <2> QED
    BY <2>1, RingBasics
<1>14. BUCKET_POS(s, x) = po
  BY <1>7, <1>11, <1>12
<1>15. Rings(t, R) /\ HashesOK(t)
  BY <1>7, <1>9, <1>10 DEF Rings, IsRing, HashesOK
<1>16. LaterOK(t)
  <2> SUFFICES ASSUME NEW i \in DOMAIN s.processing
               PROVE  LET y == s.processing[i]
                      IN  /\ y \in WaitingIn(t) /\ BUCKET_POS(t, y) > Len(t.bucket_list)
                          /\ t.next[y] = None /\ t.prev[y] = None
    BY <1>7, <1>9 DEF LaterOK
  <2>1. /\ s.processing[i] \in WaitingIn(s)
        /\ BUCKET_POS(s, s.processing[i]) > Len(s.bucket_list)
        /\ s.next[s.processing[i]] = None /\ s.prev[s.processing[i]] = None
    BY <1>7 DEF LaterOK
  <2>2. s.processing[i] # x
    <3>1. po <= Len(s.bucket_list) /\ po \in 1..Len(s.bucket_list) /\ Len(s.bucket_list) \in Nat
      BY <1>5, <1>7, <1>11, TimersOKParts
    <3> QED
      BY <1>14, <2>1, <3>1
  <2> QED
    BY <1>9, <1>10, <2>1, <2>2 DEF WaitingIn
<1>17. AllThere(t, R)
  BY <1>7, <1>9, <1>10 DEF AllThere, WaitingIn
<1>18. SpentInFront(t, R)
  <2> SUFFICES ASSUME NEW p \in DOMAIN R, NEW i \in DOMAIN R[p], R[p][i] \in t.hasSpent
               PROVE  /\ p = po /\ s.head_offset + p <= worldTime
                      /\ \A j \in 1..i : R[p][j] \in t.hasSpent
    BY <1>9 DEF SpentInFront
  <2>1. CASE R[p][i] \in s.hasSpent
    BY <1>7, <1>9, <2>1 DEF SpentInFront
  <2>2. CASE R[p][i] = x
    <3>1. p = po
      BY <1>7, <1>14, <2>2
    <3>2. i = k
      BY <1>12, <1>13, <2>2, <3>1
    <3>3. ASSUME NEW j \in 1..i PROVE R[p][j] \in t.hasSpent
      <4>1. j = k \/ j \in 1..(k - 1)
        BY <1>13, <3>2
      <4> QED
        BY <1>9, <1>12, <3>1, <4>1
    <3> QED
      BY <1>11, <3>1, <3>3
  <2> QED
    BY <1>9, <2>1, <2>2
<1>19. t.hasSpent \subseteq 1..t.made
  BY <1>6, <1>7, <1>9
<1>20. TimersOK(t, R)
  <2>1. /\ t.callBack \subseteq 1..t.made
        /\ Len(t.bucket_list) \in {0, BUCKET_LEN}
        /\ Len(t.bucket_list) = BUCKET_LEN => t.practical_offset >= 1
        /\ t.head_offset <= worldTime /\ t.head_offset + t.practical_offset <= worldTime + 1
        /\ \A y \in Ids : y > t.made => t.next[y] = None /\ t.prev[y] = None
    BY <1>5, <1>9 DEF TimersOK
  <2> QED
    BY ONLY <1>8, <1>15, <1>16, <1>17, <1>18, <1>19, <2>1 DEF TimersOK
<1>21. FireOK(t, R)'
  <2>1. InBucket(t, R)' /\ Reached(t, R, x)
    BY <1>6, <1>9, <1>11 DEF InBucket, Reached
  <2>2. timer' = x /\ timer' \in 0..t.made /\ x \in t.callBack \cap t.hasSpent
        /\ t.resolution /\ Len(t.bucket_list) = BUCKET_LEN
    BY <1>5, <1>6, <1>9, <1>a DEF FireOK
  <2> QED
    BY <1>6, <2>1, <2>2 DEF FireOK
<1>22. spent' \in Seq(Ids) /\ \A i \in DOMAIN spent' : spent'[i] \in ss'.hasSpent
  <2>1. x \in Ids
    BY <1>6, <1>7
  <2>2. spent' \in Seq(Ids) /\ \A i \in DOMAIN spent' :
          spent'[i] = x \/ (i \in DOMAIN spent /\ spent'[i] = spent[i])
    BY <1>1, <1>6, <2>1
  <2> QED
    BY <1>1, <1>3, <1>4, <1>9, <2>2
<1> QED
  BY <1>1, <1>4, <1>6, <1>20, <1>21, <1>22, NextInv

\* The timer after one that ran: the ring is at its end, or goes on.
LEMMA NextInRing ==
    ASSUME NEW s, NEW R, TimersOK(s, R), InBucket(s, R), Reached(s, R, timer),
           timer \in s.callBack \cap s.hasSpent, NEW n, n = s.next[timer]
    PROVE  /\ head \in s.hasSpent /\ n \in 0..s.made /\ n \in Ids \cup {None}
           /\ n \in {None, head} =>
                \A i \in DOMAIN R[s.practical_offset] : R[s.practical_offset][i] \in s.hasSpent
           /\ n \notin {None, head} => Reached(s, R, n)
<1> DEFINE q == R[s.practical_offset]
           L == Len(q)
<1>1. s.practical_offset \in DOMAIN R /\ q # <<>> /\ q[1] = head
  BY DEF InBucket
<1>2. IsRing(s, q, s.bucket_list[s.practical_offset]) /\ (\A i \in DOMAIN q : q[i] \in s.callBack)
      /\ s.callBack \subseteq 1..s.made /\ s.made \in Nat /\ s.callBack \subseteq Ids
  BY <1>1, TimersOKParts
<1>3. PICK k \in DOMAIN q : q[k] = timer /\ \A j \in 1..(k - 1) : q[j] \in s.hasSpent
  BY DEF Reached
<1>4. /\ n = IF L = 1 THEN None ELSE q[IF k = L THEN 1 ELSE k + 1]
  BY <1>2, <1>3 DEF IsRing
<1> HIDE DEF q
<1>6. /\ L \in Nat /\ DOMAIN q = 1..L /\ \A i \in DOMAIN q : q[i] # None
      /\ \A i, j \in DOMAIN q : q[i] = q[j] => i = j
  BY <1>2, RingBasics
<1>7. k \in 1..L /\ k \in Nat /\ 1 \in 1..k /\ 1 \in 1..L
  BY <1>3, <1>6
<1>5. \A j \in 1..k : q[j] \in s.hasSpent
  <2> SUFFICES ASSUME NEW j \in 1..k PROVE q[j] \in s.hasSpent
    OBVIOUS
  <2>1. j = k \/ j \in 1..(k - 1)
    BY <1>7
  <2> QED
    BY <1>3, <2>1
<1>8. head \in s.hasSpent
  BY <1>1, <1>5, <1>7
<1>9. n \in 0..s.made /\ n \in Ids \cup {None}
  <2>1. n = None \/ \E j \in DOMAIN q : n = q[j]
    BY <1>4, <1>6, <1>7
  <2> QED
    BY <1>2, <2>1 DEF None
<1>10. ASSUME n \in {None, head} PROVE \A i \in DOMAIN q : q[i] \in s.hasSpent
  <2>1. k = L
    <3>1. CASE L = 1
      BY <1>7, <3>1
    <3>2. CASE L # 1 /\ k # L
      <4>1. k + 1 \in DOMAIN q /\ n = q[k + 1] /\ n # None /\ k + 1 # 1
        BY <1>4, <1>6, <1>7, <3>2
      <4>2. q[k + 1] = q[1]
        BY <1>1, <1>10, <4>1
      <4> QED
        BY <1>6, <1>7, <4>1, <4>2
    <3> QED
      BY <3>1, <3>2
  <2> QED
    BY <1>5, <1>6, <2>1
<1>11. ASSUME n \notin {None, head} PROVE Reached(s, R, n)
  <2>1. L # 1 /\ k # L
    BY <1>1, <1>4, <1>7, <1>11
  <2>2. k + 1 \in DOMAIN q /\ n = q[k + 1] /\ (k + 1) - 1 = k
    BY <1>4, <1>6, <1>7, <2>1
  <2>3. \A j \in 1..((k + 1) - 1) : q[j] \in s.hasSpent
    BY <1>5, <2>2
  <2> QED
    BY <2>2, <2>3 DEF q, Reached
<1> QED
  BY <1>8, <1>9, <1>10, <1>11 DEF q

\* fire() goes on in the ring, or is done with it.
LEMMA NextTimerKeeps ==
    ASSUME TimerInv, NextTimer
    PROVE  TimerInv'
<1>1. /\ worldTime \in 0..MaxTime /\ worldTime \in Nat
      /\ spent \in Seq(Ids) /\ (\A i \in DOMAIN spent : spent[i] \in ss.hasSpent)
      /\ timer \in Ids \cup {None} /\ head \in Ids \cup {None}
  BY TimerAssumption DEF TimerInv
<1>2. PICK R : TimersOK(ss, R) /\ FireOK(ss, R)
  BY DEF TimerInv
<1>3. PICK s : s = ss
  OBVIOUS
<1>4. PICK t : t = ss'
  OBVIOUS
<1>5. TimersOK(s, R) /\ FireOK(s, R)
  BY <1>2, <1>3
<1>6. PICK n : n = s.next[timer]
  OBVIOUS
<1>7. /\ firing = "callback" \/ (firing = "do" /\ timer \in s.callBack \cap s.hasSpent)
      /\ \/ firing' = "paused" /\ timer' = n /\ t = s
         \/ n \notin {None, head} /\ firing' = "do" /\ timer' = n /\ t = s
         \/ /\ n \in {None, head} /\ firing' \in {"while", "paused"} /\ timer' = None
            /\ t = bucketPassed(s)
      /\ UNCHANGED <<worldTime, head, spent>>
  BY <1>3, <1>4, <1>6 DEF NextTimer, bucketPassed
<1>8. /\ InBucket(s, R) /\ Reached(s, R, timer) /\ timer \in s.callBack \cap s.hasSpent
      /\ s.resolution /\ Len(s.bucket_list) = BUCKET_LEN
  BY <1>5, <1>7 DEF FireOK
<1>9. /\ head \in s.hasSpent /\ n \in 0..s.made /\ n \in Ids \cup {None}
      /\ n \in {None, head} =>
           \A i \in DOMAIN R[s.practical_offset] : R[s.practical_offset][i] \in s.hasSpent
      /\ n \notin {None, head} => Reached(s, R, n)
  BY <1>5, <1>6, <1>8, NextInRing
<1>10. timer' \in Ids \cup {None} /\ head' \in Ids \cup {None}
       /\ firing' \in {"idle", "while", "do", "callback", "paused"}
  BY <1>1, <1>7, <1>9
<1>11. CASE t = s /\ timer' = n
  <2>1. firing' = "paused" \/ (n \notin {None, head} /\ firing' = "do")
        \/ (firing' \in {"while", "paused"} /\ n = None)
    BY <1>7, <1>11
  <2>2. InBucket(s, R)'
    BY <1>7, <1>8 DEF InBucket
  <2>3. Stands(s, R)'
    BY <1>7, <1>9, <1>11, <2>2 DEF Stands, Reached
  <2>4. FireOK(t, R)'
    BY <1>7, <1>8, <1>9, <1>11, <2>1, <2>2, <2>3 DEF FireOK, Reached, Stands, InBucket, NoneSpent
  <2>5. \A i \in DOMAIN spent' : spent'[i] \in ss'.hasSpent
    BY <1>1, <1>3, <1>4, <1>7, <1>11
  <2> QED
    BY <1>1, <1>4, <1>5, <1>7, <1>10, <1>11, <2>4, <2>5, NextInv
<1>12. CASE n \in {None, head} /\ firing' \in {"while", "paused"} /\ timer' = None /\ t = bucketPassed(s)
  <2>1. AllRan(s, R)
    BY <1>8, <1>9, <1>12 DEF AllRan, InBucket
  <2>2. /\ t.hasSpent = s.hasSpent /\ t.resolution = s.resolution /\ t.made = s.made
        /\ Len(t.bucket_list) = Len(s.bucket_list)
        /\ \E Q : TimersOK(t, Q) /\ NoneSpent(t, Q)
    BY <1>1, <1>5, <1>12, <2>1, BucketPassed
  <2>3. PICK Q : TimersOK(t, Q) /\ NoneSpent(t, Q)
    BY <2>2
  <2>4. t.made \in Nat
    BY <2>3, TimersOKParts
  <2>5. FireOK(t, Q)'
    BY <1>8, <1>12, <2>2, <2>3, <2>4 DEF FireOK, Stands, NoneSpent, None
  <2>6. \A i \in DOMAIN spent' : spent'[i] \in ss'.hasSpent
    BY <1>1, <1>3, <1>4, <1>7, <2>2
  <2> QED
    BY <1>1, <1>4, <1>7, <1>10, <2>3, <2>5, <2>6, NextInv
<1> QED
  BY <1>7, <1>11, <1>12

LEMMA TickPassesKeeps ==
    ASSUME TimerInv, TickPasses
    PROVE  TimerInv'
<1>1. /\ worldTime \in 0..MaxTime /\ worldTime \in Nat /\ MaxTime \in Nat
      /\ spent \in Seq(Ids) /\ (\A i \in DOMAIN spent : spent[i] \in ss.hasSpent)
      /\ timer \in Ids \cup {None} /\ head \in Ids \cup {None}
  BY TimerAssumption DEF TimerInv
<1>2. PICK R : TimersOK(ss, R) /\ FireOK(ss, R)
  BY DEF TimerInv
<1>3. /\ firing \in {"idle", "paused"} /\ worldTime < MaxTime /\ worldTime' = worldTime + 1
      /\ UNCHANGED <<ss, firing, timer, head, spent>>
  BY DEF TickPasses
<1>4. PICK s : s = ss
  OBVIOUS
<1>5. s \in SubsystemState /\ TimersOK(s, R) /\ FireOK(s, R) /\ DOMAIN R = 1..Len(s.bucket_list)
  BY <1>2, <1>4, TimersOKParts
<1>6. s.head_offset \in Nat /\ s.practical_offset \in Nat /\ Len(s.bucket_list) \in Nat
  BY <1>5, FieldsAre
<1>7. \A p \in DOMAIN R : s.head_offset + p <= worldTime => s.head_offset + p <= worldTime'
  BY <1>1, <1>3, <1>5, <1>6
<1>8. SpentInFront(s, R)'
  BY <1>5, <1>7 DEF TimersOK, SpentInFront
<1>9. TimersOK(s, R)'
  <2>1. s.head_offset <= worldTime' /\ s.head_offset + s.practical_offset <= worldTime' + 1
    BY <1>1, <1>3, <1>5, <1>6 DEF TimersOK
  <2> QED
    BY <1>5, <1>8, <2>1 DEF TimersOK
<1>10. FireOK(s, R)'
  BY <1>3, <1>5, <1>7 DEF FireOK, Stands, InBucket, NoneSpent, Reached
<1>11. ss' = s /\ ss = s
  BY <1>3, <1>4
<1>12. TimersOK(ss, R)'
  BY <1>9, <1>11 DEF TimersOK, SpentInFront
<1>13. FireOK(ss, R)'
  BY <1>10, <1>11 DEF FireOK, Stands, InBucket
<1>14. worldTime' \in 0..MaxTime
  BY <1>1, <1>3
<1> QED
  BY <1>1, <1>3, <1>12, <1>13, <1>14 DEF TimerInv

\* TimerInv is inductive, until a tick is over as soon as fire() resumes in a bucket.
LEMMA TimerStepKeeps ==
    ASSUME TimerInv, [TimerNext]_timeVars, ~late'
    PROVE  TimerInv'
<1>1. CASE TimerFire
  BY <1>1, TimerFireKeeps
<1>2. CASE TimerDone
  BY <1>2, TimerDoneKeeps
<1>3. CASE NextBucket
  BY <1>3, NextBucketKeeps
<1>4. CASE InvalidTimer
  BY <1>4, InvalidTimerKeeps
<1>5. CASE RunTimer
  BY <1>5, RunTimerKeeps
<1>6. CASE NextTimer
  BY <1>6, NextTimerKeeps
<1>7. CASE TimerGame
  BY <1>7, TimerGameKeeps
<1>8. CASE TickPasses
  BY <1>8, TickPassesKeeps
<1>9. CASE UNCHANGED timeVars
  BY <1>9 DEF timeVars, TimerInv, TimersOK, SpentInFront, FireOK, Stands, InBucket, Reached
<1> QED
  BY <1>1, <1>2, <1>3, <1>4, <1>5, <1>6, <1>7, <1>8, <1>9 DEF TimerNext, TimerStep

LEMMA LateStays ==
    ASSUME late, [TimerNext]_timeVars
    PROVE  late'
<1>1. CASE TimerStep
  BY <1>1 DEF TimerStep, TimerFire, TimerDone, NextBucket, InvalidTimer, RunTimer, NextTimer
<1>2. CASE TimerGame \/ TickPasses \/ UNCHANGED timeVars
  BY <1>2 DEF TimerGame, TickPasses, timeVars
<1> QED
  BY <1>1, <1>2 DEF TimerNext

LEMMA TimerInvHolds == TimerSpec => [](late \/ TimerInv)
<1>1. TimerInit => late \/ TimerInv
  BY TimerInitInv
<1>2. (late \/ TimerInv) /\ [TimerNext]_timeVars => (late \/ TimerInv)'
  BY TimerStepKeeps, LateStays
<1> QED
  BY <1>1, <1>2, PTL DEF TimerSpec

LEMMA TimerInvBuckets ==
    ASSUME TimerInv
    PROVE  BucketHoldsAll /\ BucketsAreClean
<1>1. PICK R : TimersOK(ss, R)
  BY DEF TimerInv
<1>2. /\ ss \in SubsystemState /\ AllThere(ss, R) /\ HashesOK(ss) /\ DOMAIN R = DOMAIN ss.bucket_list
      /\ DOMAIN ss.bucket_list = 1..Len(ss.bucket_list) /\ Len(ss.bucket_list) \in Nat
      /\ \A y \in Ids : BUCKET_POS(ss, y) \in Int
      /\ ss.callBack \subseteq Ids
      /\ \A p \in DOMAIN R : /\ IsRing(ss, R[p], ss.bucket_list[p])
                             /\ \A i \in DOMAIN R[p] : R[p][i] \in ss.callBack /\ BUCKET_POS(ss, R[p][i]) = p
  BY <1>1, TimersOKParts
<1>3. \A p \in DOMAIN R : ring(ss, ss.bucket_list[p]) = R[p]
  BY <1>2, RingIs
<1>4. ASSUME NEW x \in Waiting
      PROVE  /\ BUCKET_POS(ss, x) >= ss.practical_offset
             /\ IF BUCKET_POS(ss, x) > Len(ss.bucket_list) THEN x \in ToSet(ss.processing)
                ELSE x \in ToSet(ring(ss, ss.bucket_list[BUCKET_POS(ss, x)]))
  <2>1. PICK pos : pos = BUCKET_POS(ss, x)
    OBVIOUS
  <2>2. /\ pos \in Int /\ pos >= 1 /\ pos >= ss.practical_offset
        /\ IF pos > Len(ss.bucket_list) THEN x \in ToSet(ss.processing) ELSE x \in ToSet(R[pos])
    BY <1>2, <2>1 DEF Waiting, WaitingIn, AllThere
  <2>3. ~(pos > Len(ss.bucket_list)) => ring(ss, ss.bucket_list[pos]) = R[pos]
    BY <1>2, <1>3, <2>2
  <2> QED
    BY <2>1, <2>2, <2>3
<1>5. BucketHoldsAll
  BY <1>4 DEF BucketHoldsAll
<1>6. BucketsAreClean
  <2>1. ASSUME NEW p \in DOMAIN ss.bucket_list
        PROVE  ToSet(ring(ss, ss.bucket_list[p])) \subseteq ss.callBack
    BY <1>2, <1>3 DEF ToSet
  <2> QED
    BY <1>4, <2>1 DEF BucketsAreClean
<1> QED
  BY <1>5, <1>6

LEMMA TimerRunsInOrder ==
    ASSUME TimerInv, RunTimer
    PROVE  /\ ss.timeToRun[timer] < worldTime
           /\ \A x \in Waiting :
                \/ ss.timeToRun[timer] < ss.timeToRun[x]
                \/ ss.timeToRun[timer] = ss.timeToRun[x] /\ timer <= x
<1>1. PICK R : TimersOK(ss, R) /\ FireOK(ss, R)
  BY DEF TimerInv
<1>2. PICK s : s = ss
  OBVIOUS
<1>3. PICK x : x = timer
  OBVIOUS
<1>4. TimersOK(s, R) /\ firing = "do" /\ x \in s.callBack \ s.hasSpent
      /\ InBucket(s, R) /\ Reached(s, R, x)
  BY <1>1, <1>2, <1>3 DEF RunTimer, FireOK
<1> DEFINE po == s.practical_offset
           q  == R[po]
<1>5. PICK k \in DOMAIN q : q[k] = x /\ \A j \in 1..(k - 1) : q[j] \in s.hasSpent
  BY <1>4 DEF Reached
<1>6. po \in DOMAIN R /\ s.head_offset + po <= worldTime
  BY <1>4 DEF InBucket
<1>7. /\ s \in SubsystemState /\ s.callBack \subseteq Ids /\ AllThere(s, R)
      /\ Len(s.bucket_list) \in Nat /\ DOMAIN R = 1..Len(s.bucket_list)
      /\ IsRing(s, q, s.bucket_list[po]) /\ BUCKET_POS(s, x) = po
  BY <1>4, <1>5, <1>6, TimersOKParts
<1>8. /\ s.timeToRun \in [Ids -> Nat] /\ s.head_offset \in Nat
      /\ \A y : BUCKET_POS(s, y) = s.timeToRun[y] - s.head_offset + 1
  BY <1>4, <1>7, FieldsAre, TimersOKParts
<1>9. x \in Ids /\ s.timeToRun[x] \in Nat /\ s.timeToRun[x] = po + s.head_offset - 1 /\ po \in Nat
  <2>1. x \in Ids /\ po \in Nat
    BY <1>4, <1>6, <1>7
  <2>2. s.timeToRun[x] \in Nat /\ po = s.timeToRun[x] - s.head_offset + 1
    BY <1>7, <1>8, <2>1
  <2> HIDE DEF po
  <2> QED
    BY <1>8, <2>1, <2>2
<1>10. worldTime \in Nat
  BY TimerAssumption DEF TimerInv
<1> HIDE DEF q
<1>11. s.timeToRun[x] < worldTime
  BY <1>6, <1>8, <1>9, <1>10
<1>12. ASSUME NEW y \in WaitingIn(s)
       PROVE  \/ s.timeToRun[x] < s.timeToRun[y]
              \/ s.timeToRun[x] = s.timeToRun[y] /\ x <= y
  <2>1. /\ y \in Ids /\ s.timeToRun[y] \in Nat /\ BUCKET_POS(s, y) = s.timeToRun[y] - s.head_offset + 1
    BY <1>7, <1>8 DEF WaitingIn
  <2>2. /\ BUCKET_POS(s, y) >= po
        /\ BUCKET_POS(s, y) = po => y \in ToSet(q)
    <3>1. /\ BUCKET_POS(s, y) >= po
          /\ IF BUCKET_POS(s, y) > Len(s.bucket_list) THEN y \in ToSet(s.processing)
             ELSE y \in ToSet(R[BUCKET_POS(s, y)])
      BY <1>7 DEF AllThere
    <3>2. ~(po > Len(s.bucket_list))
      BY <1>6, <1>7
    <3> QED
      BY <3>1, <3>2 DEF q
  <2>3. CASE BUCKET_POS(s, y) # po
    <3>1. BUCKET_POS(s, y) > po
      BY <1>8, <1>9, <2>1, <2>2, <2>3
    <3> QED
      BY <1>8, <1>9, <2>1, <3>1
  <2>4. CASE BUCKET_POS(s, y) = po
    <3>1. PICK j \in DOMAIN q : y = q[j]
      BY <2>2, <2>4 DEF ToSet
    <3>2. /\ Len(q) \in Nat /\ DOMAIN q = 1..Len(q) /\ \A i \in DOMAIN q : q[i] \in Nat
          /\ \A i, l \in DOMAIN q : i < l => q[i] < q[l]
      BY <1>7, RingBasics
    <3>3. ~(j \in 1..(k - 1))
      BY <1>5, <3>1 DEF WaitingIn
    <3>4. j = k \/ k < j
      BY <1>5, <3>1, <3>2, <3>3
    <3>5. x = y \/ x < y
      BY <1>5, <3>1, <3>2, <3>4
    <3>6. x \in Nat /\ y \in Nat
      BY <1>5, <3>1, <3>2
    <3> QED
      BY <1>8, <1>9, <2>1, <2>4, <3>5, <3>6
  <2> QED
    BY <2>3, <2>4
<1> QED
  BY <1>2, <1>3, <1>11, <1>12 DEF Waiting, WaitingIn

LEMMA TimerRunsInTime ==
    ASSUME TimerInv, TimerDone, firing' = "idle"
    PROVE  \A x \in Waiting :
             \/ ss.timeToRun[x] >= worldTime
             \/ ss.practical_offset > BUCKET_LEN /\ BUCKET_POS(ss, x) > BUCKET_LEN
<1> SUFFICES ASSUME NEW x \in Waiting
             PROVE  \/ ss.timeToRun[x] >= worldTime
                    \/ ss.practical_offset > BUCKET_LEN /\ BUCKET_POS(ss, x) > BUCKET_LEN
  OBVIOUS
<1>1. PICK R : TimersOK(ss, R)
  BY DEF TimerInv
<1>2. PICK s : s = ss
  OBVIOUS
<1>3. TimersOK(s, R) /\ x \in WaitingIn(s)
  BY <1>1, <1>2 DEF Waiting, WaitingIn
<1>4. /\ s \in SubsystemState /\ s.callBack \subseteq Ids /\ AllThere(s, R)
      /\ BUCKET_POS(s, x) = s.timeToRun[x] - s.head_offset + 1
  BY <1>3, TimersOKParts
<1>5. /\ s.timeToRun[x] \in Nat /\ s.head_offset \in Nat /\ s.practical_offset \in Nat
      /\ BUCKET_LEN \in Nat /\ worldTime \in Nat
  BY <1>3, <1>4, FieldsAre, TimerAssumption DEF WaitingIn, TimerInv
<1>6. BUCKET_POS(s, x) >= s.practical_offset
  BY <1>3, <1>4 DEF AllThere
<1>7. ~(s.practical_offset <= BUCKET_LEN) \/ ~(s.head_offset + s.practical_offset <= worldTime)
  BY <1>2 DEF TimerDone, Due
<1>8. CASE ~(s.practical_offset <= BUCKET_LEN)
  <2>1. s.practical_offset > BUCKET_LEN /\ BUCKET_POS(s, x) > BUCKET_LEN
    BY <1>4, <1>5, <1>6, <1>8
  <2> QED
    BY <1>2, <2>1
<1>9. CASE ~(s.head_offset + s.practical_offset <= worldTime)
  <2>1. s.timeToRun[x] >= worldTime
    BY <1>4, <1>5, <1>6, <1>9
  <2> QED
    BY <1>2, <2>1
<1> QED
  BY <1>7, <1>8, <1>9
----------------------------------------------------------------------------
(* What holds even when those that ran are deleted in the middle of their  *)
(* bucket: links and buckets lead to timers of one tick, whatever has      *)
(* become of the rings.                                                    *)

\* y is no timer, or one of the tick of x.
SameTick(s, x, y) == y # None => y \in 1..s.made /\ s.timeToRun[y] = s.timeToRun[x]

LinksOK(s) ==
    \A x \in Ids :
      /\ SameTick(s, x, s.next[x]) /\ SameTick(s, x, s.prev[x])
      /\ x > s.made => s.next[x] = None /\ s.prev[x] = None

FirstsOK(s) ==
    \A p \in DOMAIN s.bucket_list :
      s.bucket_list[p] # None => s.bucket_list[p] \in 1..s.made /\ BUCKET_POS(s, s.bucket_list[p]) = p

TickOK(s) ==
    /\ s \in SubsystemState /\ s.callBack \subseteq 1..s.made
    /\ HashesOK(s) /\ LinksOK(s) /\ FirstsOK(s)
    /\ s.head_offset <= worldTime
    /\ s.resolution => s.practical_offset >= 1 /\ Len(s.bucket_list) = BUCKET_LEN

\* x was made, and its tick is over.
Over(s, x) == x # None => x \in 1..s.made /\ s.timeToRun[x] < worldTime

TickInv ==
    /\ worldTime \in 0..MaxTime
    /\ firing \in {"idle", "while", "do", "callback", "paused"}
    /\ timer \in Ids \cup {None} /\ head \in Ids \cup {None}
    /\ spent \in Seq(Ids) /\ late \in BOOLEAN
    /\ TickOK(ss) /\ Over(ss, timer)
    /\ firing # "idle" => ss.resolution
    /\ firing \in {"do", "callback"} => timer # None

LEMMA TickParts ==
    ASSUME NEW s, TickOK(s)
    PROVE  /\ s \in SubsystemState /\ s.made \in Nat /\ s.made <= MaxTimedEvents
           /\ s.callBack \subseteq 1..s.made /\ 1..s.made \subseteq Ids /\ s.callBack \subseteq Ids
           /\ s.timeToRun \in [Ids -> Nat] /\ s.head_offset \in Nat /\ s.practical_offset \in Nat
           /\ s.next \in [Ids -> Ids \cup {None}] /\ s.prev \in [Ids -> Ids \cup {None}]
           /\ s.bucket_list \in Seq(Ids \cup {None}) /\ Len(s.bucket_list) \in Nat
           /\ DOMAIN s.bucket_list = 1..Len(s.bucket_list)
           /\ s.processing \in Seq(Ids)
           /\ \A x : BUCKET_POS(s, x) = s.timeToRun[x] - s.head_offset + 1
           /\ \A x \in Ids : x # None /\ x \in Nat
<1>1. s \in SubsystemState /\ s.callBack \subseteq 1..s.made
  BY DEF TickOK
<1>2. /\ s.made \in 0..MaxTimedEvents
      /\ s.timeToRun \in [Ids -> Nat] /\ s.head_offset \in Nat /\ s.practical_offset \in Nat
      /\ s.next \in [Ids -> Ids \cup {None}] /\ s.prev \in [Ids -> Ids \cup {None}]
      /\ s.bucket_list \in Seq(Ids \cup {None}) /\ s.processing \in Seq(Ids)
  BY <1>1, FieldsAre
<1>3. s.made \in Nat /\ s.made <= MaxTimedEvents /\ 1..s.made \subseteq Ids
      /\ \A x \in Ids : x # None /\ x \in Nat
  BY <1>2, TimerAssumption DEF Ids, None
<1>4. Len(s.bucket_list) \in Nat /\ DOMAIN s.bucket_list = 1..Len(s.bucket_list)
  BY <1>2
<1>5. \A x : BUCKET_POS(s, x) = s.timeToRun[x] - s.head_offset + 1
  BY DEF BUCKET_POS
<1> QED
  BY <1>1, <1>2, <1>3, <1>4, <1>5

\* Where x is linked, the others of its bucket run in its tick.
LEMMA LinkedTick ==
    ASSUME NEW s, TickOK(s), NEW x \in 1..s.made, BUCKET_POS(s, x) \in DOMAIN s.bucket_list,
           NEW t, t = linked(s, x)
    PROVE  TickOK(t) /\ Kept(s, t) /\ Len(t.bucket_list) = Len(s.bucket_list)
           /\ t.processing = s.processing
<1>1. /\ s \in SubsystemState /\ s.made \in Nat /\ x \in Ids /\ x # None /\ 1..s.made \subseteq Ids
      /\ s.timeToRun \in [Ids -> Nat] /\ s.head_offset \in Nat
      /\ s.next \in [Ids -> Ids \cup {None}] /\ s.prev \in [Ids -> Ids \cup {None}]
      /\ s.bucket_list \in Seq(Ids \cup {None}) /\ Len(s.bucket_list) \in Nat
      /\ DOMAIN s.bucket_list = 1..Len(s.bucket_list)
      /\ \A y : BUCKET_POS(s, y) = s.timeToRun[y] - s.head_offset + 1
      /\ \A y \in Ids : y # None /\ y \in Nat
  BY TickParts
<1>2. LinksOK(s) /\ FirstsOK(s) /\ HashesOK(s)
  BY DEF TickOK
<1>3. PICK pos : pos = BUCKET_POS(s, x)
  OBVIOUS
<1>4. PICK f : f = s.bucket_list[pos]
  OBVIOUS
<1>5. PICK l : l = IF s.prev[f] = None THEN f ELSE s.prev[f]
  OBVIOUS
<1>6. /\ Relinked(s, t) /\ t.processing = s.processing /\ LinksMade(s, t, x, f, l)
      /\ \A p \in DOMAIN s.bucket_list :
           t.bucket_list[p] = IF p = pos /\ f = None THEN x ELSE s.bucket_list[p]
      /\ DOMAIN t.bucket_list = DOMAIN s.bucket_list
  BY <1>1, <1>3, <1>4, <1>5, LinkedIs
<1>7. t \in SubsystemState /\ Kept(s, t)
  BY <1>1, <1>6, RelinkedIs
<1>8. f # None => /\ f \in 1..s.made /\ f \in Ids /\ s.timeToRun[f] = s.timeToRun[x]
                  /\ l \in 1..s.made /\ l \in Ids /\ l # None /\ s.timeToRun[l] = s.timeToRun[x]
  <2> SUFFICES ASSUME f # None
               PROVE  /\ f \in 1..s.made /\ f \in Ids /\ s.timeToRun[f] = s.timeToRun[x]
                      /\ l \in 1..s.made /\ l \in Ids /\ l # None /\ s.timeToRun[l] = s.timeToRun[x]
    OBVIOUS
  <2>1. f \in 1..s.made /\ f \in Ids /\ BUCKET_POS(s, f) = pos
    BY <1>1, <1>2, <1>3, <1>4 DEF FirstsOK
  <2>2. s.timeToRun[f] \in Nat /\ s.timeToRun[x] \in Nat
    BY <1>1, <2>1
  <2>3. s.timeToRun[f] - s.head_offset + 1 = s.timeToRun[x] - s.head_offset + 1
    BY <1>1, <1>3, <2>1
  <2>4. s.timeToRun[f] = s.timeToRun[x]
    BY <1>1, <2>2, <2>3
  <2>5. SameTick(s, f, s.prev[f])
    BY <1>2, <2>1 DEF LinksOK
  <2>6. l \in 1..s.made /\ s.timeToRun[l] = s.timeToRun[x]
    BY <1>5, <2>1, <2>4, <2>5 DEF SameTick
  <2> QED
    BY <1>1, <2>1, <2>4, <2>6
<1>9. t.made = s.made /\ t.timeToRun = s.timeToRun /\ t.head_offset = s.head_offset
  BY <1>7 DEF Kept
<1>10. LinksOK(t)
  <2> SUFFICES ASSUME NEW y \in Ids
               PROVE  /\ SameTick(t, y, t.next[y]) /\ SameTick(t, y, t.prev[y])
                      /\ y > t.made => t.next[y] = None /\ t.prev[y] = None
    BY DEF LinksOK
  <2>1. /\ SameTick(s, y, s.next[y]) /\ SameTick(s, y, s.prev[y])
        /\ y > s.made => s.next[y] = None /\ s.prev[y] = None
    BY <1>2 DEF LinksOK
  <2>2. CASE f = None
    <3>1. t.next[y] = (IF y = x THEN None ELSE s.next[y]) /\ t.prev[y] = (IF y = x THEN None ELSE s.prev[y])
      BY <1>1, <1>6, <2>2 DEF LinksMade
    <3> QED
      BY <1>9, <2>1, <3>1 DEF SameTick
  <2>3. CASE f # None
    <3>1. /\ t.next[y] = IF y = l THEN x ELSE IF y = x THEN f ELSE s.next[y]
          /\ t.prev[y] = IF y = f THEN x ELSE IF y = x THEN l ELSE s.prev[y]
      BY <1>1, <1>6, <1>8, <2>3 DEF LinksMade
    <3>2. x <= s.made /\ f <= s.made /\ l <= s.made
      BY <1>1, <1>8, <2>3
    <3>3. y > s.made => y # x /\ y # f /\ y # l
      BY <1>1, <1>8, <2>3, <3>2
    <3> QED
      BY <1>8, <1>9, <2>1, <2>3, <3>1, <3>3 DEF SameTick
  <2> QED
    BY <2>2, <2>3
<1>11. FirstsOK(t)
  <2> SUFFICES ASSUME NEW p \in DOMAIN s.bucket_list, t.bucket_list[p] # None
               PROVE  t.bucket_list[p] \in 1..s.made /\ BUCKET_POS(t, t.bucket_list[p]) = p
    BY <1>6, <1>9 DEF FirstsOK
  <2>1. BUCKET_POS(t, t.bucket_list[p]) = BUCKET_POS(s, t.bucket_list[p])
    BY <1>9 DEF BUCKET_POS
  <2>2. CASE p = pos /\ f = None
    BY <1>3, <1>6, <2>1, <2>2
  <2>3. CASE ~(p = pos /\ f = None)
    <3>1. t.bucket_list[p] = s.bucket_list[p]
      BY <1>6, <2>3
    <3> QED
      BY <1>2, <2>1, <3>1 DEF FirstsOK
  <2> QED
    BY <2>2, <2>3
<1>12. HashesOK(t)
  BY <1>2, <1>7 DEF Kept, HashesOK
<1>13. Len(t.bucket_list) = Len(s.bucket_list)
  <2>1. t.bucket_list \in Seq(Ids \cup {None})
    BY <1>7, FieldsAre
  <2>2. DOMAIN t.bucket_list = 1..Len(t.bucket_list) /\ Len(t.bucket_list) \in Nat
    BY <2>1
  <2> QED
    BY <1>1, <1>6, <2>2
<1> QED
  BY <1>6, <1>7, <1>10, <1>11, <1>12, <1>13 DEF TickOK, Kept

\* Deleting x leaves the links of others within their tick.
LEMMA DestroyedTick ==
    ASSUME NEW s, TickOK(s), NEW x, NEW t, t = destroyed(s, x)
    PROVE  /\ TickOK(t) /\ t.made = s.made /\ t.timeToRun = s.timeToRun /\ t.resolution = s.resolution
           /\ \A h \in Hashes : x \in s.callBack /\ h = s.hash[x] => t.hashes[h] = None
<1>1. CASE x \notin s.callBack
  BY <1>1 DEF destroyed
<1>2. CASE x \in s.callBack
  <2>1. /\ s \in SubsystemState /\ s.made \in Nat /\ x \in Ids /\ s.callBack \subseteq Ids
        /\ s.callBack \subseteq 1..s.made
        /\ s.next \in [Ids -> Ids \cup {None}] /\ s.prev \in [Ids -> Ids \cup {None}]
        /\ s.bucket_list \in Seq(Ids \cup {None}) /\ Len(s.bucket_list) \in Nat
        /\ DOMAIN s.bucket_list = 1..Len(s.bucket_list)
        /\ \A y : BUCKET_POS(s, y) = s.timeToRun[y] - s.head_offset + 1
        /\ \A y \in Ids : y # None /\ y \in Nat
    BY <1>2, TickParts
  <2>2. LinksOK(s) /\ FirstsOK(s) /\ HashesOK(s)
    BY DEF TickOK
  <2>3. PICK u : u = unlinked(s, x)
    OBVIOUS
  <2> DEFINE n    == s.next[x]
             p    == s.prev[x]
             live == x \notin s.hasSpent
  <2>4. /\ Relinked(s, u) /\ u.next[x] = None /\ u.prev[x] = None
        /\ \A y \in Ids : y # x /\ ~(y = p /\ (live \/ s.next[y] = x)) => u.next[y] = s.next[y]
        /\ \A y \in Ids : y # x /\ ~(y = n /\ (live \/ s.prev[y] = x)) => u.prev[y] = s.prev[y]
        /\ \A y \in Ids : y # x /\ y = p => u.next[y] \in {None, n, s.next[y]}
        /\ \A y \in Ids : y # x /\ y = n => u.prev[y] \in {None, p, s.prev[y]}
    <3>1. /\ Relinked(s, u) /\ u.next[x] = None /\ u.prev[x] = None
          /\ \A y \in Ids : y # x /\ ~(y = p /\ (live \/ s.next[y] = x)) => u.next[y] = s.next[y]
          /\ \A y \in Ids : y # x /\ ~(y = n /\ (live \/ s.prev[y] = x)) => u.prev[y] = s.prev[y]
      BY <2>1, <2>3, UnlinkedIs
    <3> DEFINE nx == [y \in Ids |-> CASE y = x -> None
                                      [] y # x /\ y = p /\ (live \/ s.next[y] = x) ->
                                           IF live /\ p = n THEN None ELSE n
                                      [] OTHER -> s.next[y]]
               pv == [y \in Ids |-> CASE y = x -> None
                                      [] y # x /\ y = n /\ (live \/ s.prev[y] = x) ->
                                           IF live /\ p = n THEN None ELSE p
                                      [] OTHER -> s.prev[y]]
    <3>2. u = [s EXCEPT !.next = nx, !.prev = pv]
      BY <2>3 DEF unlinked
    <3>3. /\ \A y \in Ids : y # x /\ y = p => nx[y] \in {None, n, s.next[y]}
          /\ \A y \in Ids : y # x /\ y = n => pv[y] \in {None, p, s.prev[y]}
      OBVIOUS
    <3> HIDE DEF nx, pv, n, p, live
    <3>4. u.next = nx /\ u.prev = pv
      BY <2>1, <3>2 DEF SubsystemState
    <3> QED
      BY <3>1, <3>3, <3>4
  <2>5. /\ t \in SubsystemState
        /\ t.made = s.made /\ t.timeToRun = s.timeToRun /\ t.hash = s.hash
        /\ t.callBack = s.callBack \ {x}
        /\ t.head_offset = s.head_offset /\ t.practical_offset = s.practical_offset
        /\ t.resolution = s.resolution
        /\ t.next = u.next /\ t.prev = u.prev
        /\ t.hashes = [h \in Hashes |-> IF h = s.hash[x] THEN None ELSE s.hashes[h]]
        /\ t.bucket_list = IF x \in s.hasSpent THEN s.bucket_list ELSE outOfBucket(s, x)
    BY <1>2, <2>1, <2>3, DestroyedIs
  <2>6. SameTick(s, x, n) /\ SameTick(s, x, p)
    BY <2>1, <2>2 DEF LinksOK
  <2>7. LinksOK(t)
    <3> SUFFICES ASSUME NEW y \in Ids
                 PROVE  /\ SameTick(s, y, u.next[y]) /\ SameTick(s, y, u.prev[y])
                        /\ y > s.made => u.next[y] = None /\ u.prev[y] = None
      BY <2>5 DEF LinksOK, SameTick
    <3>1. /\ SameTick(s, y, s.next[y]) /\ SameTick(s, y, s.prev[y])
          /\ y > s.made => s.next[y] = None /\ s.prev[y] = None
      BY <2>2 DEF LinksOK
    <3> HIDE DEF live
    <3>2. u.next[y] # s.next[y] => y = x \/ y = p
      BY <2>4
    <3>3. u.prev[y] # s.prev[y] => y = x \/ y = n
      BY <2>4
    <3>4. y = p => y <= s.made /\ s.timeToRun[y] = s.timeToRun[x]
      BY <2>1, <2>6 DEF SameTick
    <3>5. y = n => y <= s.made /\ s.timeToRun[y] = s.timeToRun[x]
      BY <2>1, <2>6 DEF SameTick
    <3>6. y = p => SameTick(s, y, n) /\ SameTick(s, y, p)
      BY <2>6, <3>4 DEF SameTick
    <3>7. y = n => SameTick(s, y, n) /\ SameTick(s, y, p)
      BY <2>6, <3>5 DEF SameTick
    <3>8. SameTick(s, y, None)
      BY DEF SameTick
    <3> HIDE DEF n, p
    <3>9. SameTick(s, y, u.next[y])
      BY <2>4, <3>1, <3>2, <3>6, <3>8
    <3>10. SameTick(s, y, u.prev[y])
      BY <2>4, <3>1, <3>3, <3>7, <3>8
    <3>11. ASSUME y > s.made PROVE u.next[y] = None /\ u.prev[y] = None
      <4>1. y # p /\ y # n
        BY <2>1, <3>4, <3>5, <3>11
      <4> QED
        BY <2>4, <3>1, <3>2, <3>3, <3>11, <4>1
    <3> QED
      BY <3>9, <3>10, <3>11
  <2>8. /\ DOMAIN t.bucket_list = DOMAIN s.bucket_list
        /\ \A b \in DOMAIN s.bucket_list :
             \/ t.bucket_list[b] = s.bucket_list[b]
             \/ b = BUCKET_POS(s, x) /\ t.bucket_list[b] = n
    BY <2>5 DEF outOfBucket
  <2>9. FirstsOK(t)
    <3> SUFFICES ASSUME NEW b \in DOMAIN s.bucket_list, t.bucket_list[b] # None
                 PROVE  t.bucket_list[b] \in 1..s.made /\ BUCKET_POS(s, t.bucket_list[b]) = b
      BY <2>5, <2>8 DEF FirstsOK, BUCKET_POS
    <3>1. CASE t.bucket_list[b] = s.bucket_list[b]
      BY <2>2, <3>1 DEF FirstsOK
    <3>2. CASE b = BUCKET_POS(s, x) /\ t.bucket_list[b] = n
      <4>1. n \in 1..s.made /\ s.timeToRun[n] = s.timeToRun[x]
        BY <2>6, <3>2 DEF SameTick
      <4> QED
        BY <2>1, <3>2, <4>1
    <3> QED
      BY <2>8, <3>1, <3>2
  <2>10. HashesOK(t)
    BY <1>2, <2>1, <2>2, <2>5, HashesGivenUp
  <2>11. Len(t.bucket_list) = Len(s.bucket_list)
    <3>1. t.bucket_list \in Seq(Ids \cup {None})
      BY <2>5, FieldsAre
    <3>2. DOMAIN t.bucket_list = 1..Len(t.bucket_list) /\ Len(t.bucket_list) \in Nat
      BY <3>1
    <3> QED
      BY <2>1, <2>8, <3>2
  <2> QED
    BY <1>2, <2>1, <2>5, <2>7, <2>9, <2>10, <2>11 DEF TickOK
<1> QED
  BY <1>1, <1>2

\* Deleting the timers of a list, one after the other.
LEMMA DestroyStepsAre ==
    ASSUME NEW s, NEW S, NEW xs \in Seq(S)
    PROVE  \E f : /\ f[0] = s /\ \A n \in 1..Len(xs) : f[n] = destroyed(f[n - 1], xs[n])
                  /\ allDestroyed(s, xs) = f[Len(xs)]
<1> DEFINE L == Len(xs)
<1>1. L \in Nat /\ DOMAIN xs = 1..L
  OBVIOUS
<1>2. PICK f : StepsIn(f, "destroy", s, xs, s, L)
  BY <1>1, StepsInExist
<1>3. allDestroyed(s, xs) = f[L]
  <2> DEFINE g == CHOOSE g : g = [n \in 0..L |-> IF n = 0 THEN s ELSE destroyed(g[n - 1], xs[n])]
  <2>1. allDestroyed(s, xs) = g[L]
    BY DEF allDestroyed
  <2>2. f = [n \in 0..L |-> IF n = 0 THEN s ELSE destroyed(f[n - 1], xs[n])]
    BY <1>2 DEF StepsIn, nextIn
  <2>3. g = [n \in 0..L |-> IF n = 0 THEN s ELSE destroyed(g[n - 1], xs[n])]
    BY <2>2
  <2> HIDE DEF g
  <2>4. \A n \in 0..L :
          /\ f[n] = IF n = 0 THEN s ELSE destroyed(f[n - 1], xs[n])
          /\ g[n] = IF n = 0 THEN s ELSE destroyed(g[n - 1], xs[n])
    BY <2>2, <2>3
  <2> DEFINE bad == {n \in Nat : n \in 0..L /\ f[n] # g[n]}
  <2>5. bad = {}
    <3> SUFFICES ASSUME bad # {} PROVE FALSE
      OBVIOUS
    <3>1. PICK n \in bad : \A i \in bad : n <= i
      BY LeastNat
    <3>2. n # 0
      BY <2>4
    <3>3. n \in 0..L /\ n - 1 \in 0..L /\ n - 1 \in Nat /\ ~(n <= n - 1)
      BY <1>1, <3>2
    <3>4. f[n - 1] = g[n - 1]
      BY <3>1, <3>3
    <3> QED
      BY <2>4, <3>2, <3>3, <3>4
  <2>6. L \in 0..L
    BY <1>1
  <2> QED
    BY <1>1, <2>1, <2>5, <2>6
<1>4. f[0] = s /\ \A n \in 1..L : f[n] = destroyed(f[n - 1], xs[n])
  <2>1. f[0] = s /\ \A n \in 1..L : f[n] = nextIn("destroy", s, xs, f[n - 1], n)
    BY <1>1, <1>2, StepsAre
  <2> QED
    BY <2>1 DEF nextIn
<1> QED
  BY <1>3, <1>4

LEMMA AllDestroyedTick ==
    ASSUME NEW s, TickOK(s), NEW xs \in Seq(Ids), NEW t, t = allDestroyed(s, xs)
    PROVE  TickOK(t) /\ t.made = s.made /\ t.timeToRun = s.timeToRun /\ t.resolution = s.resolution
<1> DEFINE L == Len(xs)
           good(y) == TickOK(y) /\ y.made = s.made /\ y.timeToRun = s.timeToRun /\ y.resolution = s.resolution
<1>1. L \in Nat
  OBVIOUS
<1>2. PICK f : /\ f[0] = s /\ \A n \in 1..L : f[n] = destroyed(f[n - 1], xs[n])
               /\ t = f[L]
  BY DestroyStepsAre
<1>3. ASSUME NEW y, good(y), NEW x PROVE good(destroyed(y, x))
  <2>1. PICK z : z = destroyed(y, x)
    OBVIOUS
  <2>0. TickOK(y)
    BY <1>3
  <2> HIDE DEF good, L
  <2>2. TickOK(z) /\ z.made = y.made /\ z.timeToRun = y.timeToRun /\ z.resolution = y.resolution
    BY <2>0, <2>1, DestroyedTick
  <2> QED
    BY <1>3, <2>1, <2>2 DEF good
<1>4. good(f[0])
  BY <1>2
<1> HIDE DEF good, L
<1> DEFINE bad == {n \in Nat : n \in 0..L /\ ~good(f[n])}
<1>5. bad = {}
  <2> SUFFICES ASSUME bad # {} PROVE FALSE
    OBVIOUS
  <2>1. PICK n \in bad : \A i \in bad : n <= i
    BY LeastNat
  <2>2. n # 0
    BY <1>4
  <2>3. n \in 1..L /\ n - 1 \in 0..L /\ n - 1 \in Nat /\ ~(n <= n - 1)
    BY <1>1, <2>2
  <2>4. good(f[n - 1])
    BY <2>1, <2>3
  <2> QED
    BY <1>2, <1>3, <2>3, <2>4
<1>6. good(f[L])
  BY <1>1, <1>5
<1> QED
  BY <1>2, <1>6 DEF good

LEMMA ForgottenTick ==
    ASSUME NEW s, TickOK(s), NEW old \in Ids, NEW t, t = forgotten(s, old)
    PROVE  /\ TickOK(t) /\ t.made = s.made /\ t.timeToRun = s.timeToRun /\ t.resolution = s.resolution
           /\ \A h \in Hashes : s.hashes[h] = old => t.hashes[h] = None
<1> DEFINE ha == [s.hash EXCEPT ![old] = Null]
           hs == [h \in Hashes |-> IF s.hashes[h] = old THEN None ELSE s.hashes[h]]
<1>1. s \in SubsystemState /\ old # None /\ HashesOK(s) /\ s.callBack \subseteq Ids
      /\ \A y \in Ids : y # None
  BY TickParts DEF TickOK
<1>2. t = [s EXCEPT !.hash = ha, !.hashes = hs]
  BY DEF forgotten
<1>3. /\ ha \in [Ids -> Hashes \cup {Null}] /\ hs \in [Hashes -> Ids \cup {None}]
      /\ \A y \in Ids : ha[y] = IF y = old THEN Null ELSE s.hash[y]
      /\ \A h \in Hashes : hs[h] = IF s.hashes[h] = old THEN None ELSE s.hashes[h]
  <2>1. s.hash \in [Ids -> Hashes \cup {Null}] /\ s.hashes \in [Hashes -> Ids \cup {None}]
    BY <1>1, FieldsAre
  <2> QED
    BY <2>1
<1> HIDE DEF ha, hs
<1>5. t \in SubsystemState
  BY <1>1, <1>2, <1>3 DEF SubsystemState
<1>6. /\ t.made = s.made /\ t.timeToRun = s.timeToRun /\ t.hash = ha
      /\ t.callBack = s.callBack /\ t.hashes = hs
      /\ t.head_offset = s.head_offset /\ t.practical_offset = s.practical_offset
      /\ t.resolution = s.resolution /\ t.next = s.next /\ t.prev = s.prev
      /\ t.bucket_list = s.bucket_list
  BY <1>1, <1>2 DEF SubsystemState
<1>7. HashesOK(t)
  <2>1. \A h \in Hashes : h # Null
    BY TimerAssumption DEF Null
  <2>2. ASSUME NEW y \in s.callBack, NEW h \in Hashes PROVE ha[y] = h <=> hs[h] = y
    <3>1. y \in Ids /\ y # None /\ (s.hash[y] = h <=> s.hashes[h] = y)
      BY <1>1 DEF HashesOK
    <3> QED
      BY <1>3, <2>1, <3>1
  <2>3. \A h \in Hashes : hs[h] \in s.callBack \cup {None}
    BY <1>1, <1>3 DEF HashesOK
  <2> QED
    BY <1>6, <2>2, <2>3 DEF HashesOK
<1>8. LinksOK(t) /\ FirstsOK(t)
  BY <1>6 DEF TickOK, LinksOK, FirstsOK, SameTick, BUCKET_POS
<1> QED
  BY <1>3, <1>5, <1>6, <1>7, <1>8 DEF TickOK

LEMMA CreatedTick ==
    ASSUME NEW s, TickOK(s), s.made < MaxTimedEvents, worldTime \in Nat,
           NEW at \in Nat, at >= worldTime,
           NEW h \in Hashes \cup {Null}, h \in Hashes => s.hashes[h] = None,
           NEW t, t = created(s, at, h)
    PROVE  /\ TickOK(t) /\ t.made = s.made + 1 /\ t.resolution = s.resolution
           /\ \A y \in 1..s.made : t.timeToRun[y] = s.timeToRun[y]
<1> DEFINE x   == s.made + 1
           new == [s EXCEPT !.made = x, !.timeToRun[x] = at, !.hash[x] = h,
                            !.callBack = @ \cup {x},
                            !.hashes = [g \in Hashes |-> IF g = h THEN x ELSE @[g]]]
           pos == BUCKET_POS(new, x)
<1>1. /\ s \in SubsystemState /\ s.made \in Nat /\ s.callBack \subseteq 1..s.made
      /\ s.timeToRun \in [Ids -> Nat] /\ s.head_offset \in Nat /\ s.practical_offset \in Nat
      /\ s.bucket_list \in Seq(Ids \cup {None}) /\ Len(s.bucket_list) \in Nat
      /\ DOMAIN s.bucket_list = 1..Len(s.bucket_list) /\ s.processing \in Seq(Ids)
      /\ s.hash \in [Ids -> Hashes \cup {Null}] /\ s.hashes \in [Hashes -> Ids \cup {None}]
      /\ s.callBack \subseteq Ids
      /\ \A y \in Ids : y # None /\ y \in Nat
  BY TickParts, FieldsAre
<1>2. /\ HashesOK(s) /\ LinksOK(s) /\ FirstsOK(s) /\ s.head_offset <= worldTime
      /\ s.resolution => s.practical_offset >= 1 /\ Len(s.bucket_list) = BUCKET_LEN
  BY DEF TickOK
<1>3. /\ x \in Ids /\ x \in Nat /\ x \in 0..MaxTimedEvents /\ x \notin 1..s.made /\ x \in 1..x
      /\ \A y \in 1..s.made : y \in 1..x /\ y # x
  <2>1. s.made \in Nat /\ MaxTimedEvents \in Nat /\ x \in Nat /\ x <= MaxTimedEvents
    BY <1>1, TimerAssumption
  <2>2. \A y \in 1..s.made : y \in 1..x /\ y # x
    BY <2>1
  <2> QED
    BY <2>1, <2>2 DEF Ids
<1>0. x = s.made + 1
  OBVIOUS
<1> HIDE DEF x
<1>4. /\ new \in SubsystemState /\ new.made = x /\ new.timeToRun = [s.timeToRun EXCEPT ![x] = at]
      /\ new.hash = [s.hash EXCEPT ![x] = h] /\ new.callBack = s.callBack \cup {x}
      /\ new.hashes = [g \in Hashes |-> IF g = h THEN x ELSE s.hashes[g]]
      /\ new.next = s.next /\ new.prev = s.prev
      /\ new.bucket_list = s.bucket_list /\ new.processing = s.processing
      /\ new.head_offset = s.head_offset /\ new.practical_offset = s.practical_offset
      /\ new.resolution = s.resolution
  <2> DEFINE tr == [s.timeToRun EXCEPT ![x] = at]
             ha == [s.hash EXCEPT ![x] = h]
             cb == s.callBack \cup {x}
             hs == [g \in Hashes |-> IF g = h THEN x ELSE s.hashes[g]]
  <2>1. new = [s EXCEPT !.made = x, !.timeToRun = tr, !.hash = ha, !.callBack = cb, !.hashes = hs]
    OBVIOUS
  <2>2. tr \in [Ids -> Nat]
    BY <1>1, <1>3
  <2>5. ha \in [Ids -> Hashes \cup {Null}]
    BY <1>1, <1>3
  <2>6. hs \in [Hashes -> Ids \cup {None}]
    BY <1>1, <1>3
  <2>7. cb \in SUBSET Ids
    BY <1>1, <1>3
  <2>8. x \in 0..MaxTimedEvents
    BY <1>3
  <2>9. s \in SubsystemState
    BY <1>1
  <2> HIDE DEF tr, ha, cb, hs, new
  <2>3. new \in SubsystemState
    BY <2>1, <2>2, <2>5, <2>6, <2>7, <2>8, <2>9 DEF SubsystemState
  <2>4. /\ new.made = x /\ new.timeToRun = tr /\ new.hash = ha /\ new.callBack = cb /\ new.hashes = hs
        /\ new.next = s.next /\ new.prev = s.prev
        /\ new.bucket_list = s.bucket_list /\ new.processing = s.processing
        /\ new.head_offset = s.head_offset /\ new.practical_offset = s.practical_offset
        /\ new.resolution = s.resolution
    BY <1>1, <2>1 DEF SubsystemState
  <2> QED
    BY <2>3, <2>4 DEF tr, ha, cb, hs
<1>5. PICK v : v = new
  OBVIOUS
<1>6. PICK p : p = pos
  OBVIOUS
<1>7. t = IF p > Len(s.bucket_list) THEN [v EXCEPT !.processing = Append(@, x)]
          ELSE [linked(v, x) EXCEPT
                 !.practical_offset = IF p < s.practical_offset /\ s.bucket_list[p] = None THEN p ELSE @]
  <2> DEFINE back == pos < s.practical_offset
             l == linked(new, x)
             ap == Append(new.processing, x)
  <2>1. t = IF pos > Len(s.bucket_list) THEN [new EXCEPT !.processing = Append(@, x)]
            ELSE [l EXCEPT !.practical_offset = IF back /\ s.bucket_list[pos] = None THEN pos ELSE @]
    BY DEF created, x
  <2> HIDE DEF new, pos
  <2> QED
    BY <1>5, <1>6, <2>1
<1>8. p = BUCKET_POS(v, x)
  BY <1>5, <1>6
<1>9. /\ v \in SubsystemState /\ v.made = x /\ v.timeToRun = [s.timeToRun EXCEPT ![x] = at]
      /\ v.hash = [s.hash EXCEPT ![x] = h] /\ v.callBack = s.callBack \cup {x}
      /\ v.hashes = [g \in Hashes |-> IF g = h THEN x ELSE s.hashes[g]]
      /\ v.next = s.next /\ v.prev = s.prev
      /\ v.bucket_list = s.bucket_list /\ v.processing = s.processing
      /\ v.head_offset = s.head_offset /\ v.practical_offset = s.practical_offset
      /\ v.resolution = s.resolution
  BY <1>4, <1>5
<1> HIDE DEF new, pos
<1>10. v.timeToRun[x] = at /\ \A y \in 1..s.made : v.timeToRun[y] = s.timeToRun[y]
  <2>1. 1..s.made \subseteq Ids
    BY TickParts
  <2> QED
    BY <1>1, <1>3, <1>9, <2>1
<1>11. p \in Nat /\ p >= 1
  <2>1. p = at - s.head_offset + 1
    BY <1>8, <1>9, <1>10 DEF BUCKET_POS
  <2> QED
    BY <1>1, <1>2, <2>1
<1>12. TickOK(v)
  <2>1. v.callBack \subseteq 1..v.made
    BY <1>1, <1>3, <1>9
  <2>2. HashesOK(v)
    <3>1. \A g \in Hashes : g # Null
      BY TimerAssumption DEF Null
    <3>2. ASSUME NEW y \in s.callBack \cup {x}, NEW g \in Hashes
          PROVE  v.hash[y] = g <=> v.hashes[g] = y
      <4>1. CASE y = x
        <5>1. v.hash[y] = h
          BY <1>1, <1>3, <1>9, <4>1
        <5>2. s.hashes[g] # x
          BY <1>1, <1>2, <1>3 DEF HashesOK
        <5> QED
          BY <1>9, <4>1, <5>1, <5>2
      <4>2. CASE y # x
        <5>1. y \in s.callBack /\ y # None /\ v.hash[y] = s.hash[y] /\ (s.hash[y] = g <=> s.hashes[g] = y)
          BY <1>1, <1>2, <1>9, <4>2 DEF HashesOK
        <5>2. CASE g = h
          BY <1>9, <4>2, <5>1, <5>2
        <5>3. CASE g # h
          BY <1>9, <5>1, <5>3
        <5> QED
          BY <5>2, <5>3
      <4> QED
        BY <4>1, <4>2
    <3>3. \A g \in Hashes : v.hashes[g] \in s.callBack \cup {x, None}
      BY <1>2, <1>9 DEF HashesOK
    <3> QED
      BY <1>9, <3>2, <3>3 DEF HashesOK
  <2>3. LinksOK(v)
    <3> SUFFICES ASSUME NEW y \in Ids
                 PROVE  /\ SameTick(v, y, v.next[y]) /\ SameTick(v, y, v.prev[y])
                        /\ y > v.made => v.next[y] = None /\ v.prev[y] = None
      BY DEF LinksOK
    <3>1. /\ SameTick(s, y, s.next[y]) /\ SameTick(s, y, s.prev[y])
          /\ y > s.made => s.next[y] = None /\ s.prev[y] = None
      BY <1>2 DEF LinksOK
    <3>2. y \in Nat /\ (y > x => y > s.made) /\ (y = x => y > s.made)
      BY <1>0, <1>1
    <3>3. y # x => v.timeToRun[y] = s.timeToRun[y]
      BY <1>1, <1>9
    <3>4. \A z : SameTick(s, y, z) /\ y # x => SameTick(v, y, z)
      BY <1>3, <1>9, <1>10, <3>3 DEF SameTick
    <3>5. SameTick(v, y, None)
      BY DEF SameTick
    <3> QED
      BY <1>9, <3>1, <3>2, <3>4, <3>5
  <2>4. FirstsOK(v)
    <3> SUFFICES ASSUME NEW b \in DOMAIN s.bucket_list, s.bucket_list[b] # None
                 PROVE  s.bucket_list[b] \in 1..x /\ BUCKET_POS(v, s.bucket_list[b]) = b
      BY <1>9 DEF FirstsOK
    <3>1. s.bucket_list[b] \in 1..s.made /\ BUCKET_POS(s, s.bucket_list[b]) = b
      BY <1>2 DEF FirstsOK
    <3> QED
      BY <1>3, <1>9, <1>10, <3>1 DEF BUCKET_POS
  <2> QED
    BY <1>2, <1>9, <2>1, <2>2, <2>3, <2>4 DEF TickOK
<1>13. CASE p > Len(s.bucket_list)
  <2> DEFINE pr == Append(v.processing, x)
  <2>1. t = [v EXCEPT !.processing = pr]
    BY <1>7, <1>13
  <2>2. pr \in Seq(Ids)
    BY <1>1, <1>3, <1>9
  <2> HIDE DEF pr
  <2>3. t \in SubsystemState
    BY <1>9, <2>1, <2>2 DEF SubsystemState
  <2>4. /\ t.made = v.made /\ t.timeToRun = v.timeToRun /\ t.hash = v.hash
        /\ t.callBack = v.callBack /\ t.hashes = v.hashes
        /\ t.head_offset = v.head_offset /\ t.practical_offset = v.practical_offset
        /\ t.resolution = v.resolution /\ t.next = v.next /\ t.prev = v.prev
        /\ t.bucket_list = v.bucket_list
    BY <1>9, <2>1 DEF SubsystemState
  <2>5. LinksOK(t) /\ FirstsOK(t) /\ HashesOK(t)
    BY <1>12, <2>4 DEF TickOK, LinksOK, FirstsOK, SameTick, BUCKET_POS, HashesOK
  <2>6. TickOK(t)
    BY <1>12, <2>3, <2>4, <2>5 DEF TickOK
  <2> QED
    BY <1>0, <1>9, <1>10, <2>4, <2>6
<1>14. CASE ~(p > Len(s.bucket_list))
  <2>1. PICK u : u = linked(v, x)
    OBVIOUS
  <2>2. x \in 1..v.made /\ BUCKET_POS(v, x) \in DOMAIN v.bucket_list
    BY <1>1, <1>3, <1>8, <1>9, <1>11, <1>14
  <2>3. TickOK(u) /\ Kept(v, u) /\ Len(u.bucket_list) = Len(v.bucket_list)
    BY <1>12, <2>1, <2>2, LinkedTick
  <2> DEFINE po == IF p < s.practical_offset /\ s.bucket_list[p] = None THEN p ELSE u.practical_offset
  <2>4. t = [u EXCEPT !.practical_offset = po]
    BY <1>7, <1>14, <2>1
  <2>5. u \in SubsystemState /\ u.practical_offset \in Nat
    BY <2>3, TickParts
  <2>6. po \in Nat /\ (po = u.practical_offset \/ po >= 1)
    BY <1>11, <2>5
  <2> HIDE DEF po
  <2>7. t \in SubsystemState
    BY <2>4, <2>5, <2>6 DEF SubsystemState
  <2>8. /\ t.made = u.made /\ t.timeToRun = u.timeToRun /\ t.hash = u.hash
        /\ t.callBack = u.callBack /\ t.hashes = u.hashes
        /\ t.head_offset = u.head_offset /\ t.practical_offset = po
        /\ t.resolution = u.resolution /\ t.next = u.next /\ t.prev = u.prev
        /\ t.bucket_list = u.bucket_list
    BY <2>4, <2>5 DEF SubsystemState
  <2>9. LinksOK(t) /\ FirstsOK(t) /\ HashesOK(t)
    BY <2>3, <2>8 DEF TickOK, LinksOK, FirstsOK, SameTick, BUCKET_POS, HashesOK
  <2>10. TickOK(t)
    BY <2>3, <2>6, <2>7, <2>8, <2>9 DEF TickOK
  <2> QED
    BY <1>0, <1>9, <1>10, <2>3, <2>8, <2>10 DEF Kept
<1> QED
  BY <1>13, <1>14

\* What ring() finds are timers, whatever the links are.
LEMMA RingTyped ==
    ASSUME NEW s, s.next \in [Ids -> Ids \cup {None}], NEW first \in Ids \cup {None}
    PROVE  ring(s, first) \in Seq(Ids)
<1>1. MaxTimedEvents \in Nat /\ Ids = 1..MaxTimedEvents /\ None \notin Ids
  BY TimerAssumption DEF Ids, None
<1>2. CASE first = None
  BY <1>2 DEF ring
<1>3. CASE first # None
  <2> DEFINE it   == after(s, first)
             closing == {n \in Ids : it[n] \in {None, first} \/ n = MaxTimedEvents}
  <2>1. /\ it[0] = first
        /\ \A n \in 1..MaxTimedEvents : it[n] = IF it[n - 1] = None THEN None ELSE s.next[it[n - 1]]
    BY AfterIs
  <2>2. MaxTimedEvents \in closing /\ closing \subseteq Nat
    BY <1>1, <1>3
  <2>3. ring(s, first) = [i \in 1..(CHOOSE n \in closing : \A m \in closing : n <= m) |-> it[i - 1]]
    BY <1>3 DEF ring
  <2> HIDE DEF closing
  <2>4. PICK k \in closing : (\A m \in closing : k <= m) /\ ring(s, first) = [i \in 1..k |-> it[i - 1]]
    <3>1. \E n \in closing : \A m \in closing : n <= m
      BY <2>2, LeastNat
    <3> QED
      BY <2>3, <3>1
  <2>5. k \in Nat /\ k <= MaxTimedEvents
    BY <2>2, <2>4
  <2>6. \A n \in 1..MaxTimedEvents : n < k => it[n] # None
    <3> SUFFICES ASSUME NEW n \in 1..MaxTimedEvents, n < k, it[n] = None PROVE FALSE
      OBVIOUS
    <3>1. n \in closing
      BY <1>1 DEF closing
    <3> QED
      BY <2>4, <2>5, <3>1
  <2> HIDE DEF it
  <2> DEFINE bad == {n \in Nat : n < k /\ it[n] \notin Ids}
  <2>7. bad = {}
    <3> SUFFICES ASSUME bad # {} PROVE FALSE
      OBVIOUS
    <3>1. PICK n \in bad : \A m \in bad : n <= m
      BY LeastNat
    <3>2. n # 0
      BY <1>3, <2>1
    <3>3. n \in 1..MaxTimedEvents /\ n < k /\ n - 1 \in Nat /\ n - 1 < k /\ ~(n <= n - 1)
      BY <1>1, <2>5, <3>1, <3>2
    <3>4. it[n - 1] \in Ids
      BY <3>1, <3>3
    <3>5. it[n] \in Ids \cup {None}
      BY <1>1, <2>1, <3>3, <3>4
    <3> QED
      BY <2>6, <3>1, <3>3, <3>5
  <2>8. \A i \in 1..k : it[i - 1] \in Ids
    <3> SUFFICES ASSUME NEW i \in 1..k PROVE it[i - 1] \in Ids
      OBVIOUS
    <3>1. i - 1 \in Nat /\ i - 1 < k
      BY <2>5
    <3> QED
      BY <2>7, <3>1
  <2>9. [i \in 1..k |-> it[i - 1]] \in [1..k -> Ids]
    BY <2>8
  <2> QED
    BY <2>4, <2>5, <2>9
<1> QED
  BY <1>2, <1>3

LEMMA InBucketsTyped ==
    ASSUME NEW s, TickOK(s), NEW l, l = inBuckets(s)
    PROVE  l \in Seq(Ids)
<1> DEFINE L == Len(s.bucket_list)
<1>1. L \in Nat /\ DOMAIN s.bucket_list = 1..L /\ s.bucket_list \in Seq(Ids \cup {None})
      /\ s.next \in [Ids -> Ids \cup {None}]
  BY TickParts
<1>2. \A p \in 1..L : ring(s, s.bucket_list[p]) \in Seq(Ids)
  <2> SUFFICES ASSUME NEW p \in 1..L PROVE ring(s, s.bucket_list[p]) \in Seq(Ids)
    OBVIOUS
  <2>1. s.bucket_list[p] \in Ids \cup {None}
    BY <1>1
  <2> QED
    BY <1>1, <2>1, RingTyped
<1> HIDE DEF L
<1>3. PICK f : StepsIn(f, "collect", s, <<>>, <<>>, L)
  BY <1>1, StepsInExist
<1>4. inBuckets(s) = f[L]
  <2> DEFINE g == CHOOSE g : g = [p \in 0..L |-> IF p = 0 THEN <<>>
                                                ELSE g[p - 1] \o ring(s, s.bucket_list[p])]
  <2>1. f = [p \in 0..L |-> IF p = 0 THEN <<>> ELSE f[p - 1] \o ring(s, s.bucket_list[p])]
    BY <1>3 DEF StepsIn, nextIn
  <2>2. g = [p \in 0..L |-> IF p = 0 THEN <<>> ELSE g[p - 1] \o ring(s, s.bucket_list[p])]
    BY <2>1
  <2>3. inBuckets(s) = g[L]
    BY DEF inBuckets, L
  <2> HIDE DEF g
  <2>4. /\ g[0] = <<>> /\ f[0] = <<>>
        /\ \A p \in 1..L : /\ g[p] = g[p - 1] \o ring(s, s.bucket_list[p])
                           /\ f[p] = f[p - 1] \o ring(s, s.bucket_list[p])
    <3>1. \A p \in 0..L :
             /\ g[p] = IF p = 0 THEN <<>> ELSE g[p - 1] \o ring(s, s.bucket_list[p])
             /\ f[p] = IF p = 0 THEN <<>> ELSE f[p - 1] \o ring(s, s.bucket_list[p])
      BY <2>1, <2>2
    <3>2. 0 \in 0..L /\ \A p \in 1..L : p \in 0..L /\ p # 0
      BY <1>1
    <3> HIDE DEF L
    <3> QED
      BY ONLY <3>1, <3>2
  <2> DEFINE bad == {n \in Nat : n \in 0..L /\ f[n] # g[n]}
  <2>5. bad = {}
    <3> SUFFICES ASSUME bad # {} PROVE FALSE
      OBVIOUS
    <3>1. PICK n \in bad : \A m \in bad : n <= m
      BY LeastNat
    <3>2. n # 0
      BY <2>4
    <3>3. n \in 1..L /\ n - 1 \in 0..L /\ n - 1 \in Nat /\ ~(n <= n - 1)
      BY <1>1, <3>2
    <3>4. f[n - 1] = g[n - 1]
      BY <3>1, <3>3
    <3> QED
      BY <2>4, <3>3, <3>4
  <2>6. L \in Nat /\ L \in 0..L
    BY <1>1
  <2> QED
    BY <2>3, <2>5, <2>6
<1>5. f[0] = <<>> /\ \A n \in 1..L : f[n] = f[n - 1] \o ring(s, s.bucket_list[n])
  <2>1. f[0] = <<>> /\ \A n \in 1..L : f[n] = nextIn("collect", s, <<>>, f[n - 1], n)
    BY <1>1, <1>3, StepsAre
  <2> QED
    BY <2>1 DEF nextIn
<1> DEFINE bad == {n \in Nat : n \in 0..L /\ f[n] \notin Seq(Ids)}
<1>6. bad = {}
  <2> SUFFICES ASSUME bad # {} PROVE FALSE
    OBVIOUS
  <2>1. PICK n \in bad : \A m \in bad : n <= m
    BY LeastNat
  <2>2. <<>> \in Seq(Ids)
    OBVIOUS
  <2>3. n # 0
    BY <1>5, <2>2
  <2>4. n \in 1..L /\ n - 1 \in 0..L /\ n - 1 \in Nat /\ ~(n <= n - 1)
    BY <1>1, <2>3
  <2>5. f[n - 1] \in Seq(Ids)
    BY <2>1, <2>4
  <2>6. f[n - 1] \o ring(s, s.bucket_list[n]) \in Seq(Ids)
    BY <1>2, <2>4, <2>5
  <2> QED
    BY <1>5, <2>4, <2>6
<1>7. f[L] \in Seq(Ids)
  BY <1>1, <1>6
<1> QED
  BY <1>4, <1>7

\* A timer that gets its new place.
LEMMA PlacedTick ==
    ASSUME NEW s, TickOK(s), Len(s.bucket_list) = BUCKET_LEN,
           NEW x \in Ids, BUCKET_POS(s, x) >= 1,
           NEW t, t = placed(s, x)
    PROVE  TickOK(t) /\ Kept(s, t) /\ Len(t.bucket_list) = BUCKET_LEN
<1>1. /\ s \in SubsystemState /\ s.callBack \subseteq 1..s.made /\ s.processing \in Seq(Ids)
      /\ s.timeToRun \in [Ids -> Nat] /\ s.head_offset \in Nat /\ BUCKET_LEN \in Nat
      /\ DOMAIN s.bucket_list = 1..BUCKET_LEN
      /\ BUCKET_POS(s, x) = s.timeToRun[x] - s.head_offset + 1
  BY TickParts, TimerAssumption
<1>2. CASE BUCKET_POS(s, x) > BUCKET_LEN
  <2> DEFINE pr == Append(s.processing, x)
  <2>1. t = [s EXCEPT !.processing = pr]
    BY <1>2 DEF placed
  <2>2. pr \in Seq(Ids)
    BY <1>1
  <2> HIDE DEF pr
  <2>3. t \in SubsystemState
    BY <1>1, <2>1, <2>2 DEF SubsystemState
  <2>4. /\ t.made = s.made /\ t.timeToRun = s.timeToRun /\ t.hash = s.hash
        /\ t.callBack = s.callBack /\ t.hashes = s.hashes /\ t.hasSpent = s.hasSpent
        /\ t.head_offset = s.head_offset /\ t.practical_offset = s.practical_offset
        /\ t.resolution = s.resolution /\ t.next = s.next /\ t.prev = s.prev
        /\ t.bucket_list = s.bucket_list
    BY <1>1, <2>1 DEF SubsystemState
  <2>5. LinksOK(t) /\ FirstsOK(t) /\ HashesOK(t)
    BY <2>4 DEF TickOK, LinksOK, FirstsOK, SameTick, BUCKET_POS, HashesOK
  <2>6. TickOK(t)
    BY <1>1, <2>3, <2>4, <2>5 DEF TickOK
  <2> QED
    BY <2>4, <2>6 DEF Kept
<1>3. CASE ~(BUCKET_POS(s, x) > BUCKET_LEN) /\ x \in s.callBack \ s.hasSpent
  <2>1. t = linked(s, x)
    BY <1>3 DEF placed
  <2>2. x \in 1..s.made /\ BUCKET_POS(s, x) \in DOMAIN s.bucket_list
    <3>1. BUCKET_POS(s, x) \in Int
      BY <1>1
    <3> QED
      BY <1>1, <1>3, <3>1
  <2> QED
    BY <2>1, <2>2, LinkedTick
<1>4. CASE ~(BUCKET_POS(s, x) > BUCKET_LEN) /\ x \notin s.callBack \ s.hasSpent
  <2>1. t = s
    BY <1>4 DEF placed
  <2> QED
    BY <2>1 DEF Kept
<1> QED
  BY <1>2, <1>3, <1>4

\* The buckets begin anew.
LEMMA ShiftTick ==
    ASSUME NEW s, TickOK(s), worldTime \in Nat, NEW t, t = shift_buckets(s)
    PROVE  TickOK(t) /\ t.made = s.made /\ t.timeToRun = s.timeToRun /\ t.resolution
<1> DEFINE q     == inBuckets(s) \o s.processing
           times == {s.timeToRun[x] : x \in ToSet(q)} \cup {worldTime}
           m     == CHOOSE i \in times : \A u \in times : i <= u
           bs    == [p \in 1..BUCKET_LEN |-> None]
           empty == [s EXCEPT !.bucket_list = [p \in 1..BUCKET_LEN |-> None],
                              !.processing = <<>>,
                              !.practical_offset = 1,
                              !.resolution = TRUE,
                              !.head_offset = CHOOSE i \in times : \A u \in times : i <= u]
<1>1. /\ s \in SubsystemState /\ s.callBack \subseteq 1..s.made /\ s.processing \in Seq(Ids)
      /\ s.timeToRun \in [Ids -> Nat]
  BY TickParts
<1>2. BUCKET_LEN \in Nat /\ BUCKET_LEN >= 1
  BY TimerAssumption
<1>3. q \in Seq(Ids) /\ Len(q) \in Nat /\ DOMAIN q = 1..Len(q) /\ \A i \in DOMAIN q : q[i] \in Ids
  <2>1. inBuckets(s) \in Seq(Ids)
    BY InBucketsTyped
  <2>2. q \in Seq(Ids)
    BY <1>1, <2>1
  <2> HIDE DEF q
  <2> QED
    BY <2>2
<1>4. PICK f : StepsIn(f, "place", s, q, empty, Len(q))
  <2> HIDE DEF q, empty
  <2> QED
    BY <1>3, StepsInExist
<1>5. t = f[Len(q)]
  <2> DEFINE g == CHOOSE g : g = [n \in 0..Len(q) |-> IF n = 0 THEN empty ELSE placed(g[n - 1], q[n])]
  <2>1. t = g[Len(q)]
    BY DEF shift_buckets
  <2> HIDE DEF q, empty
  <2>2. f = [n \in 0..Len(q) |-> IF n = 0 THEN empty ELSE placed(f[n - 1], q[n])]
    BY <1>4 DEF StepsIn, nextIn
  <2>3. g = [n \in 0..Len(q) |-> IF n = 0 THEN empty ELSE placed(g[n - 1], q[n])]
    BY <2>2
  <2> HIDE DEF g
  <2>5. \A n \in 0..Len(q) :
          /\ f[n] = IF n = 0 THEN empty ELSE placed(f[n - 1], q[n])
          /\ g[n] = IF n = 0 THEN empty ELSE placed(g[n - 1], q[n])
    BY <2>2, <2>3
  <2> DEFINE bad == {n \in Nat : n \in 0..Len(q) /\ f[n] # g[n]}
  <2>6. bad = {}
    <3> SUFFICES ASSUME bad # {} PROVE FALSE
      OBVIOUS
    <3>1. PICK n \in bad : \A i \in bad : n <= i
      BY LeastNat
    <3>2. n # 0
      BY <2>5
    <3>3. n \in 0..Len(q) /\ n - 1 \in 0..Len(q) /\ n - 1 \in Nat /\ ~(n <= n - 1)
      BY <1>3, <3>2
    <3>4. f[n - 1] = g[n - 1]
      BY <3>1, <3>3
    <3> QED
      BY <2>5, <3>2, <3>3, <3>4
  <2>7. Len(q) \in 0..Len(q)
    BY <1>3
  <2> QED
    BY <1>3, <2>1, <2>6, <2>7
<1>6. f[0] = empty /\ \A n \in 1..Len(q) : f[n] = placed(f[n - 1], q[n])
  <2> HIDE DEF q, empty
  <2>2. f[0] = empty /\ \A n \in 1..Len(q) : f[n] = nextIn("place", s, q, f[n - 1], n)
    BY <1>3, <1>4, StepsAre
  <2> QED
    BY <2>2 DEF nextIn
<1> HIDE DEF q
<1>7. m \in Nat /\ m <= worldTime /\ \A i \in DOMAIN q : m <= s.timeToRun[q[i]]
  <2>1. \A i \in DOMAIN q : s.timeToRun[q[i]] \in times /\ s.timeToRun[q[i]] \in Nat
    BY <1>1, <1>3 DEF ToSet
  <2>2. worldTime \in times /\ times \subseteq Nat
    BY <1>1, <1>3 DEF ToSet
  <2> HIDE DEF times
  <2>4. PICK k \in times : \A u \in times : k <= u
    BY <2>2, LeastNat
  <2>5. m \in times /\ \A u \in times : m <= u
    BY <2>4
  <2> QED
    BY <2>1, <2>2, <2>5
<1>8. empty = [s EXCEPT !.bucket_list = bs, !.processing = <<>>, !.practical_offset = 1,
                        !.resolution = TRUE, !.head_offset = m]
  OBVIOUS
<1> HIDE DEF empty, m, times
<1>9. bs \in Seq(Ids \cup {None}) /\ Len(bs) = BUCKET_LEN /\ DOMAIN bs = 1..BUCKET_LEN
      /\ \A p \in 1..BUCKET_LEN : bs[p] = None
  BY <1>2
<1> HIDE DEF bs
<1>10. empty \in SubsystemState
  <2>1. <<>> \in Seq(Ids)
    OBVIOUS
  <2> QED
    BY <1>1, <1>7, <1>8, <1>9, <2>1 DEF SubsystemState
<1>11. /\ empty.made = s.made /\ empty.timeToRun = s.timeToRun /\ empty.hash = s.hash
       /\ empty.hasSpent = s.hasSpent /\ empty.callBack = s.callBack /\ empty.hashes = s.hashes
       /\ empty.head_offset = m /\ empty.practical_offset = 1 /\ empty.resolution = TRUE
       /\ empty.next = s.next /\ empty.prev = s.prev
       /\ empty.bucket_list = bs /\ empty.processing = <<>>
  BY <1>1, <1>8 DEF SubsystemState
<1>12. TickOK(empty) /\ Len(empty.bucket_list) = BUCKET_LEN
  <2>1. LinksOK(empty) /\ HashesOK(empty)
    BY <1>11 DEF TickOK, LinksOK, SameTick, HashesOK
  <2>2. FirstsOK(empty)
    BY <1>9, <1>11 DEF FirstsOK
  <2> QED
    BY <1>1, <1>7, <1>9, <1>10, <1>11, <2>1, <2>2 DEF TickOK
<1>13. \A i \in DOMAIN q : s.timeToRun[q[i]] - m + 1 >= 1
  <2> SUFFICES ASSUME NEW i \in DOMAIN q PROVE s.timeToRun[q[i]] - m + 1 >= 1
    OBVIOUS
  <2>1. s.timeToRun[q[i]] \in Nat /\ m <= s.timeToRun[q[i]]
    BY <1>1, <1>3, <1>7
  <2> QED
    BY <1>7, <2>1
<1> DEFINE good(y) == /\ TickOK(y) /\ Len(y.bucket_list) = BUCKET_LEN
                      /\ y.made = s.made /\ y.timeToRun = s.timeToRun
                      /\ y.head_offset = m /\ y.resolution = TRUE
<1>14. ASSUME NEW y, good(y), NEW i \in DOMAIN q PROVE good(placed(y, q[i]))
  <2>1. PICK z : z = placed(y, q[i])
    OBVIOUS
  <2>2. PICK x : x = q[i]
    OBVIOUS
  <2>3. TickOK(y) /\ Len(y.bucket_list) = BUCKET_LEN /\ x \in Ids /\ z = placed(y, x)
    BY <1>3, <1>14, <2>1, <2>2
  <2>4. BUCKET_POS(y, x) >= 1
    BY <1>13, <1>14, <2>2 DEF BUCKET_POS
  <2> HIDE DEF good
  <2>5. TickOK(z) /\ Kept(y, z) /\ Len(z.bucket_list) = BUCKET_LEN
    BY <2>3, <2>4, PlacedTick
  <2>6. z.made = y.made /\ z.timeToRun = y.timeToRun /\ z.head_offset = y.head_offset
        /\ z.resolution = y.resolution
    BY <2>5 DEF Kept
  <2> QED
    BY <1>14, <2>1, <2>5, <2>6 DEF good
<1>15. good(f[0])
  BY <1>6, <1>11, <1>12
<1> HIDE DEF good
<1> DEFINE bad == {n \in Nat : n \in 0..Len(q) /\ ~good(f[n])}
<1>16. bad = {}
  <2> SUFFICES ASSUME bad # {} PROVE FALSE
    OBVIOUS
  <2>1. PICK n \in bad : \A i \in bad : n <= i
    BY LeastNat
  <2>2. n # 0
    BY <1>15
  <2>3. n \in 1..Len(q) /\ n - 1 \in 0..Len(q) /\ n - 1 \in Nat /\ ~(n <= n - 1)
    BY <1>3, <2>2
  <2>4. good(f[n - 1])
    BY <2>1, <2>3
  <2> QED
    BY <1>3, <1>6, <1>14, <2>3, <2>4
<1>17. good(f[Len(q)])
  BY <1>3, <1>16
<1> QED
  BY <1>5, <1>17 DEF good

LEMMA TickInvParts ==
    ASSUME TickInv
    PROVE  /\ worldTime \in 0..MaxTime /\ worldTime \in Nat /\ MaxTime \in Nat
           /\ firing \in {"idle", "while", "do", "callback", "paused"}
           /\ timer \in Ids \cup {None} /\ head \in Ids \cup {None}
           /\ spent \in Seq(Ids) /\ late \in BOOLEAN /\ TickOK(ss)
           /\ timer # None => timer \in 1..ss.made /\ ss.timeToRun[timer] < worldTime
           /\ firing # "idle" => ss.resolution
           /\ firing \in {"do", "callback"} => timer # None
  BY TimerAssumption DEF TickInv, Over

LEMMA NextTick ==
    ASSUME worldTime \in Nat, worldTime' \in 0..MaxTime, worldTime <= worldTime',
           firing' \in {"idle", "while", "do", "callback", "paused"},
           timer' \in Ids \cup {None}, head' \in Ids \cup {None},
           spent' \in Seq(Ids), late' \in BOOLEAN,
           NEW t, t = ss', TickOK(t),
           timer' # None => timer' \in 1..t.made /\ t.timeToRun[timer'] < worldTime',
           firing' # "idle" => t.resolution,
           firing' \in {"do", "callback"} => timer' # None
    PROVE  TickInv'
<1>1. t.head_offset \in Nat /\ t.head_offset <= worldTime /\ worldTime' \in Nat
  BY TickParts, TimerAssumption DEF TickOK
<1>2. t.head_offset <= worldTime'
  BY <1>1
<1>3. TickOK(t)'
  BY <1>2 DEF TickOK, HashesOK, LinksOK, FirstsOK, SameTick, BUCKET_POS
<1>4. TickOK(ss)'
  BY <1>3 DEF TickOK, HashesOK, LinksOK, FirstsOK, SameTick, BUCKET_POS
<1>5. Over(ss, timer)'
  BY DEF Over
<1> QED
  BY <1>4, <1>5 DEF TickInv

LEMMA TickInitInv == TimerInit => TickInv
<1> SUFFICES ASSUME TimerInit PROVE TickInv
  OBVIOUS
<1>1. TimerInv
  BY TimerInitInv
<1>2. PICK R : TimersOK(ss, R) /\ FireOK(ss, R)
  BY <1>1 DEF TimerInv
<1>3. PICK s : s = ss
  OBVIOUS
<1>4. /\ s.bucket_list = <<>> /\ s.made = 0 /\ s.callBack = {} /\ s.resolution = FALSE /\ s.head_offset = 0
      /\ \A y \in Ids : s.next[y] = None /\ s.prev[y] = None
  BY <1>3 DEF TimerInit
<1>5. s \in SubsystemState /\ HashesOK(s)
  BY <1>2, <1>3, TimersOKParts
<1>6. LinksOK(s)
  BY <1>4 DEF LinksOK, SameTick
<1>7. FirstsOK(s)
  <2>1. DOMAIN s.bucket_list = {}
    BY <1>4
  <2> QED
    BY <2>1 DEF FirstsOK
<1>8. TickOK(s) /\ worldTime = 0 /\ MaxTime \in Nat /\ late = FALSE /\ firing = "idle" /\ timer = None
      /\ spent = <<>> /\ head = None
  BY <1>4, <1>5, <1>6, <1>7, TimerAssumption DEF TickOK, TimerInit
<1>9. worldTime \in 0..MaxTime /\ spent \in Seq(Ids) /\ late \in BOOLEAN
      /\ timer \in Ids \cup {None} /\ head \in Ids \cup {None}
  <2>1. <<>> \in Seq(Ids) /\ 0 \in 0..MaxTime
    BY <1>8
  <2> QED
    BY <1>8, <2>1
<1>10. TickOK(ss) /\ Over(ss, timer)
  BY <1>3, <1>8 DEF Over
<1> QED
  BY <1>8, <1>9, <1>10 DEF TickInv

LEMMA TimerFireTick ==
    ASSUME TickInv, TimerFire
    PROVE  TickInv'
<1>1. /\ worldTime \in 0..MaxTime /\ worldTime \in Nat
      /\ timer \in Ids \cup {None} /\ head \in Ids \cup {None}
      /\ spent \in Seq(Ids) /\ late \in BOOLEAN
  BY TickInvParts
<1>2. PICK s : s = ss
  OBVIOUS
<1>3. PICK t : t = ss'
  OBVIOUS
<1>4. TickOK(s) /\ (timer # None => timer \in 1..s.made /\ s.timeToRun[timer] < worldTime)
  BY <1>2, TickInvParts
<1> DEFINE shifts == \/ s.practical_offset > BUCKET_LEN
                     \/ ~(firing = "paused") /\ Len(s.bucket_list) # BUCKET_LEN
                     \/ ~s.resolution
<1>5. /\ firing' = "while" /\ t = (IF shifts THEN shift_buckets(s) ELSE s)
      /\ timer' \in {None, timer} /\ head' \in {None, head}
      /\ UNCHANGED <<worldTime, spent, late>>
  BY <1>2, <1>3 DEF TimerFire
<1>6. TickOK(t) /\ t.made = s.made /\ t.timeToRun = s.timeToRun /\ t.resolution
  <2>1. CASE shifts
    <3>1. t = shift_buckets(s)
      BY <1>5, <2>1
    <3> HIDE DEF shifts
    <3> QED
      BY <1>1, <1>4, <3>1, ShiftTick
  <2>2. CASE ~shifts
    BY <1>4, <1>5, <2>2
  <2> QED
    BY <2>1, <2>2
<1> HIDE DEF shifts
<1>7. /\ timer' \in Ids \cup {None} /\ head' \in Ids \cup {None} /\ worldTime <= worldTime'
      /\ timer' # None => timer' \in 1..t.made /\ t.timeToRun[timer'] < worldTime'
  BY <1>1, <1>4, <1>5, <1>6
<1> QED
  BY <1>1, <1>3, <1>5, <1>6, <1>7, NextTick

LEMMA TimerDoneTick ==
    ASSUME TickInv, TimerDone
    PROVE  TickInv'
<1>1. /\ worldTime \in 0..MaxTime /\ worldTime \in Nat
      /\ timer \in Ids \cup {None} /\ head \in Ids \cup {None}
      /\ spent \in Seq(Ids) /\ late \in BOOLEAN
  BY TickInvParts
<1>2. PICK s : s = ss
  OBVIOUS
<1>3. PICK t : t = ss'
  OBVIOUS
<1>5. /\ firing = "while" /\ firing' \in {"idle", "paused"} /\ t = allDestroyed(s, spent) /\ spent' = <<>>
      /\ UNCHANGED <<worldTime, timer, head>>
  BY <1>2, <1>3 DEF TimerDone, ends
<1>4. TickOK(s) /\ s.resolution /\ (timer # None => timer \in 1..s.made /\ s.timeToRun[timer] < worldTime)
  BY <1>2, <1>5, TickInvParts
<1>6. TickOK(t) /\ t.made = s.made /\ t.timeToRun = s.timeToRun /\ t.resolution = s.resolution
  BY <1>1, <1>4, <1>5, AllDestroyedTick
<1>7. late' \in BOOLEAN
  BY <1>1 DEF TimerDone
<1>8. /\ worldTime <= worldTime' /\ spent' \in Seq(Ids)
      /\ timer' # None => timer' \in 1..t.made /\ t.timeToRun[timer'] < worldTime'
  BY <1>1, <1>4, <1>5, <1>6
<1>9. t.resolution /\ firing' # "do" /\ firing' # "callback"
      /\ firing' \in {"idle", "while", "do", "callback", "paused"}
  BY <1>4, <1>5, <1>6
<1>10. worldTime' \in 0..MaxTime /\ timer' \in Ids \cup {None} /\ head' \in Ids \cup {None}
  BY <1>1, <1>5
<1>11. /\ firing' # "idle" => t.resolution
       /\ firing' \in {"do", "callback"} => timer' # None
  BY <1>9
<1> QED
  BY <1>1, <1>3, <1>6, <1>7, <1>8, <1>9, <1>10, <1>11, NextTick

\* fire() goes to the next bucket.
LEMMA PassedTick ==
    ASSUME NEW s, TickOK(s), NEW t,
           \/ t = [s EXCEPT !.practical_offset = @ + 1]
           \/ t = [s EXCEPT !.bucket_list[s.practical_offset] = None, !.practical_offset = @ + 1]
    PROVE  TickOK(t) /\ t.made = s.made /\ t.timeToRun = s.timeToRun /\ t.resolution = s.resolution
<1>1. s \in SubsystemState /\ s.practical_offset \in Nat /\ s.bucket_list \in Seq(Ids \cup {None})
  BY TickParts
<1> DEFINE po == s.practical_offset + 1
           ns == [s.bucket_list EXCEPT ![s.practical_offset] = None]
<1>2. po \in Nat /\ po >= 1
  BY <1>1
<1>3. ns \in Seq(Ids \cup {None}) /\ Len(ns) = Len(s.bucket_list) /\ DOMAIN ns = DOMAIN s.bucket_list
      /\ \A p \in DOMAIN ns : ns[p] = s.bucket_list[p] \/ ns[p] = None
  <2>1. PICK bs : bs = s.bucket_list
    OBVIOUS
  <2>2. PICK i : i = s.practical_offset
    OBVIOUS
  <2>3. bs \in Seq(Ids \cup {None}) /\ Len(bs) \in Nat /\ DOMAIN bs = 1..Len(bs)
        /\ \A p \in 1..Len(bs) : bs[p] \in Ids \cup {None}
    BY <1>1, <2>1
  <2>4. PICK cs : cs = [bs EXCEPT ![i] = None]
    OBVIOUS
  <2>5. DOMAIN cs = 1..Len(bs) /\ \A p \in 1..Len(bs) : cs[p] = bs[p] \/ cs[p] = None
    BY <2>3, <2>4
  <2>6. cs = [p \in 1..Len(bs) |-> cs[p]]
    BY <2>3, <2>4
  <2>7. cs \in [1..Len(bs) -> Ids \cup {None}]
    BY <2>3, <2>5, <2>6
  <2>8. cs \in Seq(Ids \cup {None}) /\ Len(cs) = Len(bs)
    BY <2>3, <2>7
  <2> QED
    BY <2>1, <2>2, <2>3, <2>4, <2>5, <2>8
<1>4. t = [s EXCEPT !.practical_offset = po] \/ t = [s EXCEPT !.bucket_list = ns, !.practical_offset = po]
  <2>1. ASSUME t = [s EXCEPT !.practical_offset = @ + 1] PROVE t = [s EXCEPT !.practical_offset = po]
    BY <1>1, <2>1 DEF SubsystemState
  <2>2. ASSUME t = [s EXCEPT !.bucket_list[s.practical_offset] = None, !.practical_offset = @ + 1]
        PROVE  t = [s EXCEPT !.bucket_list = ns, !.practical_offset = po]
    BY <1>1, <2>2 DEF SubsystemState
  <2> QED
    BY <2>1, <2>2
<1> HIDE DEF po, ns
<1>5. PICK bs : bs \in {ns, s.bucket_list} /\ t = [s EXCEPT !.bucket_list = bs, !.practical_offset = po]
  <2>1. [s EXCEPT !.practical_offset = po] = [s EXCEPT !.bucket_list = s.bucket_list, !.practical_offset = po]
    BY <1>1 DEF SubsystemState
  <2> QED
    BY <1>4, <2>1
<1>6. bs \in Seq(Ids \cup {None}) /\ Len(bs) = Len(s.bucket_list) /\ DOMAIN bs = DOMAIN s.bucket_list
      /\ \A p \in DOMAIN bs : bs[p] = s.bucket_list[p] \/ bs[p] = None
  BY <1>1, <1>3, <1>5
<1>7. t \in SubsystemState
  BY <1>1, <1>2, <1>5, <1>6 DEF SubsystemState
<1>8. /\ t.made = s.made /\ t.timeToRun = s.timeToRun /\ t.hash = s.hash
      /\ t.callBack = s.callBack /\ t.hashes = s.hashes
      /\ t.head_offset = s.head_offset /\ t.practical_offset = po
      /\ t.resolution = s.resolution /\ t.next = s.next /\ t.prev = s.prev
      /\ t.bucket_list = bs
  BY <1>1, <1>5 DEF SubsystemState
<1>9. LinksOK(t) /\ HashesOK(t)
  BY <1>8 DEF TickOK, LinksOK, SameTick, HashesOK
<1>10. FirstsOK(t)
  BY <1>6, <1>8 DEF TickOK, FirstsOK, BUCKET_POS
<1> QED
  BY <1>2, <1>6, <1>7, <1>8, <1>9, <1>10 DEF TickOK

LEMMA NextBucketTick ==
    ASSUME TickInv, NextBucket
    PROVE  TickInv'
<1>1. /\ worldTime \in 0..MaxTime /\ worldTime \in Nat
      /\ timer \in Ids \cup {None} /\ head \in Ids \cup {None}
      /\ spent \in Seq(Ids) /\ late \in BOOLEAN
  BY TickInvParts
<1>2. PICK s : s = ss
  OBVIOUS
<1>3. PICK t : t = ss'
  OBVIOUS
<1>4. firing = "while" /\ Due /\ worldTime' = worldTime /\ late' = late
  BY DEF NextBucket
<1>5. TickOK(s) /\ s.resolution /\ (timer # None => timer \in 1..s.made /\ s.timeToRun[timer] < worldTime)
  BY <1>2, <1>4, TickInvParts
<1>6. PICK first : first = s.bucket_list[s.practical_offset]
  OBVIOUS
<1>7. /\ s.practical_offset \in DOMAIN s.bucket_list /\ first \in Ids \cup {None}
      /\ first # None => first \in 1..s.made /\ s.timeToRun[first] < worldTime
  <2>1. /\ s.practical_offset \in Nat /\ s.head_offset \in Nat /\ s.timeToRun \in [Ids -> Nat]
        /\ DOMAIN s.bucket_list = 1..Len(s.bucket_list) /\ s.bucket_list \in Seq(Ids \cup {None})
        /\ 1..s.made \subseteq Ids
        /\ \A x : BUCKET_POS(s, x) = s.timeToRun[x] - s.head_offset + 1
    BY <1>5, TickParts
  <2>2. /\ s.practical_offset >= 1 /\ Len(s.bucket_list) = BUCKET_LEN /\ BUCKET_LEN \in Nat
        /\ s.practical_offset <= BUCKET_LEN /\ s.head_offset + s.practical_offset <= worldTime
    BY <1>2, <1>4, <1>5, TimerAssumption DEF TickOK, Due
  <2>3. s.practical_offset \in DOMAIN s.bucket_list
    BY <2>1, <2>2
  <2>4. first \in Ids \cup {None}
    BY <1>6, <2>1, <2>3
  <2>5. ASSUME first # None PROVE first \in 1..s.made /\ s.timeToRun[first] < worldTime
    <3>1. first \in 1..s.made /\ BUCKET_POS(s, first) = s.practical_offset
      BY <1>5, <1>6, <2>3, <2>5 DEF TickOK, FirstsOK
    <3>2. s.timeToRun[first] \in Nat /\ s.timeToRun[first] - s.head_offset + 1 = s.practical_offset
      BY <2>1, <3>1
    <3> QED
      BY <1>1, <2>1, <2>2, <3>1, <3>2
  <2> QED
    BY <2>3, <2>4, <2>5
<1>8. PICK u : u = [s EXCEPT !.practical_offset = @ + 1]
  OBVIOUS
<1> DEFINE old == timer # None /\ head # None /\ timer # head
<1>9. \/ /\ timer # None /\ firing' = "do" /\ t = s /\ timer' = timer /\ head' = head /\ spent' = spent
      \/ /\ head' = first /\ first # None /\ firing' = "do" /\ timer' = first /\ t = s /\ spent' = spent
      \/ /\ head' = first /\ timer' = timer
         /\ \/ firing' = "while" /\ t = u /\ spent' = spent
            \/ firing' = "paused" /\ t = allDestroyed(u, spent) /\ spent' = <<>>
  <2>1. CASE old
    BY <1>2, <1>3, <2>1 DEF NextBucket
  <2>2. CASE ~old
    <3> HIDE DEF old
    <3>1. /\ head' = ss.bucket_list[ss.practical_offset]
          /\ \/ /\ ss.bucket_list[ss.practical_offset] # None
                /\ firing' = "do" /\ timer' = ss.bucket_list[ss.practical_offset]
                /\ UNCHANGED <<ss, spent>>
             \/ /\ UNCHANGED timer
                /\ \/ firing' = "while" /\ ss' = [ss EXCEPT !.practical_offset = @ + 1]
                      /\ UNCHANGED spent
                   \/ firing' = "paused" /\ ends([ss EXCEPT !.practical_offset = @ + 1])
      BY <2>2 DEF NextBucket, old
    <3> QED
      BY <1>2, <1>3, <1>6, <1>8, <3>1 DEF ends
  <2> QED
    BY <2>1, <2>2
<1> HIDE DEF old
<1>10. TickOK(u) /\ u.made = s.made /\ u.timeToRun = s.timeToRun /\ u.resolution = s.resolution
  BY <1>5, <1>8, PassedTick
<1>11. TickOK(t) /\ t.made = s.made /\ t.timeToRun = s.timeToRun /\ t.resolution = s.resolution
  <2>1. CASE t = s
    BY <1>5, <2>1
  <2>2. CASE t = u
    BY <1>10, <2>2
  <2>3. CASE t = allDestroyed(u, spent)
    <3>1. TickOK(t) /\ t.made = u.made /\ t.timeToRun = u.timeToRun /\ t.resolution = u.resolution
      BY <1>1, <1>10, <2>3, AllDestroyedTick
    <3> QED
      BY <1>10, <3>1
  <2> QED
    BY <1>9, <2>1, <2>2, <2>3
<1>12. timer' \in {timer, first} /\ head' \in {head, first}
       /\ firing' \in {"idle", "while", "do", "callback", "paused"} /\ firing' # "callback"
       /\ (firing' = "do" => timer' # None) /\ spent' \in {spent, <<>>}
  BY <1>9
<1>13. /\ timer' \in Ids \cup {None} /\ head' \in Ids \cup {None} /\ spent' \in Seq(Ids)
       /\ worldTime <= worldTime'
       /\ timer' # None => timer' \in 1..t.made /\ t.timeToRun[timer'] < worldTime'
  <2>1. timer' \in Ids \cup {None} /\ head' \in Ids \cup {None}
    BY <1>1, <1>7, <1>12
  <2>2. spent' \in Seq(Ids) /\ worldTime <= worldTime'
    <3>1. <<>> \in Seq(Ids)
      OBVIOUS
    <3>2. CASE spent' = spent
      BY <1>1, <1>4, <3>2
    <3>3. CASE spent' = <<>>
      BY <1>1, <1>4, <3>1, <3>3
    <3> QED
      BY <1>12, <3>2, <3>3
  <2>3. ASSUME timer' # None PROVE timer' \in 1..s.made /\ s.timeToRun[timer'] < worldTime
    BY <1>5, <1>7, <1>12, <2>3
  <2> QED
    BY <1>4, <1>11, <2>1, <2>2, <2>3
<1> QED
  BY <1>1, <1>3, <1>4, <1>5, <1>11, <1>12, <1>13, NextTick

LEMMA InvalidTimerTick ==
    ASSUME TickInv, InvalidTimer
    PROVE  TickInv'
<1>1. /\ worldTime \in 0..MaxTime /\ worldTime \in Nat
      /\ timer \in Ids \cup {None} /\ head \in Ids \cup {None}
      /\ spent \in Seq(Ids) /\ late \in BOOLEAN
  BY TickInvParts
<1>2. PICK s : s = ss
  OBVIOUS
<1>3. PICK t : t = ss'
  OBVIOUS
<1>4. TickOK(s) /\ s \in SubsystemState /\ (timer # None => timer \in 1..s.made /\ s.timeToRun[timer] < worldTime)
  BY <1>2, TickInvParts DEF TickOK
<1>5. /\ t = [s EXCEPT !.resolution = FALSE] /\ firing' = "idle"
      /\ UNCHANGED <<worldTime, timer, head, spent, late>>
  BY <1>2, <1>3 DEF InvalidTimer
<1>6. t \in SubsystemState
  BY <1>4, <1>5 DEF SubsystemState
<1>7. /\ t.made = s.made /\ t.timeToRun = s.timeToRun /\ t.hash = s.hash
      /\ t.callBack = s.callBack /\ t.hashes = s.hashes
      /\ t.head_offset = s.head_offset /\ t.practical_offset = s.practical_offset
      /\ t.resolution = FALSE /\ t.next = s.next /\ t.prev = s.prev
      /\ t.bucket_list = s.bucket_list
  BY <1>4, <1>5 DEF SubsystemState
<1>8. TickOK(t)
  BY <1>4, <1>6, <1>7 DEF TickOK, LinksOK, SameTick, HashesOK, FirstsOK, BUCKET_POS
<1>9. worldTime <= worldTime' /\ (timer' # None => timer' \in 1..t.made /\ t.timeToRun[timer'] < worldTime')
  BY <1>1, <1>4, <1>5, <1>7
<1> QED
  BY <1>1, <1>3, <1>5, <1>8, <1>9, NextTick

LEMMA RunTimerTick ==
    ASSUME TickInv, RunTimer
    PROVE  TickInv'
<1>1. /\ worldTime \in 0..MaxTime /\ worldTime \in Nat
      /\ timer \in Ids \cup {None} /\ head \in Ids \cup {None}
      /\ spent \in Seq(Ids) /\ late \in BOOLEAN
  BY TickInvParts
<1>2. PICK s : s = ss
  OBVIOUS
<1>3. PICK t : t = ss'
  OBVIOUS
<1>4. PICK x : x = timer
  OBVIOUS
<1>5. /\ firing = "do" /\ x \in s.callBack /\ t = [s EXCEPT !.hasSpent = @ \cup {x}]
      /\ firing' = "callback" /\ spent' = Append(spent, x)
      /\ UNCHANGED <<worldTime, timer, head, late>>
  BY <1>2, <1>3, <1>4 DEF RunTimer
<1>6. /\ TickOK(s) /\ s \in SubsystemState /\ s.resolution
      /\ timer # None => timer \in 1..s.made /\ s.timeToRun[timer] < worldTime
  BY <1>2, <1>5, TickInvParts DEF TickOK
<1>7. x \in Ids /\ x # None /\ s.hasSpent \in SUBSET Ids
  BY <1>5, <1>6, TickParts, FieldsAre
<1>8. PICK hs : hs = s.hasSpent \cup {x}
  OBVIOUS
<1>9. hs \in SUBSET Ids /\ t = [s EXCEPT !.hasSpent = hs]
  BY <1>5, <1>6, <1>7, <1>8 DEF SubsystemState
<1>10. t \in SubsystemState
  BY <1>6, <1>9 DEF SubsystemState
<1>11. /\ t.made = s.made /\ t.timeToRun = s.timeToRun /\ t.hash = s.hash
       /\ t.callBack = s.callBack /\ t.hashes = s.hashes
       /\ t.head_offset = s.head_offset /\ t.practical_offset = s.practical_offset
       /\ t.resolution = s.resolution /\ t.next = s.next /\ t.prev = s.prev
       /\ t.bucket_list = s.bucket_list
  BY <1>6, <1>9 DEF SubsystemState
<1>12. TickOK(t)
  BY <1>6, <1>10, <1>11 DEF TickOK, LinksOK, SameTick, HashesOK, FirstsOK, BUCKET_POS
<1>13. spent' \in Seq(Ids) /\ worldTime <= worldTime' /\ timer' = x /\ head' \in Ids \cup {None}
       /\ timer' \in Ids \cup {None} /\ late' \in BOOLEAN /\ timer' \in 1..t.made
       /\ t.timeToRun[timer'] < worldTime'
  BY <1>1, <1>4, <1>5, <1>6, <1>7, <1>11
<1> QED
  BY <1>1, <1>3, <1>5, <1>6, <1>7, <1>11, <1>12, <1>13, NextTick

LEMMA NextTimerTick ==
    ASSUME TickInv, NextTimer
    PROVE  TickInv'
<1>1. /\ worldTime \in 0..MaxTime /\ worldTime \in Nat
      /\ timer \in Ids \cup {None} /\ head \in Ids \cup {None}
      /\ spent \in Seq(Ids) /\ late \in BOOLEAN
  BY TickInvParts
<1>2. PICK s : s = ss
  OBVIOUS
<1>3. PICK t : t = ss'
  OBVIOUS
<1>4. PICK x : x = timer
  OBVIOUS
<1>5. PICK n : n = s.next[x]
  OBVIOUS
<1>6. PICK u : u = [s EXCEPT !.bucket_list[s.practical_offset] = None, !.practical_offset = @ + 1]
  OBVIOUS
<1>7. /\ firing \in {"do", "callback"}
      /\ \/ firing' = "paused" /\ timer' = n /\ t = s
         \/ n # None /\ firing' = "do" /\ timer' = n /\ t = s
         \/ firing' \in {"while", "paused"} /\ timer' = None /\ t = u
      /\ UNCHANGED <<worldTime, head, spent, late>>
  BY <1>2, <1>3, <1>4, <1>5, <1>6 DEF NextTimer
<1>8. /\ TickOK(s) /\ s.resolution /\ x # None /\ x \in 1..s.made /\ s.timeToRun[x] < worldTime
  BY <1>2, <1>4, <1>7, TickInvParts
<1>9. /\ n \in Ids \cup {None}
      /\ n # None => n \in 1..s.made /\ s.timeToRun[n] < worldTime
  <2>1. x \in Ids /\ s.next \in [Ids -> Ids \cup {None}]
    BY <1>8, TickParts
  <2>2. SameTick(s, x, n)
    BY <1>5, <1>8, <2>1 DEF TickOK, LinksOK
  <2> QED
    BY <1>5, <1>8, <2>1, <2>2 DEF SameTick
<1>10. TickOK(u) /\ u.made = s.made /\ u.timeToRun = s.timeToRun /\ u.resolution = s.resolution
  BY <1>6, <1>8, PassedTick
<1>11. /\ TickOK(t) /\ t.resolution /\ worldTime <= worldTime'
       /\ timer' \in Ids \cup {None}
       /\ timer' # None => timer' \in 1..t.made /\ t.timeToRun[timer'] < worldTime'
       /\ firing' \in {"idle", "while", "do", "callback", "paused"} /\ firing' # "callback"
       /\ firing' = "do" => timer' # None
  <2>1. (t = s \/ t = u) /\ worldTime' = worldTime /\ timer' \in {n, None}
        /\ firing' \in {"idle", "while", "do", "callback", "paused"} /\ firing' # "callback"
        /\ (firing' = "do" => timer' # None)
    BY <1>7
  <2>2. TickOK(t) /\ t.made = s.made /\ t.timeToRun = s.timeToRun /\ t.resolution
    BY <1>8, <1>10, <2>1
  <2>3. worldTime <= worldTime' /\ timer' \in Ids \cup {None}
    BY <1>1, <1>9, <2>1
  <2>4. ASSUME timer' # None PROVE timer' \in 1..t.made /\ t.timeToRun[timer'] < worldTime'
    BY <1>9, <2>1, <2>2, <2>4
  <2> QED
    BY <2>1, <2>2, <2>3, <2>4
<1> QED
  BY <1>1, <1>3, <1>7, <1>11, NextTick

LEMMA TimerGameTick ==
    ASSUME TickInv, TimerGame
    PROVE  TickInv'
<1>1. /\ worldTime \in 0..MaxTime /\ worldTime \in Nat
      /\ timer \in Ids \cup {None} /\ head \in Ids \cup {None}
      /\ spent \in Seq(Ids) /\ late \in BOOLEAN
      /\ firing \in {"idle", "while", "do", "callback", "paused"}
  BY TickInvParts
<1>2. PICK s : s = ss
  OBVIOUS
<1>3. PICK t : t = ss'
  OBVIOUS
<1>4. /\ TickOK(s) /\ (timer # None => timer \in 1..s.made /\ s.timeToRun[timer] < worldTime)
      /\ (firing # "idle" => s.resolution) /\ (firing \in {"do", "callback"} => timer # None)
  BY <1>2, TickInvParts
<1>5. /\ s \in SubsystemState /\ s.made \in Nat /\ s.callBack \subseteq Ids /\ HashesOK(s)
      /\ Null \notin Hashes
  BY <1>4, TickParts, TimerAssumption DEF TickOK, Null
<1>6. /\ TickOK(t) /\ t.resolution = s.resolution
      /\ \A y \in 1..s.made : y \in 1..t.made /\ t.timeToRun[y] = s.timeToRun[y]
  <2>1. ASSUME NEW wait \in Nat, NEW h \in Hashes \cup {Null}, NEW override, addtimer(wait, h, override)
        PROVE  /\ TickOK(t) /\ t.resolution = s.resolution
               /\ \A y \in 1..s.made : y \in 1..t.made /\ t.timeToRun[y] = s.timeToRun[y]
    <3> DEFINE old == IF h = Null THEN None ELSE s.hashes[h]
               waits == old # None /\ old \notin s.hasSpent
               u == CASE old = None -> s [] old # None /\ ~waits -> forgotten(s, old)
                      [] waits -> destroyed(s, old)
    <3>1. s.made < MaxTimedEvents /\ t = created(u, worldTime + wait, h)
      BY <1>2, <1>3, <2>1 DEF addtimer
    <3>2. old # None => h \in Hashes /\ old = s.hashes[h] /\ old \in s.callBack /\ old \in Ids
      BY <1>5 DEF HashesOK
    <3>3. /\ TickOK(u) /\ u.made = s.made /\ u.timeToRun = s.timeToRun /\ u.resolution = s.resolution
          /\ h \in Hashes => u.hashes[h] = None
      <4>1. CASE old = None
        <5>1. u = s /\ (h \in Hashes => s.hashes[h] = None)
          BY <1>5, <4>1
        <5> QED
          BY <1>4, <5>1
      <4>2. CASE old # None /\ ~waits
        <5>1. u = forgotten(s, old)
          BY <4>2
        <5>2. old \in Ids /\ h \in Hashes /\ s.hashes[h] = old
          BY <3>2, <4>2
        <5> HIDE DEF old, u
        <5> QED
          BY <1>4, <5>1, <5>2, ForgottenTick
      <4>3. CASE waits
        <5>1. u = destroyed(s, old)
          BY <4>3
        <5>2. old \in s.callBack /\ h \in Hashes /\ s.hashes[h] = old
          BY <3>2, <4>3
        <5> HIDE DEF old, u
        <5>3. s.hash[old] = h
          BY <1>5, <5>2 DEF HashesOK
        <5> QED
          BY <1>4, <5>1, <5>2, <5>3, DestroyedTick
      <4> QED
        BY <4>1, <4>2, <4>3
    <3> HIDE DEF u, old, waits
    <3>4. PICK at : at = worldTime + wait
      OBVIOUS
    <3>5. at \in Nat /\ at >= worldTime /\ u.made < MaxTimedEvents /\ t = created(u, at, h)
      BY <1>1, <3>1, <3>3, <3>4
    <3>6. /\ TickOK(t) /\ t.made = u.made + 1 /\ t.resolution = u.resolution
          /\ \A y \in 1..u.made : t.timeToRun[y] = u.timeToRun[y]
      BY <1>1, <3>3, <3>5, CreatedTick
    <3> QED
      BY <1>5, <3>3, <3>6
  <2>2. ASSUME NEW x \in Ids, deltimer(x)
        PROVE  /\ TickOK(t) /\ t.resolution = s.resolution
               /\ \A y \in 1..s.made : y \in 1..t.made /\ t.timeToRun[y] = s.timeToRun[y]
    <3>1. t = destroyed(s, x)
      BY <1>2, <1>3, <2>2 DEF deltimer
    <3>2. TickOK(t) /\ t.made = s.made /\ t.timeToRun = s.timeToRun /\ t.resolution = s.resolution
      BY <1>4, <3>1, DestroyedTick
    <3> QED
      BY <3>2
  <2>3. \A wait \in Waits \cup Hashes : wait \in Nat
    BY TimerAssumption
  <2>4. CASE \E wait \in Waits : addtimer(wait, Null, FALSE)
    <3>1. PICK wait \in Waits : addtimer(wait, Null, FALSE)
      BY <2>4
    <3>2. wait \in Nat /\ Null \in Hashes \cup {Null}
      BY <2>3
    <3> QED
      BY <2>1, <3>1, <3>2
  <2>5. CASE \E h \in Hashes, override \in BOOLEAN : addtimer(h, h, override)
    <3>1. PICK h \in Hashes, override \in BOOLEAN : addtimer(h, h, override)
      BY <2>5
    <3>2. h \in Nat /\ h \in Hashes \cup {Null}
      BY <2>3
    <3> QED
      BY <2>1, <3>1, <3>2
  <2>6. CASE \E x \in Ids : deltimer(x)
    BY <2>2, <2>6
  <2> QED
    BY <2>4, <2>5, <2>6 DEF TimerGame
<1>7. UNCHANGED <<worldTime, firing, timer, head, spent, late>>
  BY DEF TimerGame
<1>8. worldTime <= worldTime'
      /\ (timer' # None => timer' \in 1..t.made /\ t.timeToRun[timer'] < worldTime')
  BY <1>1, <1>4, <1>6, <1>7
<1> QED
  BY <1>1, <1>3, <1>4, <1>6, <1>7, <1>8, NextTick

LEMMA TickPassesTick ==
    ASSUME TickInv, TickPasses
    PROVE  TickInv'
<1>1. /\ worldTime \in 0..MaxTime /\ worldTime \in Nat /\ MaxTime \in Nat
      /\ timer \in Ids \cup {None} /\ head \in Ids \cup {None}
      /\ spent \in Seq(Ids) /\ late \in BOOLEAN
      /\ firing \in {"idle", "while", "do", "callback", "paused"}
  BY TickInvParts
<1>2. PICK s : s = ss
  OBVIOUS
<1>3. /\ firing \in {"idle", "paused"} /\ worldTime < MaxTime /\ worldTime' = worldTime + 1 /\ s = ss'
      /\ UNCHANGED <<firing, timer, head, spent, late>>
  BY <1>2 DEF TickPasses
<1>4. /\ TickOK(s) /\ (timer # None => timer \in 1..s.made /\ s.timeToRun[timer] < worldTime)
      /\ (firing # "idle" => s.resolution)
  BY <1>2, TickInvParts
<1>5. timer # None => s.timeToRun[timer] \in Nat
  BY <1>1, <1>4, TickParts
<1>6. worldTime' \in 0..MaxTime /\ worldTime <= worldTime'
      /\ (timer' # None => timer' \in 1..s.made /\ s.timeToRun[timer'] < worldTime')
  BY <1>1, <1>3, <1>4, <1>5
<1> QED
  BY <1>1, <1>3, <1>4, <1>6, NextTick

LEMMA TickStepKeeps ==
    ASSUME TickInv, [TimerNext]_timeVars
    PROVE  TickInv'
<1>1. CASE TimerFire
  BY <1>1, TimerFireTick
<1>2. CASE TimerDone
  BY <1>2, TimerDoneTick
<1>3. CASE NextBucket
  BY <1>3, NextBucketTick
<1>4. CASE InvalidTimer
  BY <1>4, InvalidTimerTick
<1>5. CASE RunTimer
  BY <1>5, RunTimerTick
<1>6. CASE NextTimer
  BY <1>6, NextTimerTick
<1>7. CASE TimerGame
  BY <1>7, TimerGameTick
<1>8. CASE TickPasses
  BY <1>8, TickPassesTick
<1>9. CASE UNCHANGED timeVars
  <2>1. /\ worldTime \in 0..MaxTime /\ worldTime \in Nat
        /\ timer \in Ids \cup {None} /\ head \in Ids \cup {None}
        /\ spent \in Seq(Ids) /\ late \in BOOLEAN
        /\ firing \in {"idle", "while", "do", "callback", "paused"}
    BY TickInvParts
  <2>2. PICK s : s = ss
    OBVIOUS
  <2>3. /\ TickOK(s) /\ (timer # None => timer \in 1..s.made /\ s.timeToRun[timer] < worldTime)
        /\ (firing # "idle" => s.resolution) /\ (firing \in {"do", "callback"} => timer # None)
    BY <2>2, TickInvParts
  <2>4. s = ss' /\ UNCHANGED <<worldTime, firing, timer, head, spent, late>>
    BY <1>9, <2>2 DEF timeVars
  <2>5. worldTime <= worldTime'
    BY <2>1, <2>4
  <2> QED
    BY <2>1, <2>3, <2>4, <2>5, NextTick
<1> QED
  BY <1>1, <1>2, <1>3, <1>4, <1>5, <1>6, <1>7, <1>8, <1>9 DEF TimerNext, TimerStep

LEMMA TickInvHolds == TimerSpec => []TickInv
<1>1. TimerInit => TickInv
  BY TickInitInv
<1>2. TickInv /\ [TimerNext]_timeVars => TickInv'
  BY TickStepKeeps
<1> QED
  BY <1>1, <1>2, PTL DEF TimerSpec

\* At any time: types are kept, and a hash leads to the one timer that has it.  Until a tick
\* was over as soon as fire() resumed in a bucket: every timer that waits is in the bucket of
\* its tick, or in processing for a later one; no bucket holds a deleted timer; and no bucket
\* that fire() has passed has one that waits (New(), Destroy(), shift_buckets(), fire()).
THEOREM BucketsHoldHolds == TimerSpec => []BucketsHold
<1>1. TimerSpec => [](TickInv /\ (late \/ TimerInv))
  BY TickInvHolds, TimerInvHolds, PTL
<1>2. TickInv /\ (late \/ TimerInv) => BucketsHold
  <2> SUFFICES ASSUME TickInv, late \/ TimerInv PROVE BucketsHold
    OBVIOUS
  <2>1. TimerTypeOK /\ HashesAgree
    <3>1. TickOK(ss)
      BY TickInvParts
    <3>2. ss \in SubsystemState /\ HashesOK(ss)
      BY <3>1 DEF TickOK
    <3> QED
      BY <3>2, TickInvParts DEF TimerTypeOK, HashesAgree, HashesOK
  <2>2. late \/ (BucketHoldsAll /\ BucketsAreClean)
    BY TimerInvBuckets
  <2> QED
    BY <2>1, <2>2 DEF BucketsHold
<1> QED
  BY <1>1, <1>2, PTL

\* No timer runs before its tick is over (fire()).  Until a tick was over as soon as fire()
\* resumed in a bucket, timers run in the order of their ticks and, for one tick, in the order
\* they were made; and no fire() that comes to its end passes over one that is due.
THEOREM TimersRunHolds == TimerSpec => TimersRun
<1> DEFINE inOrder == RunTimer => /\ ss.timeToRun[timer] < worldTime
                                  /\ \A x \in Waiting :
                                       \/ late
                                       \/ ss.timeToRun[timer] < ss.timeToRun[x]
                                       \/ ss.timeToRun[timer] = ss.timeToRun[x] /\ timer <= x
           inTime  == (TimerDone /\ firing' = "idle") =>
                        \A x \in Waiting :
                          \/ late
                          \/ ss.timeToRun[x] >= worldTime
                          \/ ss.practical_offset > BUCKET_LEN /\ BUCKET_POS(ss, x) > BUCKET_LEN
<1>1. TimerSpec => [](TickInv /\ (late \/ TimerInv))
  BY TickInvHolds, TimerInvHolds, PTL
<1>2. TickInv /\ (late \/ TimerInv) => inOrder
  <2> SUFFICES ASSUME TickInv, late \/ TimerInv, RunTimer
               PROVE  /\ ss.timeToRun[timer] < worldTime
                      /\ \A x \in Waiting :
                           \/ late
                           \/ ss.timeToRun[timer] < ss.timeToRun[x]
                           \/ ss.timeToRun[timer] = ss.timeToRun[x] /\ timer <= x
    OBVIOUS
  <2>1. ss.timeToRun[timer] < worldTime
    BY TickInvParts DEF RunTimer
  <2>2. CASE late
    BY <2>1, <2>2
  <2>3. CASE TimerInv
    BY <2>1, <2>3, TimerRunsInOrder
  <2> QED
    BY <2>2, <2>3
<1>3. TickInv /\ (late \/ TimerInv) => inTime
  BY TimerRunsInTime
<1> HIDE DEF inOrder, inTime
<1>4. TimerSpec => [][inOrder]_timeVars /\ [][inTime]_timeVars
  BY <1>1, <1>2, <1>3, PTL DEF TimerSpec
<1> QED
  BY <1>4 DEF TimersRun, RunsInOrder, RunsInTime, inOrder, inTime
==============================================================================
