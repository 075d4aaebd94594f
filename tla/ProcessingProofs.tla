-------------------------- MODULE ProcessingProofs -------------------------
(***************************************************************************)
(* One processing list is processed right, for any number of things: what  *)
(* fire() has passed was processed once, what it has not reached was not.  *)
(* With more lists than one, or with things that leave and are killed as   *)
(* well, the same is false; that lists and marks agree is true of all.     *)
(***************************************************************************)
EXTENDS Processing, SequenceTheorems, TLAPS

OneList == Len(Lists) = 1 /\ Unwrapped = {} /\ DoubleKill = FALSE

list == lists[Lists[1]]

\* Facts about a sequence s, an index pos and the counts cnt.
NoDup(s) == \A i, j \in 1..Len(s) : s[i] = s[j] => i = j
Done(s, pos, cnt) == \A i \in 1..Len(s) : cnt[s[i]] = IF i < pos THEN 1 ELSE 0
Has(s, x) == \E i \in 1..Len(s) : s[i] = x
Moved(i, pos) == IF i < pos THEN pos - 1 ELSE pos

Types ==
    /\ lists \in [ListNames -> Seq(Things)]
    /\ is_processing \in [Things -> BOOLEAN]
    /\ state \in {"idle", "running", "paused"}
    /\ current_step = 1
    /\ thing \in Things \cup {NoThing}
    /\ stopped \in BOOLEAN
    /\ seen \in [Things -> 0..2]

Content ==
    /\ NoDup(list)
    /\ \A x \in Things : is_processing[x] <=> Has(list, x)

\* While fire() is on or paused the index is in the list or just behind it; in a
\* Process() it is one past the thing that is processed, unless that has left.
Position ==
    /\ state # "idle" => /\ nextProcessingListPosition \in 1..Len(list) + 1
                         /\ Done(list, nextProcessingListPosition, seen)
    /\ state = "idle" => nextProcessingListPosition = 0
    /\ thing # NoThing => state = "running"
    /\ (thing # NoThing /\ ~stopped) =>
         /\ nextProcessingListPosition > 1
         /\ list[nextProcessingListPosition - 1] = thing

IInv == Types /\ Content /\ Position
----------------------------------------------------------------------------
(* Sequences *)

\* What taking an element out does to the others.
LEMMA RemoveAtIs ==
    ASSUME NEW S, NEW s \in Seq(S), NEW i \in 1..Len(s)
    PROVE  /\ RemoveAt(s, i) \in Seq(S)
           /\ Len(RemoveAt(s, i)) = Len(s) - 1
           /\ \A j \in 1..Len(s) - 1 :
                RemoveAt(s, i)[j] = IF j < i THEN s[j] ELSE s[j + 1]
<1> DEFINE left == SubSeq(s, 1, i - 1)
           right == SubSeq(s, i + 1, Len(s))
<1>1. left \in Seq(S) /\ Len(left) = i - 1 /\ \A j \in 1..i - 1 : left[j] = s[j]
  OBVIOUS
<1>2. /\ right \in Seq(S) /\ Len(right) = Len(s) - i
      /\ \A j \in 1..Len(s) - i : right[j] = s[j + i]
  OBVIOUS
<1>3. RemoveAt(s, i) = left \o right BY DEF RemoveAt
<1> HIDE DEF left, right
<1>4. Len(s) \in Nat OBVIOUS
<1>5. /\ left \o right \in Seq(S)
      /\ Len(left \o right) = Len(left) + Len(right)
      /\ \A j \in 1..Len(left) + Len(right) :
           (left \o right)[j] = IF j <= Len(left) THEN left[j] ELSE right[j - Len(left)]
  BY <1>1, <1>2, ConcatProperties
<1>6. Len(left) + Len(right) = Len(s) - 1 BY <1>1, <1>2, <1>4
<1>7. ASSUME NEW j \in 1..Len(s) - 1
      PROVE  (left \o right)[j] = IF j < i THEN s[j] ELSE s[j + 1]
  <2>1. CASE j < i
    <3>1. j \in 1..i - 1 /\ j <= Len(left) BY <1>1, <2>1
    <3>2. QED BY <1>1, <1>5, <1>6, <2>1, <3>1
  <2>2. CASE ~(j < i)
    <3>1. j - (i - 1) \in 1..Len(s) - i /\ ~(j <= Len(left)) BY <1>1, <1>4, <2>2
    <3>2. (left \o right)[j] = right[j - (i - 1)] BY <1>1, <1>5, <1>6, <3>1
    <3>3. right[j - (i - 1)] = s[(j - (i - 1)) + i] BY <1>2, <3>1
    <3>4. (j - (i - 1)) + i = j + 1 BY <2>2
    <3>5. right[j - (i - 1)] = s[j + 1] BY ONLY <3>3, <3>4, Zenon
    <3>6. QED BY ONLY <2>2, <3>2, <3>5, Zenon
  <2>3. QED BY <2>1, <2>2
<1>8. QED BY <1>3, <1>5, <1>6, <1>7

\* An element leaves a list with distinct elements: the index that moves with it
\* still separates what is done from what is not.
LEMMA Removal ==
    ASSUME NEW s \in Seq(Things), NEW i \in 1..Len(s), NoDup(s)
    PROVE  /\ RemoveAt(s, i) \in Seq(Things)
           /\ NoDup(RemoveAt(s, i))
           /\ \A x \in Things : Has(RemoveAt(s, i), x) <=> (x # s[i] /\ Has(s, x))
           /\ \A pos \in 1..Len(s) + 1, cnt \in [Things -> 0..2] :
                Done(s, pos, cnt) =>
                  /\ Moved(i, pos) \in 1..Len(RemoveAt(s, i)) + 1
                  /\ Done(RemoveAt(s, i), Moved(i, pos), cnt)
<1> DEFINE t == RemoveAt(s, i)
<1>1. /\ t \in Seq(Things) /\ Len(t) = Len(s) - 1
      /\ \A j \in 1..Len(s) - 1 : t[j] = IF j < i THEN s[j] ELSE s[j + 1]
  BY RemoveAtIs
<1> HIDE DEF t
<1>2. NoDup(t) BY <1>1 DEF NoDup
<1>3. ASSUME NEW x \in Things PROVE Has(t, x) <=> (x # s[i] /\ Has(s, x))
  <2>1. ASSUME Has(t, x) PROVE x # s[i] /\ Has(s, x)
    BY <1>1, <2>1 DEF Has, NoDup
  <2>2. ASSUME x # s[i], Has(s, x) PROVE Has(t, x)
    <3>1. PICK k \in 1..Len(s) : s[k] = x BY <2>2 DEF Has
    <3>2. CASE k < i
      <4>1. k \in 1..Len(t) /\ t[k] = x BY <1>1, <3>1, <3>2
      <4>2. QED BY <4>1 DEF Has
    <3>3. CASE k > i
      <4>1. k - 1 \in 1..Len(t) /\ t[k - 1] = x BY <1>1, <3>1, <3>3
      <4>2. QED BY <4>1 DEF Has
    <3>4. QED BY <2>2, <3>1, <3>2, <3>3
  <2>3. QED BY <2>1, <2>2
<1>4. ASSUME NEW pos \in 1..Len(s) + 1, NEW cnt \in [Things -> 0..2], Done(s, pos, cnt)
      PROVE  Moved(i, pos) \in 1..Len(t) + 1 /\ Done(t, Moved(i, pos), cnt)
  <2>1. Moved(i, pos) \in 1..Len(t) + 1 BY <1>1 DEF Moved
  <2>2. ASSUME NEW j \in 1..Len(t)
        PROVE  cnt[t[j]] = IF j < Moved(i, pos) THEN 1 ELSE 0
    <3>1. CASE j < i BY <1>1, <1>4, <3>1 DEF Moved, Done
    <3>2. CASE j >= i BY <1>1, <1>4, <3>2 DEF Moved, Done
    <3>3. QED BY <1>1, <3>1, <3>2
  <2>3. QED BY <2>1, <2>2 DEF Done
<1>5. QED BY <1>1, <1>2, <1>3, <1>4 DEF t
----------------------------------------------------------------------------
(* One list *)

LEMMA TheList ==
    ASSUME OneList, IInv
    PROVE  /\ ListNames = {Lists[1]}
           /\ list \in Seq(Things)
           /\ local_list = list
           /\ \A x \in Things : home[x] = Lists[1]
<1>1. ListNames = {Lists[1]} BY DEF OneList, ListNames
<1>2. QED BY <1>1, ListAssumption DEF IInv, Types, list, local_list

LEMMA Initially == OneList => (Init => IInv)
<1> SUFFICES ASSUME OneList, Init PROVE IInv OBVIOUS
<1>1. ListNames = {Lists[1]} BY DEF OneList, ListNames
<1>2. list = <<>> BY <1>1 DEF Init, list
<1>3. Types
  <2>1. lists \in [ListNames -> Seq(Things)]
    <3>1. lists = [l \in ListNames |-> <<>>] BY DEF Init
    <3>2. <<>> \in Seq(Things) OBVIOUS
    <3>3. QED BY <3>1, <3>2
  <2>2. seen \in [Things -> 0..2] BY DEF Init
  <2>3. QED BY <2>1, <2>2 DEF Init, Types
<1>4. Content BY <1>2 DEF Init, Content, NoDup, Has
<1>5. Position BY DEF Init, Position
<1>6. QED BY <1>3, <1>4, <1>5 DEF IInv

\* x leaves the list and the index moves with it.  It is not, or no longer, the
\* thing in Process(), or it is from now on one that has left.
LEMMA Leaves ==
    ASSUME OneList, IInv, NEW x \in Things, Has(list, x), TakeOut(x),
           state # "idle" =>
             \A i \in 1..Len(list) : list[i] = x =>
               nextProcessingListPosition' = Moved(i, nextProcessingListPosition),
           state = "idle" => nextProcessingListPosition' = 0,
           state' \in {"idle", "running", "paused"},
           (state' = "idle") <=> (state = "idle"),
           current_step' = current_step, seen' = seen,
           \/ thing' = NoThing /\ stopped' = stopped
           \/ thing' = thing /\ state' = state /\ stopped' = (stopped \/ x = thing)
    PROVE  IInv'
<1>1. /\ ListNames = {Lists[1]} /\ list \in Seq(Things)
      /\ home[x] = Lists[1]
  BY TheList
<1>2. lists[home[x]] = list BY <1>1 DEF list
<1> DEFINE i == Index(x)
<1>3. i \in 1..Len(list) /\ list[i] = x
  BY <1>2 DEF Index, Has
<1>4. Listed(x) BY <1>2 DEF Listed, Has
<1>5. list' = RemoveAt(list, i) /\ lists' \in [ListNames -> Seq(Things)]
  <2>1. lists' = [lists EXCEPT ![Lists[1]] = RemoveAt(lists[Lists[1]], i)]
    BY <1>1, <1>4 DEF TakeOut
  <2>2. lists \in [ListNames -> Seq(Things)] BY DEF IInv, Types
  <2>3. RemoveAt(list, i) \in Seq(Things) BY <1>1, <1>3, RemoveAtIs
  <2>4. QED BY <1>1, <2>1, <2>2, <2>3 DEF list
<1> HIDE DEF i
<1>6. NoDup(list) BY DEF IInv, Content
<1>7. /\ list' \in Seq(Things) /\ NoDup(list')
      /\ \A y \in Things : Has(list', y) <=> (y # x /\ Has(list, y))
      /\ \A pos \in 1..Len(list) + 1, cnt \in [Things -> 0..2] :
           Done(list, pos, cnt) =>
             Moved(i, pos) \in 1..Len(list') + 1 /\ Done(list', Moved(i, pos), cnt)
  BY <1>1, <1>3, <1>5, <1>6, Removal
<1>8. Types'
  BY <1>5 DEF IInv, Types, TakeOut
<1>9. Content'
  <2>1. is_processing' = [is_processing EXCEPT ![x] = FALSE] BY DEF TakeOut
  <2>2. NoDup(list)' BY <1>7 DEF NoDup
  <2>3. ASSUME NEW y \in Things PROVE is_processing'[y] <=> Has(list, y)'
    BY <1>7, <2>1, <2>3 DEF Has, IInv, Types, Content
  <2>4. QED BY <2>2, <2>3 DEF Content
<1>10. Position'
  <2>1. CASE state = "idle"
    <3>1. thing = NoThing BY <2>1 DEF IInv, Position
    <3>2. thing' = NoThing BY <3>1
    <3>3. QED BY <2>1, <3>2 DEF Position
  <2>2. CASE state # "idle"
    <3> DEFINE p == nextProcessingListPosition
    <3>1. p \in 1..Len(list) + 1 /\ Done(list, p, seen) /\ seen \in [Things -> 0..2]
      BY <2>2 DEF IInv, Position, Types
    <3>2. p' = Moved(i, p) BY <1>3, <2>2
    <3>3. p' \in 1..Len(list') + 1 /\ Done(list', p', seen)
      BY <1>7, <3>1, <3>2
    <3>4. Done(list, p, seen)' BY <3>3 DEF Done
    <3>5. ASSUME thing' # NoThing
          PROVE  /\ state' = "running"
                 /\ ~stopped' => (p' > 1 /\ list'[p' - 1] = thing')
      <4>1. thing' = thing /\ state' = state /\ stopped' = (stopped \/ x = thing)
        BY <3>5
      <4>2. state = "running" BY <3>5, <4>1 DEF IInv, Position
      <4>3. ASSUME ~stopped' PROVE p' > 1 /\ list'[p' - 1] = thing
        <5>1. ~stopped /\ x # thing /\ stopped \in BOOLEAN BY <4>1, <4>3 DEF IInv, Types
        <5>2. p > 1 /\ list[p - 1] = thing BY <3>5, <4>1, <5>1 DEF IInv, Position
        <5>3. i # p - 1 BY <1>3, <5>1, <5>2
        <5>4. /\ Len(list') = Len(list) - 1
              /\ \A j \in 1..Len(list) - 1 :
                   list'[j] = IF j < i THEN list[j] ELSE list[j + 1]
          BY <1>1, <1>3, <1>5, RemoveAtIs
        <5>5. CASE i < p - 1
          <6>1. p' = p - 1 BY <3>1, <3>2, <1>3, <5>5 DEF Moved
          <6>2. p' - 1 \in 1..Len(list) - 1 /\ p' - 1 >= i
            BY <6>1, <3>1, <1>3, <5>5, <1>1
          <6>3. list'[p' - 1] = list[p - 1] BY <5>4, <6>1, <6>2, <3>1, <1>3, <1>1
          <6>4. QED BY <6>2, <6>3, <5>2, <1>3, <3>1, <6>1
        <5>6. CASE i > p - 1
          <6>1. p' = p BY <3>1, <3>2, <1>3, <5>6 DEF Moved
          <6>2. p - 1 \in 1..Len(list) - 1 /\ p - 1 < i
            BY <3>1, <1>3, <5>6, <5>2, <1>1
          <6>3. list'[p - 1] = list[p - 1] BY <5>4, <6>2
          <6>4. QED BY <6>1, <6>3, <5>2
        <5>7. QED BY <5>3, <5>5, <5>6, <1>3, <3>1
      <4>4. QED BY <4>1, <4>2, <4>3
    <3>6. QED BY <2>2, <3>3, <3>4, <3>5 DEF Position
  <2>3. QED BY <2>1, <2>2
<1>11. QED BY <1>8, <1>9, <1>10 DEF IInv
----------------------------------------------------------------------------
(* One lemma for each step of fire() and of the game *)

LEMMA StartKeeps ==
    ASSUME OneList, IInv, NEW x \in Things, START_PROCESSING(x) PROVE IInv'
<1> DEFINE p == nextProcessingListPosition
<1>1. /\ ListNames = {Lists[1]} /\ list \in Seq(Things) /\ home[x] = Lists[1]
  BY TheList
<1>2. /\ ~is_processing[x]
      /\ lists' = [lists EXCEPT ![home[x]] = Append(@, x)]
      /\ is_processing' = [is_processing EXCEPT ![x] = TRUE]
      /\ seen' = [seen EXCEPT ![x] = 0]
      /\ UNCHANGED <<state, current_step, p, thing, stopped>>
  BY DEF START_PROCESSING, fireVars
<1>3. list' = Append(list, x) /\ lists' \in [ListNames -> Seq(Things)]
  <2>1. lists \in [ListNames -> Seq(Things)] BY DEF IInv, Types
  <2>2. Append(list, x) \in Seq(Things) BY <1>1
  <2>3. lists' = [lists EXCEPT ![Lists[1]] = Append(list, x)] BY <1>1, <1>2 DEF list
  <2>4. QED BY <1>1, <2>1, <2>2, <2>3 DEF list
<1>4. /\ list' \in Seq(Things) /\ Len(list') = Len(list) + 1
      /\ \A j \in 1..Len(list) : list'[j] = list[j]
      /\ list'[Len(list) + 1] = x
  BY <1>1, <1>3
<1>5. Len(list) \in Nat BY <1>1
<1>6. ~Has(list, x) /\ NoDup(list) BY <1>2 DEF IInv, Content
<1>7. Types' BY <1>2, <1>3 DEF IInv, Types
<1>8. Content'
  <2>1. NoDup(list)' BY <1>4, <1>5, <1>6 DEF NoDup, Has
  <2>2. ASSUME NEW y \in Things PROVE is_processing'[y] <=> Has(list, y)'
    <3>1. is_processing[y] <=> Has(list, y) BY DEF IInv, Content
    <3>2. Has(list, y)' <=> (y = x \/ Has(list, y)) BY <1>4, <1>5 DEF Has
    <3>3. is_processing'[y] <=> (y = x \/ is_processing[y]) BY <1>2 DEF IInv, Types
    <3>4. QED BY <3>1, <3>2, <3>3
  <2>3. QED BY <2>1, <2>2 DEF Content
<1>9. Position'
  <2>1. ASSUME state # "idle"
        PROVE  p' \in 1..Len(list') + 1 /\ Done(list, p, seen)'
    <3>1. p \in 1..Len(list) + 1 /\ Done(list, p, seen) BY <2>1 DEF IInv, Position
    <3>2. \A j \in 1..Len(list) : seen'[list[j]] = seen[list[j]]
      BY <1>1, <1>2, <1>6 DEF Has, IInv, Types
    <3>3. seen'[x] = 0 BY <1>2 DEF IInv, Types
    <3>4. QED BY <1>2, <1>4, <1>5, <3>1, <3>2, <3>3 DEF Done
  <2>2. ASSUME thing # NoThing, ~stopped
        PROVE  p' > 1 /\ list'[p' - 1] = thing
    <3>1. p > 1 /\ list[p - 1] = thing /\ state # "idle" /\ p \in 1..Len(list) + 1
      BY <2>2 DEF IInv, Position
    <3>2. p - 1 \in 1..Len(list) BY <1>5, <3>1
    <3>3. QED BY <1>2, <1>4, <3>1, <3>2
  <2>3. (state = "idle" => p = 0) /\ (thing # NoThing => state = "running")
    BY DEF IInv, Position
  <2>4. QED BY <1>2, <2>1, <2>2, <2>3 DEF Position
<1>10. QED BY <1>7, <1>8, <1>9 DEF IInv

LEMMA StopKeeps ==
    ASSUME OneList, IInv, NEW x \in Things, STOP_PROCESSING(x) PROVE IInv'
<1> DEFINE p == nextProcessingListPosition
<1>1. list \in Seq(Things) /\ home[x] = Lists[1] BY TheList
<1>2. Has(list, x) BY DEF STOP_PROCESSING, IInv, Content
<1>3. lists[home[x]] = list BY <1>1 DEF list
<1>4. Index(x) \in 1..Len(list) /\ list[Index(x)] = x /\ Listed(x)
  BY <1>2, <1>3 DEF Index, Has, Listed
<1>5. \A i \in 1..Len(list) : list[i] = x => i = Index(x)
  BY <1>4 DEF IInv, Content, NoDup
<1>6. p' = IF p # 0 /\ Index(x) < p THEN p - 1 ELSE p
  BY <1>4 DEF STOP_PROCESSING, stopProcessingWrapper
<1>7. ASSUME state # "idle", NEW i \in 1..Len(list), list[i] = x PROVE p' = Moved(i, p)
  <2>1. p \in 1..Len(list) + 1 BY <1>7 DEF IInv, Position
  <2>2. i = Index(x) BY <1>5, <1>7
  <2>3. p # 0 BY <2>1
  <2>4. QED BY <1>6, <2>2, <2>3 DEF Moved
<1>8. state = "idle" => p' = 0
  BY <1>6 DEF IInv, Position
<1>9. /\ TakeOut(x) /\ state' = state /\ current_step' = current_step
      /\ thing' = thing /\ seen' = seen /\ stopped' = (stopped \/ x = thing)
  BY DEF STOP_PROCESSING
<1>10. state' \in {"idle", "running", "paused"} BY <1>9 DEF IInv, Types
<1>11. QED BY <1>2, <1>7, <1>8, <1>9, <1>10, Leaves

\* The next thing, deleted, leaves and the one behind it takes its place.
LEMMA DiscardKeeps == ASSUME OneList, IInv, Discard PROVE IInv'
<1> DEFINE p == nextProcessingListPosition
           x == list[p]
<1>1. list \in Seq(Things) /\ local_list = list BY TheList
<1>2. p \in 1..Len(list) BY <1>1 DEF Discard, InList
<1>3. x \in Things /\ Has(list, x) BY <1>1, <1>2 DEF Has
<1>4. /\ TakeOut(x) /\ state = "running" /\ thing = NoThing
      /\ state' \in {"running", "paused"} /\ p' = p
      /\ UNCHANGED <<current_step, thing, stopped, seen>>
  BY <1>1 DEF Discard, Between, TickCheck
<1>5. ASSUME NEW i \in 1..Len(list), list[i] = x PROVE p' = Moved(i, p)
  <2>1. i = p BY <1>2, <1>5 DEF IInv, Content, NoDup
  <2>2. ~(i < p) BY <1>2, <2>1
  <2>3. QED BY <1>4, <2>2 DEF Moved
<1> HIDE DEF x
<1>6. QED BY <1>3, <1>4, <1>5, Leaves

\* The thing in Process() leaves: it is the one before the index.
LEMMA KillKeeps == ASSUME OneList, IInv, ReturnKill PROVE IInv'
<1> DEFINE p == nextProcessingListPosition
<1>1. list \in Seq(Things) BY TheList
<1>2. thing \in Things /\ ~stopped /\ state = "running"
  BY DEF ReturnKill, OneList, IInv, Types, Position
<1>3. p > 1 /\ list[p - 1] = thing /\ p \in 1..Len(list) + 1
  BY <1>2 DEF ReturnKill, IInv, Position
<1>4. p - 1 \in 1..Len(list) BY <1>1, <1>3
<1>5. Has(list, thing) BY <1>3, <1>4 DEF Has
<1>6. /\ TakeOut(thing) /\ p' = p - 1 /\ thing' = NoThing
      /\ state' \in {"running", "paused"}
      /\ UNCHANGED <<current_step, stopped, seen>>
  BY DEF ReturnKill, TickCheck
<1>7. ASSUME NEW i \in 1..Len(list), list[i] = thing PROVE p' = Moved(i, p)
  <2>1. i = p - 1 BY <1>3, <1>4, <1>7 DEF IInv, Content, NoDup
  <2>2. i < p BY <1>3, <2>1
  <2>3. QED BY <1>6, <2>2 DEF Moved
<1>8. QED BY <1>2, <1>5, <1>6, <1>7, Leaves

LEMMA VisitKeeps == ASSUME OneList, IInv, Visit PROVE IInv'
<1> DEFINE p == nextProcessingListPosition
           x == list[p]
<1>1. list \in Seq(Things) /\ local_list = list BY TheList
<1>2. p \in 1..Len(list) /\ state = "running" BY <1>1 DEF Visit, InList, Between
<1>3. x \in Things BY <1>1, <1>2
<1>4. /\ thing' = x /\ p' = p + 1 /\ stopped' = FALSE
      /\ seen' = [seen EXCEPT ![x] = IF @ = 2 THEN 2 ELSE @ + 1]
      /\ UNCHANGED <<lists, is_processing, state, current_step>>
  BY <1>1 DEF Visit, contentVars
<1>5. list' = list BY <1>4 DEF list
<1>6. Done(list, p, seen) BY <1>2 DEF IInv, Position
<1>7. seen[x] = 0 BY <1>2, <1>6 DEF Done
<1>8. /\ seen' \in [Things -> 0..2] /\ seen'[x] = 1
      /\ \A y \in Things : y # x => seen'[y] = seen[y]
  BY <1>3, <1>4, <1>7 DEF IInv, Types
<1>9. Types' BY <1>3, <1>4, <1>8 DEF IInv, Types
<1>10. Content' BY <1>4, <1>5 DEF IInv, Content, NoDup, Has
<1>11. Done(list, p + 1, seen')
  <2> SUFFICES ASSUME NEW i \in 1..Len(list)
               PROVE  seen'[list[i]] = IF i < p + 1 THEN 1 ELSE 0
    BY DEF Done
  <2>1. list[i] \in Things BY <1>1
  <2>2. CASE i = p
    <3>1. i < p + 1 BY <1>2, <2>2
    <3>2. QED BY <1>8, <2>2, <3>1
  <2>3. CASE i # p
    <3>1. list[i] # x BY <1>2, <2>3 DEF IInv, Content, NoDup
    <3>2. i < p + 1 <=> i < p BY <1>2, <2>3
    <3>3. QED BY <1>6, <1>8, <2>1, <3>1, <3>2 DEF Done
  <2>4. QED BY <2>2, <2>3
<1>12. Position'
  <2>1. Done(list, p, seen)' BY <1>4, <1>5, <1>11 DEF Done
  <2>2. p' \in 1..Len(list') + 1 /\ p' > 1 /\ p' - 1 = p BY <1>1, <1>2, <1>4, <1>5
  <2>3. list'[p' - 1] = thing' BY <1>4, <1>5, <2>2
  <2> HIDE DEF x
  <2>4. QED BY <1>2, <1>4, <2>1, <2>2, <2>3 DEF Position
<1>13. QED BY <1>9, <1>10, <1>12 DEF IInv

\* Steps that leave the list and the counts alone.
LEMMA QuietKeeps ==
    ASSUME OneList, IInv, UNCHANGED <<lists, is_processing>>,
           Fire \/ Resume \/ Return \/ EndList \/ (\E x \in Things : qdel(x)) \/ UNCHANGED vars
    PROVE  IInv'
<1> DEFINE p == nextProcessingListPosition
<1>1. /\ list' = list /\ list \in Seq(Things) /\ Len(list) \in Nat
  BY TheList DEF list
<1>2. Content' BY <1>1 DEF IInv, Content, NoDup, Has
<1>3. CASE Fire
  <2>1. /\ state = "idle" /\ state' = "running" /\ current_step' = 1 /\ p' = 1
        /\ seen' = [x \in Things |-> 0] /\ thing' = thing /\ stopped' = stopped
    BY <1>3 DEF Fire
  <2>2. thing' = NoThing BY <2>1 DEF IInv, Position
  <2>3. Types' BY <2>1 DEF IInv, Types
  <2>4. Done(list, p, seen)' BY <1>1, <2>1 DEF Done
  <2>5. Position' BY <1>1, <2>1, <2>2, <2>4 DEF Position
  <2>6. QED BY <1>2, <2>3, <2>5 DEF IInv
<1>4. CASE Resume \/ Return
  <2>1. /\ state # "idle" /\ state' \in {"running", "paused"} /\ thing' = NoThing
        /\ UNCHANGED <<current_step, p, stopped, seen>>
    BY <1>4 DEF Resume, Return, TickCheck, IInv, Position
  <2>2. Types' BY <2>1 DEF IInv, Types
  <2>3. Done(list, p, seen)' BY <1>1, <2>1 DEF Done, IInv, Position
  <2>4. Position' BY <1>1, <2>1, <2>3 DEF IInv, Position
  <2>5. QED BY <1>2, <2>2, <2>4 DEF IInv
<1>5. CASE EndList
  <2>1. current_step = Len(Lists) BY DEF OneList, IInv, Types
  <2>2. /\ state' = "idle" /\ current_step' = 1 /\ p' = 0 /\ thing' = thing
        /\ thing = NoThing /\ stopped' = stopped /\ seen' = seen
    BY <1>5, <2>1 DEF EndList, Between
  <2>3. Types' BY <2>2 DEF IInv, Types
  <2>4. Position' BY <2>2 DEF Position
  <2>5. QED BY <1>2, <2>3, <2>4 DEF IInv
<1>6. CASE (\E x \in Things : qdel(x)) \/ UNCHANGED vars
  <2>1. UNCHANGED <<state, current_step, p, thing, stopped, seen>>
    BY <1>6 DEF qdel, vars, fireVars
  <2>2. Types' BY <2>1 DEF IInv, Types
  <2>3. Position' BY <1>1, <2>1 DEF IInv, Position, Done
  <2>4. QED BY <1>2, <2>2, <2>3 DEF IInv
<1>7. QED BY <1>3, <1>4, <1>5, <1>6

LEMMA StepKeeps == ASSUME OneList, IInv, [Next]_vars PROVE IInv'
<1>1. CASE Fire \/ Resume \/ Return \/ EndList \/ UNCHANGED vars
  <2>1. UNCHANGED <<lists, is_processing>>
    BY <1>1 DEF Fire, Resume, Return, EndList, vars, contentVars
  <2>2. QED BY <1>1, <2>1, QuietKeeps
<1>2. CASE Visit BY <1>2, VisitKeeps
<1>3. CASE Discard BY <1>3, DiscardKeeps
<1>4. CASE ReturnKill BY <1>4, KillKeeps
<1>5. ASSUME NEW x \in Things,
             \/ START_PROCESSING(x) \/ STOP_PROCESSING(x) \/ qdel(x)
             \/ NewPowernet(x) \/ DestroyPowernet(x)
      PROVE  IInv'
  <2>1. CASE START_PROCESSING(x) BY <2>1, StartKeeps
  <2>2. CASE STOP_PROCESSING(x) BY <2>2, StopKeeps
  <2>3. CASE NewPowernet(x) \/ DestroyPowernet(x)
    BY <2>3 DEF NewPowernet, DestroyPowernet, OneList
  <2>4. CASE qdel(x)
    <3>1. UNCHANGED <<lists, is_processing>> BY <2>4 DEF qdel
    <3>2. QED BY <2>4, <3>1, QuietKeeps
  <2>5. QED BY <1>5, <2>1, <2>2, <2>3, <2>4
<1>6. QED BY <1>1, <1>2, <1>3, <1>4, <1>5 DEF Next, Subsystem, Game

\* The index is behind the list when the pass ends, and all to its left is done.
LEMMA AllDone ==
    ASSUME OneList, IInv, EndList
    PROVE  \A i \in 1..Len(local_list) : seen[local_list[i]] = 1
<1>1. local_list = list /\ list \in Seq(Things) BY TheList
<1>2. state = "running" /\ nextProcessingListPosition \notin 1..Len(list)
  BY <1>1 DEF EndList, Between, InList
<1>3. /\ nextProcessingListPosition \in 1..Len(list) + 1
      /\ Done(list, nextProcessingListPosition, seen)
  BY <1>2 DEF IInv, Position
<1>4. nextProcessingListPosition = Len(list) + 1 BY <1>1, <1>2, <1>3
<1>5. QED BY <1>1, <1>3, <1>4 DEF Done
----------------------------------------------------------------------------
\* In a pass over one list whose things leave only through the wrapper, the left of
\* nextProcessingListPosition is done and the right is not (processing.dm).
THEOREM LeftIsDoneHolds == OneList => (Spec => []LeftIsDone)
<1> SUFFICES ASSUME OneList PROVE Spec => []LeftIsDone OBVIOUS
<1>1. Init => IInv BY Initially
<1>2. IInv /\ [Next]_vars => IInv' BY StepKeeps
<1>3. IInv => LeftIsDone
  <2> SUFFICES ASSUME IInv, state # "idle"
               PROVE  \A i \in 1..Len(local_list) :
                        seen[local_list[i]] =
                          IF i < nextProcessingListPosition THEN 1 ELSE 0
    BY DEF LeftIsDone
  <2>1. local_list = list BY TheList
  <2>2. QED BY <2>1 DEF IInv, Position, Done
<1>4. QED BY <1>1, <1>2, <1>3, PTL DEF Spec

\* Every thing in the list when a pass ends was processed in it exactly once since
\* the pass began or it came, whoever left or came in the meantime (processing.dm).
THEOREM ProcessedOnceHolds == OneList => (Spec => ProcessedOnce)
<1> SUFFICES ASSUME OneList PROVE Spec => ProcessedOnce OBVIOUS
<1>1. Init => IInv BY Initially
<1>2. IInv /\ [Next]_vars => IInv' BY StepKeeps
<1>3. IInv => [EndList => \A i \in 1..Len(local_list) : seen[local_list[i]] = 1]_vars
  BY AllDone
<1>4. QED BY <1>1, <1>2, <1>3, PTL DEF Spec, ProcessedOnce
----------------------------------------------------------------------------
(* Any lists: what is in them and how it is marked *)

\* In a Process() the index has passed something, whatever list it is of.
Passed == thing # NoThing => nextProcessingListPosition >= 1

ContentInv == TypeOK /\ ListsAgree /\ Passed

HomeList(x) == lists[home[x]]

LEMMA HomeIs ==
    ASSUME TypeOK, NEW x \in Things
    PROVE  /\ home[x] \in ListNames /\ HomeList(x) \in Seq(Things) /\ Len(HomeList(x)) \in Nat
           /\ Listed(x) <=> Has(HomeList(x), x)
           /\ Listed(x) => Index(x) \in 1..Len(HomeList(x)) /\ HomeList(x)[Index(x)] = x
<1>1. home[x] \in ListNames BY ListAssumption
<1>2. HomeList(x) \in Seq(Things) BY <1>1 DEF TypeOK, HomeList
<1>3. Len(HomeList(x)) \in Nat BY <1>2
<1>4. Listed(x) <=> Has(HomeList(x), x) BY DEF Listed, Has, HomeList
<1>5. Listed(x) => Index(x) \in 1..Len(HomeList(x)) /\ HomeList(x)[Index(x)] = x
  BY DEF Listed, Index, HomeList
<1> QED BY <1>1, <1>2, <1>3, <1>4, <1>5

\* The list the subsystem goes through is one of them.
LEMMA LocalListIs == TypeOK => local_list \in Seq(Things) /\ Lists[current_step] \in ListNames
<1> SUFFICES ASSUME TypeOK PROVE local_list \in Seq(Things) /\ Lists[current_step] \in ListNames
  OBVIOUS
<1>1. Lists[current_step] \in ListNames BY DEF TypeOK, ListNames
<1> QED BY <1>1 DEF TypeOK, local_list

\* Taking a thing out leaves the lists and the marks in agreement.
LEMMA TakeOutAgrees ==
    ASSUME ContentInv, NEW x \in Things, TakeOut(x)
    PROVE  /\ lists' \in [ListNames -> Seq(Things)] /\ is_processing' \in [Things -> BOOLEAN]
           /\ deleted' \subseteq Things /\ ListsAgree'
<1>1. lists \in [ListNames -> Seq(Things)] /\ is_processing \in [Things -> BOOLEAN]
      /\ deleted \subseteq Things /\ TypeOK
  BY DEF ContentInv, TypeOK
<1>2. is_processing' = [is_processing EXCEPT ![x] = FALSE] /\ deleted' = deleted \ {x} BY DEF TakeOut
<1>3. is_processing' \in [Things -> BOOLEAN] /\ deleted' \subseteq Things BY <1>1, <1>2
<1>4. /\ home[x] \in ListNames /\ HomeList(x) \in Seq(Things)
      /\ Listed(x) <=> Has(HomeList(x), x)
      /\ Listed(x) => Index(x) \in 1..Len(HomeList(x)) /\ HomeList(x)[Index(x)] = x
  BY <1>1, HomeIs
<1>5. \A l \in ListNames : NoDup(lists[l]) BY DEF ContentInv, ListsAgree, NoDup
<1>6. CASE ~Listed(x)
  <2>1. lists' = lists BY <1>6 DEF TakeOut
  <2>2. \A y \in Things : is_processing'[y] <=> (is_processing[y] /\ y # x) BY <1>1, <1>2
  <2>3. \A y \in Things : Listed(y)' <=> Listed(y) BY <2>1 DEF Listed
  <2>4. ListsAgree' BY <1>6, <2>1, <2>2, <2>3 DEF ContentInv, ListsAgree
  <2> QED BY <1>1, <1>3, <2>1, <2>4
<1>7. CASE Listed(x)
  <2> DEFINE rest == RemoveAt(HomeList(x), Index(x))
  <2>1. lists' = [lists EXCEPT ![home[x]] = rest] BY <1>7 DEF TakeOut, HomeList
  <2>2. /\ rest \in Seq(Things) /\ NoDup(rest)
        /\ \A y \in Things : Has(rest, y) <=> (y # x /\ Has(HomeList(x), y))
    <3>1. NoDup(HomeList(x)) BY <1>4, <1>5 DEF HomeList
    <3> QED BY <1>4, <1>7, <3>1, Removal
  <2> HIDE DEF rest
  <2>3. lists' \in [ListNames -> Seq(Things)] BY <1>1, <2>1, <2>2
  <2>4. lists'[home[x]] = rest /\ \A l \in ListNames : l # home[x] => lists'[l] = lists[l]
    BY <1>1, <1>4, <2>1
  <2>5. \A l \in ListNames : NoDup(lists'[l]) BY <1>5, <2>2, <2>4
  <2>6. ASSUME NEW y \in Things PROVE Listed(y)' <=> (y # x /\ Listed(y))
    <3>1. Listed(y)' <=> Has(lists'[home[y]], y) BY DEF Listed, Has
    <3>2. Listed(y) <=> Has(lists[home[y]], y) BY DEF Listed, Has
    <3>3. home[y] \in ListNames BY ListAssumption
    <3>4. CASE home[y] = home[x] BY <2>2, <2>4, <3>1, <3>2, <3>4 DEF HomeList
    <3>5. CASE home[y] # home[x] BY <2>4, <3>1, <3>2, <3>3, <3>5
    <3> QED BY <3>4, <3>5
  <2>7. \A y \in Things : is_processing'[y] <=> (is_processing[y] /\ y # x) BY <1>1, <1>2
  <2>8. \A y \in Things : home[y] \notin Unwrapped => (is_processing[y] <=> Listed(y))
    BY DEF ContentInv, ListsAgree
  <2>9. ListsAgree' BY <2>5, <2>6, <2>7, <2>8 DEF ListsAgree, NoDup
  <2> QED BY <1>3, <2>3, <2>9
<1> QED BY <1>6, <1>7

\* A thing that was not in its list is put at the end.
LEMMA AppendAgrees ==
    ASSUME ContentInv, NEW x \in Things, ~Listed(x),
           lists' = [lists EXCEPT ![home[x]] = Append(@, x)],
           \/ is_processing' = [is_processing EXCEPT ![x] = TRUE]
           \/ is_processing' = is_processing /\ home[x] \in Unwrapped
    PROVE  lists' \in [ListNames -> Seq(Things)] /\ is_processing' \in [Things -> BOOLEAN] /\ ListsAgree'
<1>1. lists \in [ListNames -> Seq(Things)] /\ is_processing \in [Things -> BOOLEAN] /\ TypeOK
  BY DEF ContentInv, TypeOK
<1>2. /\ home[x] \in ListNames /\ HomeList(x) \in Seq(Things) /\ Len(HomeList(x)) \in Nat
      /\ ~Has(HomeList(x), x)
  BY <1>1, HomeIs
<1>3. \A l \in ListNames : NoDup(lists[l]) BY DEF ContentInv, ListsAgree, NoDup
<1> DEFINE more == Append(HomeList(x), x)
<1>4. /\ more \in Seq(Things) /\ Len(more) = Len(HomeList(x)) + 1
      /\ \A j \in 1..Len(HomeList(x)) : more[j] = HomeList(x)[j]
      /\ more[Len(HomeList(x)) + 1] = x
  BY <1>2
<1>5. lists' = [lists EXCEPT ![home[x]] = more] BY DEF HomeList
<1> HIDE DEF more
<1>6. lists'[home[x]] = more /\ \A l \in ListNames : l # home[x] => lists'[l] = lists[l]
  BY <1>1, <1>2, <1>5
<1>7. lists' \in [ListNames -> Seq(Things)] BY <1>1, <1>4, <1>5
<1>8. NoDup(more)
  <2>1. NoDup(HomeList(x)) BY <1>2, <1>3 DEF HomeList
  <2> QED BY <1>2, <1>4, <2>1 DEF NoDup, Has
<1>9. \A y \in Things : Has(more, y) <=> (y = x \/ Has(HomeList(x), y)) BY <1>2, <1>4 DEF Has
<1>10. \A l \in ListNames : NoDup(lists'[l]) BY <1>3, <1>6, <1>8
<1>11. ASSUME NEW y \in Things PROVE Listed(y)' <=> (y = x \/ Listed(y))
  <2>1. Listed(y)' <=> Has(lists'[home[y]], y) BY DEF Listed, Has
  <2>2. Listed(y) <=> Has(lists[home[y]], y) BY DEF Listed, Has
  <2>3. home[y] \in ListNames BY ListAssumption
  <2>4. CASE home[y] = home[x] BY <1>6, <1>9, <2>1, <2>2, <2>4 DEF HomeList
  <2>5. CASE home[y] # home[x] BY <1>6, <2>1, <2>2, <2>3, <2>5
  <2> QED BY <2>4, <2>5
<1>12. is_processing' \in [Things -> BOOLEAN]
       /\ \A y \in Things : home[y] \notin Unwrapped => (is_processing'[y] <=> (y = x \/ is_processing[y]))
  BY <1>1
<1>13. \A y \in Things : home[y] \notin Unwrapped => (is_processing[y] <=> Listed(y))
  BY DEF ContentInv, ListsAgree
<1>14. ListsAgree' BY <1>10, <1>11, <1>12, <1>13 DEF ListsAgree, NoDup
<1> QED BY <1>7, <1>12, <1>14

LEMMA ContentStep == ContentInv /\ [Next]_vars => ContentInv'
<1> SUFFICES ASSUME ContentInv, [Next]_vars PROVE ContentInv'
  OBVIOUS
<1> DEFINE p == nextProcessingListPosition
<1>0. /\ TypeOK /\ ListsAgree /\ (thing # NoThing => p >= 1)
      /\ p \in Nat /\ Len(Lists) \in Nat /\ Len(Lists) >= 1 /\ local_list \in Seq(Things)
      /\ Lists[current_step] \in ListNames /\ seen \in [Things -> 0..2]
  <2>1. Len(Lists) \in Nat /\ Len(Lists) >= 1 BY ListAssumption
  <2> QED BY <2>1, LocalListIs DEF ContentInv, Passed, TypeOK
<1>1. CASE UNCHANGED <<lists, is_processing>> /\ (Fire \/ Resume \/ Return \/ EndList \/ Visit)
  <2>1. ListsAgree' BY <1>0, <1>1 DEF ListsAgree, Listed
  <2>2. UNCHANGED contentVars BY <1>1 DEF Fire, Resume, Return, EndList, Visit
  <2>3. CASE Fire
    <3>1. TypeOK' BY <1>0, <2>2, <2>3 DEF Fire, TypeOK, contentVars
    <3>2. Passed' BY <1>0, <2>3 DEF Fire, Passed
    <3> QED BY <2>1, <3>1, <3>2 DEF ContentInv
  <2>4. CASE Resume \/ Return
    <3>1. TypeOK' BY <1>0, <2>2, <2>4 DEF Resume, Return, TickCheck, TypeOK, contentVars
    <3>2. Passed' BY <1>0, <2>4 DEF Resume, Return, Passed
    <3> QED BY <2>1, <3>1, <3>2 DEF ContentInv
  <2>5. CASE EndList
    <3>1. current_step' \in 1..Len(Lists) BY <1>0, <2>5 DEF EndList, TypeOK
    <3>2. p' \in Nat /\ seen' \in [Things -> 0..2] /\ state' \in {"idle", "running", "paused"}
      BY <1>0, <2>5 DEF EndList, TypeOK
    <3>3. thing' = NoThing /\ stopped' = stopped BY <2>5 DEF EndList, Between
    <3>4. TypeOK' BY <1>0, <2>2, <3>1, <3>2, <3>3 DEF TypeOK, contentVars
    <3> QED BY <2>1, <3>3, <3>4 DEF ContentInv, Passed
  <2>6. CASE Visit
    <3>1. thing' \in Things /\ p' = p + 1 /\ stopped' = FALSE /\ state' = state /\ current_step' = current_step
      BY <1>0, <2>6 DEF Visit, InList
    <3>2. seen' \in [Things -> 0..2]
      <4>1. seen' = [seen EXCEPT ![thing'] = IF @ = 2 THEN 2 ELSE @ + 1] BY <2>6 DEF Visit
      <4> QED BY <1>0, <3>1, <4>1
    <3>3. TypeOK'
      <4>1. thing' \in Things \cup {NoThing} BY <3>1
      <4>2. p' \in Nat BY <1>0, <3>1
      <4>3. stopped' \in BOOLEAN BY <3>1, Zenon
      <4> QED BY <1>0, <2>2, <3>1, <3>2, <4>1, <4>2, <4>3 DEF TypeOK, contentVars
    <3>4. Passed' BY <1>0, <3>1 DEF Passed
    <3> QED BY <2>1, <3>3, <3>4 DEF ContentInv
  <2> QED BY <1>1, <2>3, <2>4, <2>5, <2>6
<1>2. CASE Discard
  <2>1. local_list[p] \in Things /\ TakeOut(local_list[p]) BY <1>0, <1>2 DEF Discard, InList
  <2>2. lists' \in [ListNames -> Seq(Things)] /\ is_processing' \in [Things -> BOOLEAN]
        /\ deleted' \subseteq Things /\ ListsAgree'
    BY <2>1, TakeOutAgrees
  <2>3. TypeOK' BY <1>0, <1>2, <2>2 DEF Discard, TickCheck, TypeOK
  <2>4. Passed' BY <1>0, <1>2 DEF Discard, Passed
  <2> QED BY <2>2, <2>3, <2>4 DEF ContentInv
<1>3. CASE ReturnKill
  <2>1. thing \in Things /\ TakeOut(thing) /\ p >= 1 BY <1>0, <1>3 DEF ReturnKill, TypeOK
  <2>2. lists' \in [ListNames -> Seq(Things)] /\ is_processing' \in [Things -> BOOLEAN]
        /\ deleted' \subseteq Things /\ ListsAgree'
    BY <2>1, TakeOutAgrees
  <2>3. p' \in Nat /\ thing' = NoThing BY <1>0, <1>3, <2>1 DEF ReturnKill
  <2>4. TypeOK' BY <1>0, <1>3, <2>2, <2>3 DEF ReturnKill, TickCheck, TypeOK
  <2> QED BY <2>2, <2>3, <2>4 DEF ContentInv, Passed
<1>4. ASSUME NEW x \in Things, START_PROCESSING(x) \/ NewPowernet(x) PROVE ContentInv'
  <2>1. ~Listed(x) BY <1>0, <1>4 DEF START_PROCESSING, NewPowernet, ListsAgree
  <2>2. lists' = [lists EXCEPT ![home[x]] = Append(@, x)] /\ deleted' = deleted
        /\ seen' = [seen EXCEPT ![x] = 0] /\ UNCHANGED <<fireVars, stopped>>
    BY <1>4 DEF START_PROCESSING, NewPowernet
  <2>3. \/ is_processing' = [is_processing EXCEPT ![x] = TRUE]
        \/ is_processing' = is_processing /\ home[x] \in Unwrapped
    BY <1>4 DEF START_PROCESSING, NewPowernet
  <2>4. lists' \in [ListNames -> Seq(Things)] /\ is_processing' \in [Things -> BOOLEAN] /\ ListsAgree'
    BY <2>1, <2>2, <2>3, AppendAgrees
  <2>5. seen' \in [Things -> 0..2] BY <1>0, <2>2
  <2>6. TypeOK' BY <1>0, <2>2, <2>4, <2>5 DEF TypeOK, fireVars
  <2>7. Passed' BY <1>0, <2>2 DEF Passed, fireVars
  <2> QED BY <2>4, <2>6, <2>7 DEF ContentInv
<1>5. ASSUME NEW x \in Things, STOP_PROCESSING(x) \/ DestroyPowernet(x) PROVE ContentInv'
  <2>1. TakeOut(x) /\ stopped' = (stopped \/ x = thing)
        /\ UNCHANGED <<state, current_step, thing, seen>>
    BY <1>5 DEF STOP_PROCESSING, DestroyPowernet, fireVars
  <2>2. lists' \in [ListNames -> Seq(Things)] /\ is_processing' \in [Things -> BOOLEAN]
        /\ deleted' \subseteq Things /\ ListsAgree'
    BY <2>1, TakeOutAgrees
  <2>3. stopped' \in BOOLEAN BY <2>1
  <2>4. p' \in Nat /\ (p >= 1 => p' >= 1)
    <3>1. CASE DestroyPowernet(x) BY <1>0, <3>1 DEF DestroyPowernet, fireVars
    <3>2. CASE STOP_PROCESSING(x)
      <4>1. p' = IF p # 0 /\ Listed(x) /\ Index(x) < p THEN p - 1 ELSE p
        BY <3>2 DEF STOP_PROCESSING, stopProcessingWrapper
      <4>2. Listed(x) => Index(x) >= 1 /\ Index(x) \in Nat BY <1>0, HomeIs
      <4> QED BY <1>0, <4>1, <4>2
    <3> QED BY <1>5, <3>1, <3>2
  <2>5. TypeOK' BY <1>0, <2>1, <2>2, <2>3, <2>4 DEF TypeOK
  <2>6. Passed' BY <1>0, <2>1, <2>4 DEF Passed
  <2> QED BY <2>2, <2>5, <2>6 DEF ContentInv
<1>6. ASSUME NEW x \in Things, qdel(x) PROVE ContentInv'
  <2>1. UNCHANGED <<lists, is_processing, fireVars, stopped, seen>> /\ deleted' = deleted \cup {x}
    BY <1>6 DEF qdel
  <2> QED BY <1>0, <2>1 DEF ContentInv, TypeOK, ListsAgree, Listed, Passed, fireVars
<1>7. CASE UNCHANGED vars
  <2>1. UNCHANGED <<lists, is_processing, deleted, state, current_step, p, thing, stopped, seen>>
    BY <1>7 DEF vars, contentVars, fireVars
  <2> QED BY <1>0, <2>1 DEF ContentInv, TypeOK, ListsAgree, Listed, Passed
<1>8. ASSUME Fire \/ Resume \/ Return \/ EndList \/ Visit PROVE UNCHANGED <<lists, is_processing>>
  BY <1>8 DEF Fire, Resume, Return, EndList, Visit, contentVars
<1> QED BY <1>1, <1>2, <1>3, <1>4, <1>5, <1>6, <1>7, <1>8 DEF Next, Subsystem, Game

LEMMA ContentStart == Init => ContentInv
<1> SUFFICES ASSUME Init PROVE ContentInv
  OBVIOUS
<1>1. lists \in [ListNames -> Seq(Things)] /\ (\A l \in ListNames : lists[l] = <<>>)
  BY DEF Init
<1>2. 1 \in 1..Len(Lists) BY ListAssumption
<1>3. seen \in [Things -> 0..2] /\ is_processing \in [Things -> BOOLEAN] BY DEF Init
<1>4. TypeOK BY <1>1, <1>2, <1>3 DEF Init, TypeOK
<1>5. ListsAgree
  <2>1. \A x \in Things : ~Listed(x) /\ ~is_processing[x] BY <1>1, ListAssumption DEF Init, Listed
  <2> QED BY <1>1, <2>1 DEF ListsAgree
<1> QED BY <1>4, <1>5 DEF Init, ContentInv, Passed

\* The variables of the lists and of fire() have their types: the one index for all lists
\* never goes below zero, whatever leaves them in whatever order (STOP_PROCESSING, fire()).
THEOREM TypeCorrect == Spec => []TypeOK
<1>1. ContentInv => TypeOK BY DEF ContentInv
<1> QED BY <1>1, ContentStart, ContentStep, PTL DEF Spec

\* For any lists and things, a thing is in its list once when it is marked as processed and
\* not at all when it is not, also when it is killed after it has left
\* (START_PROCESSING, STOP_PROCESSING, fire()).
THEOREM ListsAgreeHolds == Spec => []ListsAgree
<1>1. ContentInv => ListsAgree BY DEF ContentInv
<1> QED BY <1>1, ContentStart, ContentStep, PTL DEF Spec

\* In one list, whatever comes, leaves and is deleted in a pass and between its pauses, each
\* thing that stays is processed exactly once, and the index tells which were already
\* (fire() of processing.dm with the wrapper of STOP_PROCESSING).
THEOREM EachOnceHolds == OneList => (Spec => EachOnce)
<1> SUFFICES ASSUME OneList PROVE Spec => EachOnce OBVIOUS
<1>1. Spec => []TypeOK BY TypeCorrect
<1>2. Spec => []LeftIsDone BY LeftIsDoneHolds
<1>3. Spec => ProcessedOnce BY ProcessedOnceHolds
<1>4. Spec => []ListsAgree BY ListsAgreeHolds
<1>5. QED BY <1>1, <1>2, <1>3, <1>4, PTL DEF EachOnce
============================================================================
