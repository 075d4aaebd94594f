------------------------------ MODULE Selectors ------------------------------
(***************************************************************************)
(* How a selector finds elements (Sizzle in nano/js/libraries/jquery.js):  *)
(* from the right, each element of a first choice is asked whether those   *)
(* it needs above and before it are there.  What was found out of an       *)
(* element is kept with it, marked with the run and with the combinator,   *)
(* and is there when the next selector is asked for.                       *)
(***************************************************************************)
EXTENDS Integers, Sequences, FiniteSets

CONSTANTS
    Parents,             \* of the documents: the parent of each node
    Labels,              \* tags of elements
    IdNode,              \* the element with the id
    Groups,              \* selectors that are asked for: sequences, for those with commas
    Negated,             \* the selector of :not()
    Contexts,            \* nodes they are asked for in
    MaxQueries, MaxChanges   \* bounds

VARIABLES
    parent, label,       \* the document
    cache,               \* of each element and direction: what is kept
    dirruns,
    asked,               \* the last question and its answer
    changes, queries

selectorVars == <<parent, label, cache, dirruns, asked, changes, queries>>

\* Nodes are numbered in the order of the document, which is the first; the others are
\* elements.  A selector is its parts and what is between them, and what it begins with.
TreeNodes == 1..Len(parent)
docNode == 1
Elements == TreeNodes \ {docNode}
None == 0
Selector(lead, parts, combs) == [lead |-> lead, parts |-> parts, combs |-> combs]

NotAsked == [group |-> <<>>, context |-> docNode, result |-> <<>>]
Kept == [run |-> 0, done |-> <<>>, found |-> FALSE]

SelectorsStart ==
    /\ cache = [x \in TreeNodes |-> [parentNode |-> Kept, previousSibling |-> Kept]]
    /\ dirruns = 0 /\ asked = NotAsked
    /\ changes = 0 /\ queries = 0

SelectorsInit ==
    /\ parent \in Parents
    /\ label \in [Elements -> Labels]
    /\ SelectorsStart
----------------------------------------------------------------------------
(* The document *)

previousSibling(x) ==
    LET before == {y \in Elements : y < x /\ parent[y] = parent[x]}
    IN  IF x = docNode \/ before = {} THEN None ELSE CHOOSE y \in before : \A z \in before : z <= y

dirOf(comb) == IF comb \in {" ", ">"} THEN "parentNode" ELSE "previousSibling"
isFirst(comb) == comb \in {">", "+"}
next(x, dir) == IF dir = "parentNode" THEN parent[x] ELSE previousSibling(x)

ancestorsOf(x) ==
    LET up[y \in 0..Len(parent)] == IF y = None THEN {} ELSE {y} \cup up[parent[y]]
    IN  up[parent[x]]
under(context) == {x \in Elements : context \in ancestorsOf(x)}
inOrder(s) == SelectSeq([i \in 1..Len(parent) |-> i], LAMBDA x : x \in s)
----------------------------------------------------------------------------
(* Matchers: they return whether x matches, and what is kept by then; K is the kept cache,   *)
(* the current run and the last run there was.                                               *)

Result(ok, K) == [ok |-> ok, K |-> K]

\* Bug: what an earlier selector found counts.
isKeptLong(k, K, done) == k.done = done

isKept(k, K, done) == k.run = K.run /\ k.done = done

\* newCache, as far as it is still x's own, has the answer r.
settled(r, x, dir, run, done) ==
    [r EXCEPT !.K.cache[x][dir].found = IF r.K.cache[x][dir].run = run /\ r.K.cache[x][dir].done = done THEN r.ok ELSE @]

\* addCombinator(): the matcher of k is asked of the first there is in the direction, or of
\* each until one matches; what comes of it is kept with all that were asked, under the run
\* there was when the first was asked.  Number 0 is whether it is the context, and that is
\* looked for up to the document.
RECURSIVE walk(_, _, _, _, _, _, _), matches(_, _, _, _, _)
ends(comb, k, y) == y = None \/ (y = docNode /\ ~(k = 0 /\ dirOf(comb) = "parentNode"))
matcher(sel, context, k, x, K) == IF k = 0 THEN Result(x = context, K) ELSE matches(sel, context, k, x, K)

walk(sel, context, k, comb, x, K, run) ==
    LET y    == next(x, dirOf(comb))
        done == <<sel, k>>
        mine == K.cache[y][dirOf(comb)]
        asks == [K EXCEPT !.cache[y][dirOf(comb)] =
                   IF isFirst(comb) THEN @ ELSE [run |-> run, done |-> done, found |-> FALSE]]
    IN  IF ends(comb, k, y) THEN Result(FALSE, K)
        ELSE IF ~isFirst(comb) /\ isKept(mine, K, done) THEN Result(mine.found, K)
        ELSE LET met == matcher(sel, context, k, y, asks)
                 end == IF met.ok \/ isFirst(comb) THEN met ELSE walk(sel, context, k, comb, y, met.K, run)
             IN  IF isFirst(comb) THEN end ELSE settled(end, y, dirOf(comb), run, done)

addCombinator(sel, context, k, comb, x, K) == walk(sel, context, k, comb, x, K, K.run)

\* A :not() takes a run of its own, and does not give the number back.
tests(part, x, K) ==
    CASE part = "*" -> Result(TRUE, K)
      [] part = "#" -> Result(x = IdNode, K)
      [] part \in Labels -> Result(label[x] = part, K)
      [] part = ":not" ->
           LET inner == matches(Negated, None, Len(Negated.parts), x, [K EXCEPT !.run = K.last + 1, !.last = @ + 1])
           IN  Result(~inner.ok, inner.K)

\* The foundational matcher needs no context that is the whole document, and a :not() has none.
anywhere(sel, context) == sel.lead = "" /\ context \in {docNode, None}

\* matcherFromTokens(): part k of a selector and what is before it, from the right.
matches(sel, context, k, x, K) ==
    LET comb == IF k > 1 THEN sel.combs[k - 1] ELSE IF sel.lead = "" THEN " " ELSE sel.lead
        here == IF k \in DOMAIN sel.parts THEN tests(sel.parts[k], x, K) ELSE Result(TRUE, K)
        before(r) == IF ~r.ok \/ (k <= 1 /\ anywhere(sel, context)) THEN r
                     ELSE addCombinator(sel, context, IF k > 1 THEN k - 1 ELSE 0, comb, x, r.K)
    IN  before(here)

\* Where a selector begins: at its last part, or at the combinator the part was taken from.
begin(sel) == IF Len(sel.combs) >= Len(sel.parts) /\ sel.combs # <<>> THEN Len(sel.parts) + 1 ELSE Len(sel.parts)
----------------------------------------------------------------------------
(* select() *)

\* An element is there once, whichever of the selectors found it.
RECURSIVE anyOf(_, _, _, _, _)
anyOf(group, context, j, x, K) ==
    LET one == matches(group[j], context, begin(group[j]), x, K)
    IN  IF j = 0 THEN Result(FALSE, K) ELSE IF one.ok THEN one ELSE anyOf(group, context, j - 1, x, one.K)

\* matcherFromGroupMatchers(): the run is the same for each of the elements.
superMatcher(group, context, elems, K) ==
    LET run == K.last + 1
        all[i \in 0..Len(elems)] ==
          LET before == all[i - 1]
              one    == anyOf(group, context, Len(group), elems[i], before.K)
          IN  IF i = 0 THEN [found |-> <<>>, K |-> [K EXCEPT !.run = run, !.last = run]]
              ELSE [found |-> IF one.ok THEN Append(before.found, elems[i]) ELSE before.found,
                    K     |-> [one.K EXCEPT !.run = run]]
    IN  all[Len(elems)]

\* With a sibling in front those of the parent count.
around(context, widens) == IF widens /\ context # docNode THEN parent[context] ELSE context
siblings(sel) == {sel.lead} \cup {sel.combs[i] : i \in DOMAIN sel.combs}

Rest(s) == SubSeq(s, 1, Len(s) - 1)

\* A selector that begins with the id is one for what is in that element.
shortcut(sel, context) ==
    IF Len(sel.parts) > 1 /\ sel.lead = "" /\ sel.parts[1] = "#" /\ context = docNode
    THEN [sel |-> Selector(sel.combs[1], Tail(sel.parts), Tail(sel.combs)), context |-> IdNode]
    ELSE [sel |-> sel, context |-> context]

\* Whether the last part finds elements: a :not() does not, nor the id in an element, nor
\* any when the selector needs its context.
finds(sel, context) ==
    LET part == sel.parts[Len(sel.parts)]
    IN  sel.lead \notin {">", "+", "~"} /\ part # ":not" /\ (part = "#" => context = docNode)

select(group, context, K) ==
    LET s      == shortcut(group[1], context)
        part   == s.sel.parts[Len(s.sel.parts)]
        seed   == inOrder({x \in under(s.context) : tests(part, x, K).ok})
        others == [s.sel EXCEPT !.parts = Rest(@)]
        widens == \E j \in DOMAIN group : siblings(group[j]) \cap {"+", "~"} # {}
    IN  IF Len(group) = 1 /\ finds(s.sel, s.context)
        THEN IF seed = <<>> \/ (others.parts = <<>> /\ others.lead = "") THEN [found |-> seed, K |-> K]
             ELSE superMatcher(<<others>>, s.context, seed, K)
        ELSE IF Len(group) = 1
        THEN superMatcher(<<s.sel>>, s.context, inOrder(under(around(s.context, widens))), K)
        ELSE superMatcher(group, context, inOrder(under(around(context, widens))), K)

Query ==
    /\ queries < MaxQueries
    /\ queries' = queries + 1
    /\ \E group \in Groups, context \in Contexts :
         LET answer == select(group, context, [cache |-> cache, run |-> dirruns, last |-> dirruns])
         IN  /\ asked' = [group |-> group, context |-> context, result |-> answer.found]
             /\ cache' = answer.K.cache /\ dirruns' = answer.K.last
    /\ UNCHANGED <<parent, label, changes>>

\* The program changes the document.
Relabel ==
    /\ changes < MaxChanges /\ queries > 0
    /\ changes' = changes + 1
    /\ \E x \in Elements, l \in Labels : l # label[x] /\ label' = [label EXCEPT ![x] = l]
    /\ asked' = NotAsked
    /\ UNCHANGED <<parent, cache, dirruns, queries>>

SelectorsNext == Query \/ Relabel
SelectorsSpec == SelectorsInit /\ [][SelectorsNext]_selectorVars
----------------------------------------------------------------------------
(* sortOrder(), where nodes cannot be compared: less than 0 when a comes before b *)

preferredDoc == docNode
ancestors(x) ==
    LET up[y \in 0..Len(parent)] == IF y = None THEN <<>> ELSE Append(up[parent[y]], y)
    IN  up[x]

\* Whether b is among those that follow a.
siblingCheck(a, b) == IF b # None /\ a # None /\ b > a /\ parent[a] = parent[b] THEN -1 ELSE IF a # None THEN 1 ELSE -1

\* The first that differ of those that a and b are in; one of them may have none any more.
at(s, i) == IF i \in DOMAIN s THEN s[i] ELSE None
compared(a, b) ==
    LET ap == ancestors(a)
        bp == ancestors(b)
        i  == CHOOSE j \in 1..(Len(ap) + 1) : at(ap, j) # at(bp, j) /\ \A k \in 1..(j - 1) : ap[k] = at(bp, k)
    IN  IF i > 1 THEN siblingCheck(at(ap, i), at(bp, i))
        ELSE IF ap[1] = preferredDoc THEN -1 ELSE IF bp[1] = preferredDoc THEN 1 ELSE 0

sortOrder(a, b) ==
    IF a = b THEN 0
    ELSE IF None \in {parent[a], parent[b]}
    THEN IF a = docNode THEN -1 ELSE IF b = docNode THEN 1
         ELSE IF parent[a] # None THEN -1 ELSE IF parent[b] # None THEN 1 ELSE 0
    ELSE IF parent[a] = parent[b] THEN siblingCheck(a, b)
    ELSE compared(a, b)
----------------------------------------------------------------------------
(* What a selector says *)

related(comb, x) ==
    CASE comb = " " -> ancestorsOf(x) \cap Elements
      [] comb = ">" -> {parent[x]} \cap Elements
      [] comb = "+" -> {previousSibling(x)} \ {None}
      [] comb = "~" -> {y \in Elements : y < x /\ parent[y] = parent[x]}

within(sel, context, x) ==
    CASE sel.lead = ""  -> context = None \/ context \in ancestorsOf(x)
      [] sel.lead = ">" -> parent[x] = context
      [] sel.lead = " " -> context \in ancestorsOf(x)
      [] sel.lead = "+" -> previousSibling(x) = context
      [] sel.lead = "~" -> context \in related("~", x)

RECURSIVE says(_, _, _, _)
says(sel, context, k, x) ==
    /\ CASE sel.parts[k] = "*" -> TRUE
         [] sel.parts[k] = "#" -> x = IdNode
         [] sel.parts[k] \in Labels -> label[x] = sel.parts[k]
         [] sel.parts[k] = ":not" -> ~says(Negated, None, Len(Negated.parts), x)
    /\ IF k = 1 THEN within(sel, context, x)
       ELSE \E y \in related(sel.combs[k - 1], x) : says(sel, context, k - 1, y)
----------------------------------------------------------------------------
(* Properties *)

\* The answer is the elements the selector says, each once and in the order of the document,
\* whatever was kept by earlier questions and changed since.
SelectsAsWritten ==
    asked.group # <<>> =>
      asked.result = inOrder({x \in Elements : \E j \in DOMAIN asked.group :
                               says(asked.group[j], asked.context, Len(asked.group[j].parts), x)})

\* What is in the document is sorted in its order and before what is not in it.
SortsInOrder ==
    queries = 0 =>
      \A a, b \in TreeNodes :
        LET inside(x) == docNode \in ancestorsOf(x) \cup {x}
        IN  inside(a) /\ a # b => IF a < b \/ ~inside(b) THEN sortOrder(a, b) < 0 ELSE sortOrder(a, b) > 0

\* Elements are found and put in their order.
SelectsInOrder == SelectsAsWritten /\ SortsInOrder
=============================================================================
