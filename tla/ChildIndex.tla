------------------------------ MODULE ChildIndex ------------------------------
(***************************************************************************)
(* The place of an element among the children of its parent, for           *)
(* :nth-child(), :nth-last-child() and :nth-of-type() (Sizzle in           *)
(* nano/js/libraries/jquery.js): the one found last is kept with the       *)
(* parent, those counted from the end each with itself, for the run.       *)
(***************************************************************************)
EXTENDS Integers, Sequences, FiniteSets

CONSTANTS
    ChildNodes,          \* what the children are taken from
    Arrangements,        \* the orders they may be in
    nodeName,            \* of each of them; "#text" of one that is no element
    MaxRuns, MaxChildChanges \* bounds

\* No node is at two places.
ASSUME ArrangementsAssumption ==
    \A s \in Arrangements : s \in Seq(ChildNodes) /\ \A i, j \in 1..Len(s) : s[i] = s[j] => i = j

VARIABLES
    childNodes,          \* in their order
    run,                 \* dirruns
    outerCache,          \* kept with the parent: run, index among the nodes, among the elements
    elemCache,           \* kept with each element: run, index from the end
    told,                \* the last answer
    childChanges

childVars == <<childNodes, run, outerCache, elemCache, told, childChanges>>

NotTold == [elem |-> 0, type |-> "nth", diff |-> 0]
Types == {"nth", "nth-last", "of-type"}

ChildIndexStart ==
    /\ run = 1
    /\ outerCache = [run |-> 0, nodeIndex |-> 0, diff |-> 0]
    /\ elemCache = [x \in ChildNodes |-> [run |-> 0, diff |-> 0]]
    /\ told = NotTold /\ childChanges = 0
ChildIndexInit == childNodes \in Arrangements /\ ChildIndexStart
----------------------------------------------------------------------------
isElement(x) == nodeName[x] # "#text"
indexOfChild(x) == CHOOSE i \in DOMAIN childNodes : childNodes[i] = x
\* How many elements there are from i to j.
counted(i, j) == Cardinality({k \in i..j : isElement(childNodes[k])})

\* Bug: what an earlier run kept counts.
isOfRunAny(c) == c.run # 0

isOfRun(c) == c.run = run

\* Indexes in the parent begin at 0, where nothing is kept.  From the one that is kept it
\* goes on to the next; an element that is not behind it is looked for from the start.
fromKept(x) ==
    LET i     == indexOfChild(x)
        begin == outerCache.nodeIndex + 1
    IN  IF isOfRun(outerCache) /\ outerCache.nodeIndex # 0 /\ begin < i
        THEN outerCache.diff + counted(begin + 1, i)
        ELSE counted(1, i)

\* Each element on the way is kept.
fromEnd(x) ==
    [y \in ChildNodes |->
       IF y \notin {childNodes[k] : k \in indexOfChild(x)..Len(childNodes)} \/ ~isElement(y) THEN elemCache[y]
       ELSE [run |-> run, diff |-> counted(indexOfChild(y), Len(childNodes))]]

Tell(x, type) ==
    LET last == fromEnd(x)
    IN  CASE type = "nth" ->
               /\ told' = [elem |-> x, type |-> type, diff |-> fromKept(x)]
               /\ outerCache' = [run |-> run, nodeIndex |-> indexOfChild(x) - 1, diff |-> fromKept(x)]
               /\ UNCHANGED elemCache
          [] type = "nth-last" ->
               /\ told' = [elem |-> x, type |-> type,
                           diff |-> IF isOfRun(elemCache[x]) THEN elemCache[x].diff ELSE last[x].diff]
               /\ elemCache' = IF isOfRun(elemCache[x]) THEN elemCache ELSE last
               /\ UNCHANGED outerCache
          [] type = "of-type" ->
               /\ told' = [elem |-> x, type |-> type,
                           diff |-> Cardinality({i \in 1..indexOfChild(x) : nodeName[childNodes[i]] = nodeName[x]})]
               /\ UNCHANGED <<outerCache, elemCache>>

Ask ==
    /\ \E x \in {childNodes[i] : i \in DOMAIN childNodes}, type \in Types : isElement(x) /\ Tell(x, type)
    /\ UNCHANGED <<childNodes, run, childChanges>>

\* The next selector, before which the program may have changed the document.
NextRun ==
    /\ run < MaxRuns
    /\ run' = run + 1
    /\ \/ UNCHANGED <<childNodes, childChanges>>
       \/ /\ childChanges < MaxChildChanges
          /\ childChanges' = childChanges + 1
          /\ childNodes' \in Arrangements
    /\ told' = NotTold
    /\ UNCHANGED <<outerCache, elemCache>>

ChildIndexNext == Ask \/ NextRun
ChildIndexSpec == ChildIndexInit /\ [][ChildIndexNext]_childVars
----------------------------------------------------------------------------
(* Properties *)

\* What is told of an element is its place among the elements of its parent, from the side
\* and of the name that was asked for, whatever was asked before and has changed since.
PlaceIsTold ==
    told.elem # 0 =>
      LET x == told.elem
          i == indexOfChild(x)
      IN  told.diff = CASE told.type = "nth"      -> Cardinality({k \in 1..i : isElement(childNodes[k])})
                        [] told.type = "nth-last" -> Cardinality({k \in i..Len(childNodes) : isElement(childNodes[k])})
                        [] told.type = "of-type"  -> Cardinality({k \in 1..i : nodeName[childNodes[k]] = nodeName[x]})
=============================================================================
