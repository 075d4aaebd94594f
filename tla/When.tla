-------------------------------- MODULE When --------------------------------
(***************************************************************************)
(* jQuery.when(): a deferred for several others, some settled already and  *)
(* some values that are no deferreds at all, with the values and the       *)
(* progress of each in its place (nano/js/libraries/jquery.js).            *)
(***************************************************************************)
EXTENDS Naturals, Sequences, FiniteSets

CONSTANTS
    SubCount,            \* how many there are; of one, when() makes no other deferred
    SubValues,
    NoValue

ASSUME WhenAssumption ==
    /\ SubCount \in Nat \ {1}
    /\ NoValue \notin SubValues

Subordinates == 1..SubCount

VARIABLES
    sub,                 \* of each: pending, done, fail, or plain for a value
    subValue,
    called,              \* when() was called
    remaining,
    resolveValues, progressValues,
    master, masterValues \* pending, done or fail; what it was settled with

whenVars == <<sub, subValue, called, remaining, resolveValues, progressValues, master,
              masterValues>>

Placed(S) == [Subordinates -> S \cup {NoValue}]

WhenTypeOK ==
    /\ sub \in [Subordinates -> {"pending", "done", "fail", "plain"}]
    /\ subValue \in Placed(SubValues)
    /\ remaining \in 0..Cardinality(Subordinates)
    /\ resolveValues \in Placed(SubValues) /\ progressValues \in Placed(SubValues)
    /\ master \in {"pending", "done", "fail"} /\ masterValues \in Placed(SubValues)

nothing == [i \in Subordinates |-> NoValue]

WhenInit ==
    /\ sub \in [Subordinates -> {"pending", "plain"}]
    /\ subValue \in [Subordinates -> SubValues \cup {NoValue}]
    /\ \A i \in Subordinates : subValue[i] = NoValue <=> sub[i] = "pending"
    /\ called = FALSE /\ remaining = 0
    /\ resolveValues = nothing /\ progressValues = nothing
    /\ master = "pending" /\ masterValues = nothing
----------------------------------------------------------------------------
InState(s) == {i \in Subordinates : sub[i] = s}

\* The first one that failed, of several, fails the master.
firstFailed == CHOOSE i \in InState("fail") : \A j \in InState("fail") : i <= j

\* The listeners of those that are settled run as they are added; values count at once.
when ==
    /\ remaining' = Cardinality(InState("pending") \cup InState("fail"))
    /\ resolveValues' = [i \in Subordinates |-> IF sub[i] = "fail" THEN NoValue ELSE subValue[i]]
    /\ IF InState("fail") # {}
       THEN master' = "fail" /\ masterValues' = [nothing EXCEPT ![1] = subValue[firstFailed]]
       ELSE IF InState("pending") = {}
       THEN master' = "done" /\ masterValues' = resolveValues'
       ELSE UNCHANGED <<master, masterValues>>

CallWhen ==
    /\ ~called
    /\ called' = TRUE
    /\ when
    /\ UNCHANGED <<sub, subValue, progressValues>>

\* Bug: a value that comes is put at the end.
updateFuncNext(i, v) ==
    /\ resolveValues' =
         [resolveValues EXCEPT ![Cardinality(Subordinates) - remaining + 1] = v]
    /\ remaining' = remaining - 1
    /\ IF remaining' = 0 /\ master = "pending"
       THEN master' = "done" /\ masterValues' = resolveValues'
       ELSE UNCHANGED <<master, masterValues>>

updateFunc(i, v) ==
    /\ resolveValues' = [resolveValues EXCEPT ![i] = v]
    /\ remaining' = remaining - 1
    /\ IF remaining' = 0 /\ master = "pending"
       THEN master' = "done" /\ masterValues' = resolveValues'
       ELSE UNCHANGED <<master, masterValues>>

Resolve(i, v) ==
    /\ sub[i] = "pending"
    /\ sub' = [sub EXCEPT ![i] = "done"] /\ subValue' = [subValue EXCEPT ![i] = v]
    /\ IF called THEN updateFunc(i, v)
       ELSE UNCHANGED <<remaining, resolveValues, master, masterValues>>
    /\ UNCHANGED <<called, progressValues>>

\* deferred.reject of the master is a listener of each: the first one counts.
Reject(i, v) ==
    /\ sub[i] = "pending"
    /\ sub' = [sub EXCEPT ![i] = "fail"] /\ subValue' = [subValue EXCEPT ![i] = v]
    /\ IF called /\ master = "pending"
       THEN master' = "fail" /\ masterValues' = [nothing EXCEPT ![1] = v]
       ELSE UNCHANGED <<master, masterValues>>
    /\ UNCHANGED <<called, remaining, resolveValues, progressValues>>

Notify(i, v) ==
    /\ called /\ sub[i] = "pending"
    /\ progressValues' = [progressValues EXCEPT ![i] = v]
    /\ UNCHANGED <<sub, subValue, called, remaining, resolveValues, master, masterValues>>

WhenNext ==
    \/ CallWhen
    \/ \E i \in Subordinates, v \in SubValues : Resolve(i, v) \/ Reject(i, v) \/ Notify(i, v)
WhenSpec == WhenInit /\ [][WhenNext]_whenVars
----------------------------------------------------------------------------
(* Properties *)

\* What is left to come is what remaining says, and the master is resolved exactly when
\* nothing is and nothing failed, with every value in its place: subordinates may be settled
\* before when() is called, meanwhile, in any order.
MasterOfAll ==
    called =>
      /\ remaining = Cardinality(InState("pending") \cup InState("fail"))
      /\ master = "done" <=> InState("pending") \cup InState("fail") = {}
      /\ master = "done" => masterValues = subValue
      /\ master = "fail" <=> InState("fail") # {}

\* A master that failed has the reason of one that failed.
FailsWithAReason ==
    master = "fail" => \E i \in InState("fail") : masterValues[1] = subValue[i]

\* The master follows its subordinates, in success with all their values, in failure with
\* the reason of one.
MasterFollows == WhenTypeOK /\ MasterOfAll /\ FailsWithAReason
=============================================================================
