------------------------------- MODULE Helpers -------------------------------
(***************************************************************************)
(* What the templates call for a bar, the blocks of a DNA string and a     *)
(* link (nano/js/nano_base_helpers.js, nano/js/nano_utility.js), and the   *)
(* indexOf() of arrays for browsers without one.  Each is given by its     *)
(* arguments, a call.                                                      *)
(***************************************************************************)
EXTENDS Integers, Sequences, FiniteSets

CONSTANTS
    Amounts,             \* values and ends of a bar
    BlockSizes, MaxCharacters,
    Keys, MaxPairs,      \* keys of parameters, how many
    MaxItems             \* bound: length of an array

Calls ==
    [op: {"displayBar"}, value: Amounts, rangeMin: Amounts, rangeMax: Amounts]
      \cup [op: {"displayDNABlocks"}, length: 1..MaxCharacters, size: BlockSizes]
      \cup [op: {"generateHref"}, url: UNION {[1..n -> Keys] : n \in 0..MaxPairs},
            parameters: UNION {[1..n -> Keys] : n \in 0..MaxPairs}]
      \cup [op: {"indexOf"}, array: UNION {[1..n -> BOOLEAN] : n \in 0..MaxItems},
            from: (-MaxItems - 1)..(MaxItems + 1)]

VARIABLE call
helperVars == <<call>>

NoCall == [op |-> "none"]
HelpersInit == call \in Calls
----------------------------------------------------------------------------
(* displayBar() *)

heldIn(v, rangeMin, rangeMax) ==
    LET up == rangeMin < rangeMax
    IN  IF (up /\ v < rangeMin) \/ (~up /\ v > rangeMin) THEN rangeMin
        ELSE IF (up /\ v > rangeMax) \/ (~up /\ v < rangeMax) THEN rangeMax
        ELSE v

\* Math.round( n / d )
rounded(n, d) == IF d > 0 THEN (2 * n + d) \div (2 * d) ELSE (2 * (-n) - d) \div (2 * (-d))

\* Ends that are the same give NaN.
percentage(v, rangeMin, rangeMax) == rounded(100 * (heldIn(v, rangeMin, rangeMax) - rangeMin), rangeMax - rangeMin)
----------------------------------------------------------------------------
(* displayDNABlocks(): what the link of each character selects, and the blocks begun *)

\* After character j; a size of 0 begins none.
nextBlock(at, j, c) ==
    IF c.size # 0 /\ (j + 1) % c.size = 0 /\ j + 1 < c.length
    THEN [block |-> at.block + 1, subblock |-> 1]
    ELSE [block |-> at.block, subblock |-> at.subblock + 1]

selects(c) ==
    LET at[j \in 0..c.length] ==
          IF j = 0 THEN [block |-> 1, subblock |-> 1] ELSE nextBlock(at[j - 1], j - 1, c)
    IN  at
----------------------------------------------------------------------------
(* generateHref(): a string of ?, ; and pairs, of which the key is given *)

joined(s, keys, j) == IF s # <<"?">> THEN s \o <<";", keys[j]>> ELSE Append(s, keys[j])

added(s, keys) ==
    LET all[j \in 0..Len(keys)] == IF j = 0 THEN s ELSE joined(all[j - 1], keys, j)
    IN  all[Len(keys)]

generateHref(c) == added(added(<<"?">>, c.url), c.parameters)
----------------------------------------------------------------------------
(* indexOf() *)

from(c) == IF c.from < 0 THEN c.from + Len(c.array) ELSE c.from

\* The loop, from there on; what is before the array is not in it.
indexOf(c) ==
    LET n == Len(c.array)
        at[j \in (-2 * MaxItems - 1)..(2 * MaxItems + 1)] ==
          IF j >= n THEN -1 ELSE IF j >= 0 /\ c.array[j + 1] THEN j ELSE at[j + 1]
    IN  at[from(c)]
----------------------------------------------------------------------------
(* Properties *)

\* A bar is between empty and full whichever of its ends is the greater, empty at the one
\* and full at the other, and never shrinks towards that.
BarFits ==
    call.op = "displayBar" /\ call.rangeMin # call.rangeMax =>
      LET bar(v) == percentage(v, call.rangeMin, call.rangeMax)
      IN  /\ bar(call.value) \in 0..100
          /\ bar(call.rangeMin) = 0 /\ bar(call.rangeMax) = 100
          /\ IF call.rangeMin < call.rangeMax THEN bar(call.value) <= bar(call.value + 1)
             ELSE bar(call.value) >= bar(call.value + 1)

\* The link of a character selects its block and its place there, and no block is without
\* characters.
BlocksInTurn ==
    call.op = "displayDNABlocks" /\ call.size # 0 =>
      /\ \A j \in 0..(call.length - 1) :
           selects(call)[j] = [block |-> j \div call.size + 1, subblock |-> (j % call.size) + 1]
      /\ selects(call)[call.length].block = (call.length + call.size - 1) \div call.size

\* Taken apart at ; a link gives the parameters of the page, then its own.
HrefParses ==
    call.op = "generateHref" =>
      LET s     == Tail(generateHref(call))
          pairs == call.url \o call.parameters
      IN  /\ Head(generateHref(call)) = "?"
          /\ Len(s) = IF pairs = <<>> THEN 0 ELSE 2 * Len(pairs) - 1
          /\ \A j \in DOMAIN s : s[j] = IF j % 2 = 0 THEN ";" ELSE pairs[(j + 1) \div 2]

\* The first place, not before from, which counts from the end when it is less than 0.
IndexIsFirst ==
    call.op = "indexOf" =>
      LET n     == Len(call.array)
          begin == IF call.from >= 0 THEN call.from ELSE n + call.from
          found == {j \in 0..(n - 1) : j >= begin /\ call.array[j + 1]}
      IN  IF found = {} THEN indexOf(call) = -1
          ELSE indexOf(call) \in found /\ \A j \in found : indexOf(call) <= j

\* Bars, blocks, links and places at the ends of their ranges.
HelpersFit == BarFits /\ BlocksInTurn /\ HrefParses /\ IndexIsFirst
=============================================================================
