------------------------------ MODULE NanoData ------------------------------
(***************************************************************************)
(* What the server's half of NanoUI and its page say to each other: data   *)
(* of an object, of which only its version matters, and a status.          *)
(***************************************************************************)
EXTENDS Integers

CONSTANT MaxVer          \* bound: versions of the object's data

ASSUME VerAssumption == MaxVer \in Nat

Versions == 0..MaxVer
Statuses == 0..2         \* STATUS_DISABLED, STATUS_UPDATE, STATUS_INTERACTIVE
NoData == -1             \* no 'data' in an update
=============================================================================
