--------------------------- MODULE MCInitReserves ---------------------------
(***************************************************************************)
(* Small instances of InitReserves.tla for TLC: two operators, two buckets.*)
(***************************************************************************)
EXTENDS InitReserves, MCMinter

CONSTANTS alice, bob

(* A day and a year, as in the script. *)
MCDayYear == <<24, 8760>>

(* One bucket that is refilled and one that is topped up by hand. *)
TwoBuckets == <<[cap |-> 7, daily |-> 1], [cap |-> 1, daily |-> None]>>

SamePrincipals == [o \in Operators |-> <<main, savings>>]
=============================================================================
