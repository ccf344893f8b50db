-------------------------------- MODULE Halves -------------------------------
(***************************************************************************)
(* A number of 32 bits that a processor of 16 bits keeps and reads in two  *)
(* halves.                                                                 *)
(***************************************************************************)
EXTENDS Integers

CONSTANT HALF    \* the values of a half: 65536

ASSUME HalfAssumption == HALF \in Nat \ {0}

Low(n) == n % HALF
High(n) == n \div HALF
Joined(high, low) == high * HALF + low
==============================================================================
