------------------------------ MODULE MCPrograms -----------------------------
(* Halves of two bits; a message of three letters, two columns each; the   *)
(* counts of dmsreset and the levels of bcmtest as in the code.            *)
EXTENDS Programs
==============================================================================
