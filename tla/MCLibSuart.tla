------------------------------ MODULE MCLibSuart ------------------------------
(* Queues of four bytes, so that a lap is three and both pointers wrap.    *)
EXTENDS LibSuart
===============================================================================
