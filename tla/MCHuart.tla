------------------------------- MODULE MCHuart -------------------------------
(* A ring of three bytes and a counter of two bits, so that few bytes    *)
(* wrap the pointers, overrun the ring and wrap the counter.               *)
EXTENDS Huart
==============================================================================
