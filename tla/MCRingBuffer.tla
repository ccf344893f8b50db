---------------------------- MODULE MCRingBuffer -----------------------------
(* A ring of four slots, so that both indices wrap round more than once in *)
(* seven pushes and the ring is full with three items.                     *)
EXTENDS RingBuffer
==============================================================================
