----------------------------- MODULE MCSoftUart ------------------------------
(* Four ticks to a bit.  With a latency of three ticks the first sample is *)
(* taken in the first quarter of the first data bit, as on the real part.  *)
EXTENDS SoftUart
==============================================================================
