---------------------------- MODULE MCUsciMonitor ----------------------------
(* A ring that holds two bytes, overrun by what arrives while the banner   *)
(* is being sent.                                                          *)
EXTENDS UsciMonitor
==============================================================================
