---------------------------- MODULE MCIrReceiver -----------------------------
(* Times in units of 1/15 ms, so that a burst can cut a long interval into  *)
(* two short ones; a timer that wraps at 6.4 ms instead of 65.5.            *)
EXTENDS IrReceiver
==============================================================================
