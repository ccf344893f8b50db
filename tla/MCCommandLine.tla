---------------------------- MODULE MCCommandLine ----------------------------
(* Names of two and three keys, one of them the beginning of another.      *)
EXTENDS CommandLine

A == 97
B == 98
MCWord == [help |-> <<A, A>>, action |-> <<A, B>>, settime |-> <<B, A>>,
           gettime |-> <<A, B, A>>, gettemp |-> <<B, B>>]
==============================================================================
