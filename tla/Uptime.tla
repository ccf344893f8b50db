-------------------------------- MODULE Uptime -------------------------------
(***************************************************************************)
(* lib430/src/libarduino/uptime.c: a handler counts in mcu_ms, 32 bits     *)
(* wide, and millis() and micros() read it in two halves with interrupts   *)
(* enabled.  Which half comes first is the compiler's choice.              *)
(* (The scaling of the result is left out, and its wrap at 2^32.)          *)
(***************************************************************************)
EXTENDS Halves

CONSTANT MaxInterrupts    \* bound: interrupts of the timer

VARIABLES mcu_ms,
          up_at, half,        \* the half that is read next, the one read before
          interrupts,         \* history: how many there have been
          asked, answer       \* history: mcu_ms at the call, the value read

vars == <<mcu_ms, up_at, half, interrupts, asked, answer>>

Init == /\ mcu_ms = 0 /\ up_at = "main" /\ half = 0
        /\ interrupts = 0 /\ asked = 0 /\ answer = 0

\* mcu_ms++.  (The other form loses the carry.)
clockctl_isrLow == /\ interrupts < MaxInterrupts
                   /\ interrupts' = interrupts + 1
                   /\ mcu_ms' = Joined(High(mcu_ms), Low(mcu_ms + 1))
                   /\ UNCHANGED <<up_at, half, asked, answer>>

clockctl_isr == /\ interrupts < MaxInterrupts
                /\ interrupts' = interrupts + 1
                /\ mcu_ms' = mcu_ms + 1
                /\ UNCHANGED <<up_at, half, asked, answer>>

Load(to, value) == /\ up_at = "main" /\ up_at' = to
                   /\ half' = value /\ asked' = interrupts
                   /\ UNCHANGED <<mcu_ms, interrupts, answer>>

Return(value) == /\ up_at' = "main" /\ answer' = value
                 /\ UNCHANGED <<mcu_ms, half, interrupts, asked>>

LoadLowFirst == Load("high", Low(mcu_ms))
LoadHighFirst == Load("low", High(mcu_ms))
LoadHigh == up_at = "high" /\ Return(Joined(High(mcu_ms), half))
LoadLow == up_at = "low" /\ Return(Joined(half, Low(mcu_ms)))

millis == LoadLowFirst \/ LoadHighFirst \/ LoadHigh \/ LoadLow

Next == clockctl_isr \/ millis
Spec == Init /\ [][Next]_vars
------------------------------------------------------------------------------
\* How far the value read is from the moments of the call.
OffBy(n) == answer' + n \in asked .. interrupts

\* What millis() reads is the count at some moment of its call, unless the
\* low half overflows between the two reads: then it is off by 65536, in the
\* direction in which the halves are read, and a later call may return less.
OffByACarryAtMost ==
  [][up_at' = "main" /\ up_at # "main"
       => \/ OffBy(0)
          \/ High(asked) < High(interrupts) /\ OffBy(IF up_at = "low" THEN HALF ELSE - HALF)]_vars
==============================================================================
