------------------------------- MODULE PowerBox ------------------------------
(***************************************************************************)
(* projects/powerbox/main.c: the handler of two push buttons that switches *)
(* the power on and off.  It runs with interrupts disabled, but a press    *)
(* sets its flag at any moment, and the handler clears both flags at its   *)
(* end.  STA_ERROR is never set, so the reset button does nothing.         *)
(***************************************************************************)
EXTENDS Naturals

VARIABLES power_state, P1IFG, OUT_POWER, LED_POWER,
          box_at,       \* the next statement of port1_isr()
          odd           \* history: whether the presses of the power button
                        \* were odd, but those whose flag the handler clears
                        \* without having looked at it

port == <<OUT_POWER, LED_POWER>>
vars == <<power_state, P1IFG, port, box_at, odd>>

Button == {"BTN_POWER", "BTN_RESET"}

Init == /\ power_state = "OFF" /\ P1IFG = {} /\ OUT_POWER = FALSE /\ LED_POWER = FALSE
        /\ box_at = "main" /\ odd = FALSE

\* The handler will still look at a flag that is set now.
WillTest == box_at \in {"main", "unlight"}

\* A second press before the handler has looked at the first is not noticed.
Press(b) == /\ P1IFG' = P1IFG \cup {b}
            /\ odd' = IF b = "BTN_POWER" /\ b \notin P1IFG /\ WillTest THEN ~odd ELSE odd
            /\ UNCHANGED <<power_state, port, box_at>>

Goto(from, to) == box_at = from /\ box_at' = to /\ UNCHANGED odd

toggle_power == IF power_state = "OFF"
                THEN power_state' = "ON" /\ OUT_POWER' = TRUE /\ LED_POWER' = TRUE
                ELSE power_state' = "OFF" /\ OUT_POWER' = FALSE /\ LED_POWER' = FALSE

TestPower == /\ P1IFG # {}
             /\ Goto("main", "light")
             /\ IF "BTN_POWER" \in P1IFG THEN toggle_power ELSE UNCHANGED <<power_state, port>>
             /\ UNCHANGED P1IFG

Light == /\ Goto("light", "clear")
         /\ LED_POWER' = TRUE
         /\ UNCHANGED <<power_state, P1IFG, OUT_POWER>>

\* (The other form does not clear the flag of the power button.)
ClearResetOnly == /\ Goto("clear", "unlight")
                  /\ P1IFG' = P1IFG \ {"BTN_RESET"}
                  /\ UNCHANGED <<power_state, port>>

Clear == /\ Goto("clear", "unlight")
         /\ P1IFG' = P1IFG \ Button
         /\ UNCHANGED <<power_state, port>>

Unlight == /\ Goto("unlight", "main")
           /\ LED_POWER' = FALSE
           /\ UNCHANGED <<power_state, P1IFG, OUT_POWER>>

port1_isr == TestPower \/ Light \/ Clear \/ Unlight

Next == port1_isr \/ \E b \in Button : Press(b)
Spec == Init /\ [][Next]_vars
------------------------------------------------------------------------------
\* Each press switches the power, and switches it once, but for those that
\* come between the handler's look at the flags and its clearing of both: they
\* are lost.  The output follows the state, and the power LED is dark whenever
\* the handler does not run, on or off (against the comment of line 142).
PressesAreCounted ==
  /\ (power_state = "ON") <=> (odd # (WillTest /\ "BTN_POWER" \in P1IFG))
  /\ OUT_POWER <=> power_state = "ON"
  /\ box_at = "main" => ~LED_POWER
==============================================================================
