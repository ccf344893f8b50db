------------------------------- MODULE DmsReset ------------------------------
(***************************************************************************)
(* projects/dmsreset: a switch that is to cut the power of a device that   *)
(* has stopped blinking.  The timer's handler counts seconds and works the *)
(* relay; the loop of main() watches the device's LED and shows it.        *)
(***************************************************************************)
EXTENDS Naturals

CONSTANTS TRIGGER, RELEASE    \* alert_cycles above which the power is cut,
                              \* and given back: 10 and 15

VARIABLES sense,                       \* the device's LED
          state, laststate, dms_at,    \* main(): what it has read
          is_alert, alert_cycles, resetting,
          RELAYCTL, ALERTLED, STATUSLED

watch == <<sense, state, laststate, dms_at>>
relay == <<RELAYCTL, ALERTLED>>
count == <<is_alert, alert_cycles, resetting>>
vars == <<watch, relay, count, STATUSLED>>

Init == /\ sense = FALSE /\ state = FALSE /\ laststate = FALSE /\ dms_at = "read"
        /\ is_alert = FALSE /\ alert_cycles = 0 /\ resetting = FALSE
        /\ RELAYCTL = TRUE /\ ALERTLED = FALSE    \* relaySetState(1)
        /\ STATUSLED = FALSE

Blink == /\ sense' = ~sense
         /\ UNCHANGED <<state, laststate, dms_at, relay, count, STATUSLED>>

relaySetState(on) == RELAYCTL' = on /\ ALERTLED' = ~on

\* The handler.  (The other form raises the alert that main() tests.)
Release == /\ alert_cycles' = 0 /\ resetting' = FALSE /\ STATUSLED' = FALSE
           /\ relaySetState(TRUE)

CutAndAlert == is_alert' = TRUE /\ resetting' = TRUE /\ relaySetState(FALSE)
Cut == resetting' = TRUE /\ relaySetState(FALSE) /\ UNCHANGED is_alert

TIMERA0_ISR ==
  /\ IF alert_cycles + 1 > RELEASE
     THEN Release /\ UNCHANGED is_alert
     ELSE /\ alert_cycles' = alert_cycles + 1
          /\ IF alert_cycles + 1 > TRIGGER THEN Cut
             ELSE ALERTLED' = TRUE /\ UNCHANGED <<is_alert, resetting, RELAYCTL>>
          /\ UNCHANGED STATUSLED
  /\ UNCHANGED watch

Goto(from, to) == dms_at = from /\ dms_at' = to /\ UNCHANGED sense

Read == /\ Goto("read", "compare")
        /\ state' = sense
        /\ UNCHANGED <<laststate, relay, count, STATUSLED>>

\* A blink puts an end to an alert.
Compare == /\ Goto("compare", "reflect")
           /\ laststate' = state
           /\ IF state # laststate /\ is_alert /\ ~resetting
              THEN is_alert' = FALSE /\ alert_cycles' = 0 /\ relaySetState(TRUE)
              ELSE UNCHANGED <<is_alert, alert_cycles, relay>>
           /\ UNCHANGED <<state, resetting, STATUSLED>>

Reflect == /\ Goto("reflect", "read")
           /\ STATUSLED' = state
           /\ UNCHANGED <<state, laststate, relay, count>>

Main == Read \/ Compare \/ Reflect
Next == Blink \/ TIMERA0_ISR \/ Main
Spec == Init /\ [][Next]_vars
------------------------------------------------------------------------------
\* The power is cut for RELEASE - TRIGGER seconds out of every RELEASE + 1,
\* however often the device blinks: nothing sets is_alert, and so the loop
\* never reaches the count that the handler keeps.  (The README has the switch
\* wait for a device that does not blink.)
RelayFollowsTheClock ==
  [][/\ alert_cycles' \in {alert_cycles, (alert_cycles + 1) % (RELEASE + 1)}
     /\ RELAYCTL' <=> alert_cycles' \notin TRIGGER + 1 .. RELEASE]_vars
==============================================================================
