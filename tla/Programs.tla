------------------------------- MODULE Programs ------------------------------
(***************************************************************************)
(* Programs, and one part of a library, that are a small loop or function  *)
(* and one interrupt handler.  They share nothing: the variable program    *)
(* says which of them the chip has been given.                             *)
(***************************************************************************)
EXTENDS TimeUs, Sequences

CONSTANTS MaxInterrupts, TRIGGER, RELEASE, LETTERS, FONTWIDTH, TOP,
          LCD_X_RES, LCD_ROWS, CY_MODULUS, X_RES, Y_ROWS, Run

ASSUME CyclesAssumption == TRIGGER \in Nat /\ RELEASE \in Nat
ASSUME MessageAssumption == LETTERS \in Nat \ {0} /\ FONTWIDTH \in Nat \ {0}
ASSUME ScreenAssumption == /\ LCD_X_RES \in Nat \ {0} /\ LCD_ROWS \in Nat \ {0}
                           /\ CY_MODULUS \in Nat \ {0}
                           /\ X_RES \in Nat /\ LCD_X_RES <= X_RES /\ Run \subseteq Nat

VARIABLES program,    \* beside those of TimeUs
          mcu_ms, up_at, half, interrupts, asked, answer,
          power_state, P1IFG, OUT_POWER, LED_POWER, box_at, odd,
          sense, state, laststate, dms_at, alert_cycles, resetting, is_alert,
          RELAYCTL, ALERTLED, STATUSLED,
          blank, step, position, LED_OUT, shown, again,
          level, dir, slice, delay, LED0, held, lit,
          cx, cy, x_addr, y_addr, left, ink, clear_row, inked

us == <<TAR, CCIFG, timeCountH, us_at, th, tl, time, called>>
up == <<mcu_ms, up_at, half, interrupts, asked, answer>>
box == <<power_state, P1IFG, OUT_POWER, LED_POWER, box_at, odd>>
dms == <<sense, state, laststate, dms_at, is_alert, alert_cycles, resetting,
         RELAYCTL, ALERTLED, STATUSLED>>
pov == <<blank, step, position, LED_OUT, shown, again>>
bcm == <<level, dir, slice, delay, LED0, held, lit>>
lcd == <<cx, cy, x_addr, y_addr, left, ink, clear_row, inked>>
allvars == <<program, us, up, box, dms, pov, bcm, lcd>>

Up == INSTANCE Uptime
Box == INSTANCE PowerBox
Dms == INSTANCE DmsReset
Pov == INSTANCE PovDisplay
Bcm == INSTANCE BitAngle
Lcd == INSTANCE Pcd8544

AnyInit == /\ program \in {"irrcv", "libarduino", "powerbox", "dmsreset", "mspov", "bcmtest",
                           "lcdtest"}
           /\ Init /\ Up!Init /\ Box!Init /\ Dms!Init /\ Pov!Init /\ Bcm!Init /\ Lcd!Init

AnyNext == \/ program = "irrcv" /\ Next /\ UNCHANGED <<program, up, box, dms, pov, bcm, lcd>>
           \/ program = "libarduino" /\ Up!Next /\ UNCHANGED <<program, us, box, dms, pov, bcm, lcd>>
           \/ program = "powerbox" /\ Box!Next /\ UNCHANGED <<program, us, up, dms, pov, bcm, lcd>>
           \/ program = "dmsreset" /\ Dms!Next /\ UNCHANGED <<program, us, up, box, pov, bcm, lcd>>
           \/ program = "mspov" /\ Pov!Next /\ UNCHANGED <<program, us, up, box, dms, bcm, lcd>>
           \/ program = "bcmtest" /\ Bcm!Next /\ UNCHANGED <<program, us, up, box, dms, pov, lcd>>
           \/ program = "lcdtest" /\ Lcd!Next /\ UNCHANGED <<program, us, up, box, dms, pov, bcm>>

AnySpec == AnyInit /\ [][AnyNext]_allvars
------------------------------------------------------------------------------
(* The properties of the seven, each explained in its module; that of      *)
(* irrcv is TimeIsOfTheCall of TimeUs.                                     *)

\* libarduino: the count that millis() reads is off by no more than a carry,
\* and only when the low half overflows during the call.
OffByACarryAtMost == Up!OffByACarryAtMost

\* powerbox: a press switches the power once, unless its flag comes while the
\* handler runs and is cleared unseen.
PressesAreCounted == Box!PressesAreCounted

\* dmsreset: the power is cut by the clock alone, however the device blinks.
RelayFollowsTheClock == Dms!RelayFollowsTheClock

\* mspov: each round shows the columns of the message, from the second round
\* on without the first letter.
ShowsMessage == Pov!ShowsMessage

\* bcmtest: a level that stays for a round of slices is lit for its weight.
LevelIsShown == Bcm!LevelIsShown

\* lcdtest-3310: a byte lands at the driver's cursor as long as that is on the
\* screen, and lcd_clear() blanks the screen.
BytesLandAtCursor == Lcd!BytesLandAtCursor
==============================================================================
