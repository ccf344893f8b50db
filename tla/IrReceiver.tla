----------------------------- MODULE IrReceiver ------------------------------
(***************************************************************************)
(* The infrared receiver of projects/irrcv/main.c.  A remote control sends *)
(* a command as bursts; what counts is the time from the end of one burst  *)
(* to the end of the next.  The port's handler measures it with a timer    *)
(* that wraps, classifies it, and collects the bits of a command for the   *)
(* main program.                                                           *)
(*                                                                         *)
(* A burst may be lost, and light from elsewhere may look like one.        *)
(***************************************************************************)
EXTENDS Integers, FiniteSets

CONSTANTS IR_SYMBOL_START, IR_SYMBOL_LONG, IR_SYMBOL_SHORT,
          TOLERANCE,
          IR_BIT_COUNT,
          Wrap,            \* the timer counts from 0 to Wrap - 1
          Pause,           \* the time between two commands
          Drift            \* by how much the remote's clock lags

ASSUME SymbolAssumption ==
  /\ {IR_SYMBOL_START, IR_SYMBOL_LONG, IR_SYMBOL_SHORT} \subseteq Nat
  /\ TOLERANCE \in Nat /\ Drift \subseteq 0 .. TOLERANCE - 1
  /\ IR_BIT_COUNT \in Nat \ {0}
ASSUME TimerAssumption == Wrap \in Nat \ {0} /\ Pause \in Nat \ {0}

\* The symbols stay apart, also when the clock lags, when a time comes out one
\* short, and when a burst within one of them cuts it in two.
ASSUME ApartAssumption ==
  /\ TOLERANCE > 1 /\ IR_BIT_COUNT > 1
  /\ IR_SYMBOL_LONG + 2 * TOLERANCE <= IR_SYMBOL_START + 1
  /\ IR_SYMBOL_SHORT + 2 * TOLERANCE <= IR_SYMBOL_LONG + 1
  /\ 3 * TOLERANCE <= IR_SYMBOL_SHORT + 2
  /\ IR_SYMBOL_START + TOLERANCE <= Wrap

VARIABLES irCommand, irBitCount, prev,  \* static in Port_1()
          irReceivedCommand,
          next,      \* the edge the remote sends next: that of the first
                     \* burst, of the start symbol, of bit 1, 2, ...
          bits,      \* the command it sends
          late,      \* time since the last edge seen, at the last edge sent
          calm,      \* history: 0 if a burst of this command was lost or
                     \* added, 1 if one of the last command was, else 2
          begun      \* history: commands begun since power up, up to two

device == <<irCommand, irBitCount, prev, irReceivedCommand>>
remote == <<next, bits, late, calm, begun>>
vars == <<device, remote>>

First == 0
Start == 1
FinalEdge == IR_BIT_COUNT + 1
Invalid == IR_BIT_COUNT + 1      \* irBitCount: no start symbol, or an error
Commands == [1 .. IR_BIT_COUNT -> {0, 1}]

Zero == [i \in 1 .. IR_BIT_COUNT |-> 0]

\* command <<= 1, and the bit b, in an integer of IR_BIT_COUNT bits.
Shift(command, b) ==
  [i \in 1 .. IR_BIT_COUNT |-> IF i < IR_BIT_COUNT THEN command[i + 1] ELSE b]

\* At power up the remote may be anywhere in a command.
Init == /\ irCommand = Zero /\ irBitCount = 0 /\ prev = 0
        /\ irReceivedCommand = Zero
        /\ next \in First .. FinalEdge /\ bits \in Commands
        /\ late \in 0 .. Wrap - 1
        /\ calm = 2 /\ begun = 0
------------------------------------------------------------------------------
\* The time from prev to now, one short when the timer has wrapped.  (The
\* other form takes the difference the wrong way round.)
DeltaReversed(now) == IF now > prev THEN now - prev ELSE prev - now

Delta(now) == IF now > prev THEN now - prev ELSE (Wrap - 1) - (prev - now)

Near(delta, time) == delta > time - TOLERANCE /\ delta < time + TOLERANCE

Symbol(delta) == CASE Near(delta, IR_SYMBOL_START) -> "START"
                   [] Near(delta, IR_SYMBOL_LONG) -> "LONG"
                   [] Near(delta, IR_SYMBOL_SHORT) -> "SHORT"
                   [] OTHER -> "ERROR"

\* The pause looks like no symbol, though the timer wraps in it: also when it
\* is measured from the edge before the last, that one being lost.
ASSUME PauseAssumption ==
  \A before \in {0, IR_SYMBOL_LONG, IR_SYMBOL_SHORT}, short \in {0, 1} :
    Symbol(((before + Pause) - short) % Wrap) = "ERROR"

\* A command is complete: it is handed over and no more bits are taken.
Deliver(count, command) ==
  IF count = IR_BIT_COUNT
  THEN irReceivedCommand' = command /\ irBitCount' = Invalid
  ELSE irBitCount' = count /\ UNCHANGED irReceivedCommand

StartSymbol == irCommand' = Zero /\ Deliver(0, Zero)

\* (The other form goes on with the command.)
ErrorPassedOver == UNCHANGED irCommand /\ Deliver(irBitCount, irCommand)

ErrorSymbol == UNCHANGED irCommand /\ Deliver(Invalid, irCommand)

\* (The other form does not look at the count.)
BitUncounted(b) == /\ irCommand' = Shift(irCommand, b)
                   /\ Deliver(irBitCount + 1, irCommand')

BitSymbol(b) ==
  IF irBitCount <= IR_BIT_COUNT
  THEN /\ irCommand' = Shift(irCommand, b)
       /\ Deliver(irBitCount + 1, irCommand')
  ELSE UNCHANGED irCommand /\ Deliver(irBitCount, irCommand)

\* An edge, time after the last one.
Port_1(time) ==
  LET now == (prev + time) % Wrap
      symbol == Symbol(Delta(now))
  IN  /\ prev' = now
      /\ \/ symbol = "START" /\ StartSymbol
         \/ symbol = "ERROR" /\ ErrorSymbol
         \/ symbol = "LONG" /\ BitSymbol(1)
         \/ symbol = "SHORT" /\ BitSymbol(0)

\* The main loop reads the command and clears it, if there is one.
Main == /\ irReceivedCommand # Zero
        /\ irReceivedCommand' = Zero
        /\ UNCHANGED <<irCommand, irBitCount, prev, remote>>
------------------------------------------------------------------------------
\* The time the remote leaves before its next edge.
Interval(drift) ==
  CASE next = First -> Pause
    [] next = Start -> IR_SYMBOL_START + drift
    [] OTHER -> drift + IF bits[next - 1] = 1 THEN IR_SYMBOL_LONG
                                              ELSE IR_SYMBOL_SHORT

\* The remote goes on to the edge after the next, or to a new command.
Advance(calmness) ==
  /\ begun' = IF next = First /\ begun < 2 THEN begun + 1 ELSE begun
  /\ IF next = FinalEdge
     THEN /\ next' = First /\ bits' \in Commands
          /\ calm' = IF calmness < 2 THEN calmness + 1 ELSE 2
     ELSE next' = next + 1 /\ UNCHANGED bits /\ calm' = calmness

Burst == \E drift \in Drift :
           /\ late + Interval(drift) > 0
           /\ Port_1(late + Interval(drift))
           /\ Advance(calm)
           /\ late' = 0

\* The receiver does not see a burst.
LoseBurst == /\ calm = 2
             /\ late' = (late + Interval(0)) % Wrap
             /\ Advance(0)
             /\ UNCHANGED device

\* It sees one that the remote did not send.
AddBurst == /\ calm = 2
            /\ \E time \in 1 .. Interval(0) - 1 :
                 /\ Port_1(late + time)
                 /\ late' = - time
            /\ calm' = 0
            /\ UNCHANGED <<next, bits, begun>>

Next == Main \/ Burst \/ LoseBurst \/ AddBurst
Spec == Init /\ [][Next]_vars
------------------------------------------------------------------------------
\* The variables keep their types: in particular the bit count never exceeds
\* the mark of an invalid command, so it cannot wrap (Port_1()).
TypeOK == /\ irCommand \in Commands
          /\ irBitCount \in (0 .. Invalid) \ {IR_BIT_COUNT}
          /\ prev \in 0 .. Wrap - 1
          /\ irReceivedCommand \in Commands
          /\ next \in First .. FinalEdge /\ bits \in Commands

\* Whatever came before, and wherever the timer wraps, a command that is not
\* disturbed is handed over with its last edge.  (After an error the bits
\* are ignored, but the next start symbol begins anew: the comment at
\* irrcv/main.c:100 expects this command to be lost as well.)
CleanCommandIsReceived ==
  [][next = FinalEdge /\ late' = 0 /\ begun > 0 /\ calm > 0 /\ next' = First
       => irReceivedCommand' = bits]_vars

\* The command with its i-th bit, a 1, taken for two 0s.
Halved(i) == [k \in 1 .. IR_BIT_COUNT |-> IF k < i THEN bits[k]
                                          ELSE IF k <= i + 1 THEN 0 ELSE bits[k - 1]]

\* What is handed over: the command, but for its last bit, with its last edge;
\* or one with two 0s for a 1, an edge early.
OwnCommand == /\ next = FinalEdge
              /\ \A i \in 1 .. IR_BIT_COUNT - 1 : irReceivedCommand'[i] = bits[i]
HalvedCommand == /\ next = FinalEdge - 1
                 /\ \E i \in 1 .. IR_BIT_COUNT - 1 : /\ bits[i] = 1
                                                    /\ irReceivedCommand' = Halved(i)

\* One burst lost, with a whole command before the next, makes the receiver
\* miss a command, never invent one: what is handed over is the command that
\* is being sent, at its last edge.  (But for the bits taken from power up on,
\* before any start symbol, up to the second command.)  A burst added does
\* harm in two ways only: within the last interval it may change the last
\* bit; and in the middle of a long interval, when the clock lags, it makes
\* two short ones of it, and the last bit is left out.
NothingInvented ==
  [][begun = 2 /\ irReceivedCommand' \notin {Zero, irReceivedCommand}
       => OwnCommand \/ HalvedCommand]_vars
==============================================================================
