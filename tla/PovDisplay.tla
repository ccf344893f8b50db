------------------------------ MODULE PovDisplay -----------------------------
(***************************************************************************)
(* projects/mspov/main.c: the timer's handler shows a message on a column  *)
(* of LEDs, one column of a letter at a time, and a dark column between    *)
(* any two.                                                                *)
(***************************************************************************)
EXTENDS Naturals, Sequences

CONSTANTS LETTERS,      \* letters of the message
          FONTWIDTH     \* columns of a letter: 5

VARIABLES blank, step, position,   \* static in TIMERA0_ISR()
          LED_OUT,     \* Dark, or the letter and the column shown
          shown,       \* history: the columns since the message began
          again        \* history: the message has begun before

vars == <<blank, step, position, LED_OUT, shown, again>>

Dark == <<>>

Init == /\ blank = FALSE /\ step = 0 /\ position = 0 /\ LED_OUT = Dark
        /\ shown = <<>> /\ again = FALSE

BlankColumn == /\ blank /\ blank' = FALSE
               /\ LED_OUT' = Dark
               /\ UNCHANGED <<step, position, shown, again>>

\* The end of the message: dark for FONTWIDTH + 1 columns.  The position stays
\* behind the last column.
AfterMessage == /\ step = LETTERS
                /\ LED_OUT' = Dark
                /\ position' = position + 1
                /\ IF position' > FONTWIDTH
                   THEN step' = 0 /\ shown' = <<>> /\ again' = TRUE
                   ELSE UNCHANGED <<step, shown, again>>

Column == /\ step < LETTERS /\ position < FONTWIDTH
          /\ LED_OUT' = <<step, position>>
          /\ shown' = Append(shown, LED_OUT')
          /\ position' = position + 1
          /\ UNCHANGED <<step, again>>

\* The LEDs keep what they show.  (The other form forgets the position.)
NextLetterOnly == /\ step < LETTERS /\ position >= FONTWIDTH
                  /\ step' = step + 1
                  /\ UNCHANGED <<position, LED_OUT, shown, again>>

NextLetter == /\ step < LETTERS /\ position >= FONTWIDTH
              /\ step' = step + 1 /\ position' = 0
              /\ UNCHANGED <<LED_OUT, shown, again>>

TIMERA0_ISR == \/ BlankColumn
               \/ ~blank /\ blank' = TRUE /\ (AfterMessage \/ Column \/ NextLetter)

Next == TIMERA0_ISR
Spec == Init /\ [][Next]_vars
------------------------------------------------------------------------------
\* The columns of the letters from the first one on, in order.
Columns(first) == [i \in 1 .. (LETTERS - first) * FONTWIDTH |->
                     <<first + (i - 1) \div FONTWIDTH, (i - 1) % FONTWIDTH>>]

\* Each time round the columns of the message are shown in order, each once,
\* and all of them before the message ends: but from the second time on
\* without the first letter, whose columns the position has run past.
ShowsMessage ==
  LET expected == Columns(IF again THEN 1 ELSE 0)
  IN  /\ shown = SubSeq(expected, 1, Len(shown))
      /\ step = LETTERS => shown = expected
==============================================================================
