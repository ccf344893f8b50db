------------------------------- MODULE BitAngle ------------------------------
(***************************************************************************)
(* projects/bcmtest/main.c (pwmtest/main.c is the same but for a comment): *)
(* the brightness of an LED by bit angle modulation.  The timer's handler  *)
(* shows the bits of a level in turn, each for as long as its weight; the  *)
(* loop of main() lets the level go up and down.                           *)
(***************************************************************************)
EXTENDS Integers, Sequences

CONSTANT TOP       \* the highest level: 15

VARIABLES level, dir,          \* main(): state, dir
          slice, delay, LED0,
          held,      \* history: the level has not changed in this round of slices
          lit        \* history: interrupts of this round after which the LED is on

vars == <<level, dir, slice, delay, LED0, held, lit>>

SLICES == 5
slicedelay == <<0, 1, 2, 4, 8>>

Init == /\ level = 0 /\ dir = "up"
        /\ slice = 0 /\ delay = 0 /\ LED0 = FALSE
        /\ held = FALSE /\ lit = 0     \* the first round begins with slice 1

Step == /\ level' = IF dir = "up" THEN level + 1 ELSE level - 1
        /\ dir' = IF level' = TOP THEN "down" ELSE IF level' = 0 THEN "up" ELSE dir
        /\ held' = FALSE
        /\ UNCHANGED <<slice, delay, LED0, lit>>

Bit(n, b) == (n \div 2 ^ b) % 2 = 1

FollowingSlice == IF slice + 1 > SLICES - 1 THEN 0 ELSE slice + 1

Lit(old) == old + IF LED0' THEN 1 ELSE 0

\* (The other form takes the delay of the slice before.)
NewSliceLate == /\ delay = 0
                /\ slice' = FollowingSlice
                /\ delay' = slicedelay[slice + 1]
                /\ LED0' = Bit(level, slice')
                /\ IF slice' = 0 THEN held' = TRUE /\ lit' = Lit(0)
                                  ELSE UNCHANGED held /\ lit' = Lit(lit)
                /\ UNCHANGED <<level, dir>>

NewSlice == /\ delay = 0
            /\ slice' = FollowingSlice
            /\ delay' = slicedelay[slice' + 1]
            /\ LED0' = Bit(level, slice')
            /\ IF slice' = 0 THEN held' = TRUE /\ lit' = Lit(0)
                              ELSE UNCHANGED held /\ lit' = Lit(lit)
            /\ UNCHANGED <<level, dir>>

SameSlice == /\ delay > 0
             /\ delay' = delay - 1
             /\ UNCHANGED <<level, dir, slice, LED0, held>>
             /\ lit' = Lit(lit)

timer0_isr == NewSlice \/ SameSlice

Next == Step \/ timer0_isr
Spec == Init /\ [][Next]_vars
------------------------------------------------------------------------------
\* For how many interrupts a round shows a level: one more than slicedelay for
\* each of its bits, so that bits 0 to 4 weigh 1, 2, 3, 5 and 9.
BitWeight(n, b) == IF Bit(n, b) THEN slicedelay[b + 1] + 1 ELSE 0
Weight(n) == BitWeight(n, 0) + BitWeight(n, 1) + BitWeight(n, 2) + BitWeight(n, 3)
               + BitWeight(n, 4)

\* A level that stays for a round of slices is shown for its weight, whenever
\* the loop changed it before: the handler neither drops nor repeats a slice.
\* (The weights are not those of binary numbers, which start at 1, 2, 4: level
\* 4 is as bright as level 3, and 8 is darker than 7.)
LevelIsShown == [][slice' = 0 /\ slice # 0 /\ held => lit = Weight(level)]_vars
==============================================================================
