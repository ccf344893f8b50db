-------------------------------- MODULE TimeUs -------------------------------
(***************************************************************************)
(* The time base of projects/irrcv/main.c: the timer counts in TAR, its    *)
(* interrupt counts the wraps in timeCountH, and getTimeUs() puts the two  *)
(* together without switching interrupts off.                              *)
(*                                                                         *)
(* A step of getTimeUs() is an instruction.  A pending interrupt is served *)
(* before the next one, but the timer may go on, and wrap, within one.     *)
(* (That the joined time itself wraps, after 71 minutes, is left out.)     *)
(***************************************************************************)
EXTENDS Halves

CONSTANT MaxTime    \* bound: microseconds since the start

VARIABLES TAR, CCIFG, timeCountH,
          us_at, th, tl,      \* getTimeUs(): the next instruction, its variables
          time,               \* history: the time since the start
          called              \* history: the time of the call

timer == <<TAR, CCIFG, time>>
call == <<us_at, th, tl, called>>
vars == <<timer, timeCountH, call>>

Init == /\ TAR = 0 /\ CCIFG = FALSE /\ timeCountH = 0
        /\ us_at = "main" /\ th = 0 /\ tl = 0
        /\ time = 0 /\ called = 0

\* The timer counts, or does not, while an instruction executes.
Passes(t) == /\ time' = time + t
             /\ TAR' = (TAR + t) % HALF
             /\ CCIFG' = (CCIFG \/ TAR + t = HALF)

\* Time passes in main(), and in handlers, which are shorter than a wrap.
Tick == /\ time < MaxTime /\ ~(CCIFG /\ TAR + 1 = HALF)
        /\ Passes(1)
        /\ UNCHANGED <<timeCountH, call>>

timerA == /\ CCIFG /\ CCIFG' = FALSE
          /\ timeCountH' = timeCountH + 1
          /\ UNCHANGED <<TAR, time, call>>

Instruction(from, to) == /\ ~CCIFG
                         /\ us_at = from /\ us_at' = to
                         /\ \E t \in 0 .. 1 : time + t <= MaxTime /\ Passes(t)
                         /\ UNCHANGED timeCountH

Call == /\ Instruction("main", "high")
        /\ called' = time
        /\ UNCHANGED <<th, tl>>

ReadHigh == /\ Instruction("high", "low")
            /\ th' = timeCountH
            /\ UNCHANGED <<tl, called>>

\* TAR is read at the end of the instruction.
ReadLow == /\ Instruction("low", "compare")
           /\ tl' = TAR'
           /\ UNCHANGED <<th, called>>

\* while (timeCountH != th).  (The other form does not repeat.)
CompareOnce == Instruction("compare", "main") /\ UNCHANGED <<th, tl, called>>

Compare == /\ Instruction("compare", IF timeCountH # th THEN "high" ELSE "main")
           /\ UNCHANGED <<th, tl, called>>

getTimeUs == Call \/ ReadHigh \/ ReadLow \/ Compare

Next == Tick \/ timerA \/ getTimeUs
Spec == Init /\ [][Next]_vars
------------------------------------------------------------------------------
TypeOK == /\ TAR \in 0 .. HALF - 1 /\ CCIFG \in BOOLEAN
          /\ us_at \in {"main", "high", "low", "compare"}
          /\ timeCountH \in Nat /\ th \in Nat /\ tl \in Nat
          /\ time \in Nat /\ called \in Nat

\* What getTimeUs() returns is the time of some moment of its call: the halves
\* belong together, wherever the timer wraps and its interrupt comes, so that
\* of two calls the later never returns less.
TimeIsOfTheCall ==
  [][us_at = "compare" /\ us_at' = "main" => Joined(th, tl) \in called .. time']_vars
==============================================================================
