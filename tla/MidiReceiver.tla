----------------------------- MODULE MidiReceiver ----------------------------
(***************************************************************************)
(* The serial receiver of libmidi/midi-main.c.  The USI shifts the MIDI    *)
(* line in at four samples to a bit and interrupts every sixteen samples;  *)
(* the handler turns the samples into bits and the bits into bytes.  Its   *)
(* static variables and the mailbox it shares with the main program are    *)
(* one record, and what the body of its loop does to them is a function.   *)
(***************************************************************************)
EXTENDS Integers, SequencesExt

Receiver == [currentState : {0, 1},        \* level of the last sample
             bitStateCount : 0 .. 3,       \* samples since the last whole bit
             nextBitFinal : BOOLEAN,       \* the next bit completes a byte
             rawMidiByte : 0 .. 255,
             newByte : BOOLEAN,            \* midiByte waits for getNextByte()
             midiByte : 0 .. 255,
             handed : Seq(0 .. 255)]       \* history: bytes of this frame

PowerUp == [currentState |-> 1, bitStateCount |-> 0, nextBitFinal |-> FALSE,
            rawMidiByte |-> 0, newByte |-> FALSE, midiByte |-> 0,
            handed |-> <<>>]

\* A bit is complete: it is shifted in from the left.  The final one hands
\* the byte over, whether or not the byte before it has been taken.
ShiftIn(r) ==
  LET raw == r.rawMidiByte \div 2 + 128 * r.currentState
  IN  IF r.nextBitFinal
      THEN [r EXCEPT !.newByte = TRUE, !.midiByte = raw,
                     !.rawMidiByte = 255, !.nextBitFinal = FALSE,
                     !.handed = Append(@, raw)]
      ELSE [r EXCEPT !.rawMidiByte = raw]

\* An edge: three samples since the last bit are a bit, fewer are none.  (The
\* other form takes two for a bit.)
EdgeTwo(r) == LET shifted == IF r.bitStateCount > 1 THEN ShiftIn(r) ELSE r
              IN  [shifted EXCEPT !.currentState = 1 - @, !.bitStateCount = 1]

Edge(r) == LET shifted == IF r.bitStateCount > 2 THEN ShiftIn(r) ELSE r
           IN  [shifted EXCEPT !.currentState = 1 - @, !.bitStateCount = 1]

\* No edge: the fourth sample of the same level is a bit.  (The other form
\* does not start counting again.)
SameOn(r) == IF r.bitStateCount = 3 THEN ShiftIn(r)
             ELSE [r EXCEPT !.bitStateCount = @ + 1]

Same(r) == IF r.bitStateCount = 3
           THEN [ShiftIn(r) EXCEPT !.bitStateCount = 0]
           ELSE [r EXCEPT !.bitStateCount = @ + 1]

\* When the start bit has reached the right end the next bit is the last.
\* This is not noticed while a byte waits to be taken.
MarkFinal(r) == IF ~ r.newByte /\ r.rawMidiByte % 2 = 0
                THEN [r EXCEPT !.nextBitFinal = TRUE]
                ELSE r

Sampled(r, level) ==
  MarkFinal(IF level # r.currentState THEN Edge(r) ELSE Same(r))

\* Samples of the same level, one after the other: three to six of them.
Three(r, level) == Sampled(Sampled(Sampled(r, level), level), level)
Four(r, level) == Sampled(Three(r, level), level)
USI(r, level, n) == CASE n = 3 -> Three(r, level)
                      [] n = 4 -> Four(r, level)
                      [] n = 5 -> Sampled(Four(r, level), level)
                      [] n = 6 -> Sampled(Sampled(Four(r, level), level), level)

\* The level of a frame's n-th bit: start, eight data bits, stop.
FrameBit(byte, n) == CASE n = 0 -> 0
                       [] n \in 1 .. 8 -> (byte \div 2 ^ (n - 1)) % 2
                       [] n = 9 -> 1
==============================================================================
