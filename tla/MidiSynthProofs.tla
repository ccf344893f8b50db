--------------------------- MODULE MidiSynthProofs ---------------------------
(***************************************************************************)
(* midi-main.c for every polyphony, keyboard and sampling.                 *)
(*                                                                         *)
(* At rest the array mirrors the keys; between rests it does not, as there *)
(* are bytes on their way.  The invariant therefore speaks of the state    *)
(* that the main program will be in when it has taken the bytes that are   *)
(* still unread: Replay(Now, Unread).  A bit of the sender moves a byte    *)
(* from the line to the mailbox and changes neither; a handler takes the   *)
(* first byte, which is one step of the replay; only a new message changes *)
(* what will have been taken, and by then the message before it is gone    *)
(* from the line, so that at most four bytes are ever unread.              *)
(*                                                                         *)
(* Below that is the receiver: after i bits of a frame it has shifted in i *)
(* of them, or i - 1 and three samples (At), which survives every run of   *)
(* three to six samples after an edge and of four otherwise.               *)
(***************************************************************************)
EXTENDS MidiSynth, SequenceTheorems, WellFoundedInduction, TLAPS

\* The handler's byte when k bits of the frame of b have been shifted in.
Raw(b, k) == CASE k = 1 -> 127
               [] k = 2 -> 128 * (b % 2) + 63
               [] k = 3 -> 64 * (b % 4) + 31
               [] k = 4 -> 32 * (b % 8) + 15
               [] k = 5 -> 16 * (b % 16) + 7
               [] k = 6 -> 8 * (b % 32) + 3
               [] k = 7 -> 4 * (b % 64) + 1
               [] k = 8 -> 2 * (b % 128)
               [] OTHER -> 255

\* The receiver within the frame of b: k bits are shifted in, the level is
\* that of the last sample.
Within(r, b, k, level) ==
  /\ r \in Receiver
  /\ r.currentState = level
  /\ r.rawMidiByte = Raw(b, k)
  /\ r.nextBitFinal = (k = 8)
  /\ r.handed = IF k >= 9 THEN <<b>> ELSE <<>>
  /\ k = 8 => ~ r.newByte

------------------------------------------------------------------------------
LEMMA FrameBits ==
  ASSUME NEW b \in 0 .. 255
  PROVE  /\ FrameBit(b, 0) = 0
         /\ FrameBit(b, 1) = b % 2
         /\ FrameBit(b, 2) = (b \div 2) % 2
         /\ FrameBit(b, 3) = (b \div 4) % 2
         /\ FrameBit(b, 4) = (b \div 8) % 2
         /\ FrameBit(b, 5) = (b \div 16) % 2
         /\ FrameBit(b, 6) = (b \div 32) % 2
         /\ FrameBit(b, 7) = (b \div 64) % 2
         /\ FrameBit(b, 8) = (b \div 128) % 2
         /\ FrameBit(b, 9) = 1
  BY SMT DEF FrameBit

LEMMA RawValues ==
  ASSUME NEW b \in 0 .. 255, NEW k \in 0 .. 10
  PROVE  /\ Raw(b, k) \in 0 .. 255
         /\ Raw(b, k) % 2 = 0 <=> k = 8
         /\ k \in 0 .. 9 => FrameBit(b, k) \in {0, 1}
  <1>0. CASE k = 0
    BY <1>0, FrameBits, SMT DEF Raw
  <1>1. CASE k = 1
    BY <1>1, FrameBits, SMT DEF Raw
  <1>2. CASE k = 2
    BY <1>2, FrameBits, SMT DEF Raw
  <1>3. CASE k = 3
    BY <1>3, FrameBits, SMT DEF Raw
  <1>4. CASE k = 4
    BY <1>4, FrameBits, SMT DEF Raw
  <1>5. CASE k = 5
    BY <1>5, FrameBits, SMT DEF Raw
  <1>6. CASE k = 6
    BY <1>6, FrameBits, SMT DEF Raw
  <1>7. CASE k = 7
    BY <1>7, FrameBits, SMT DEF Raw
  <1>8. CASE k = 8
    BY <1>8, FrameBits, SMT DEF Raw
  <1>9. CASE k = 9
    BY <1>9, FrameBits, SMT DEF Raw
  <1>10. CASE k = 10
    BY <1>10, SMT DEF Raw
  <1> QED BY <1>0, <1>1, <1>2, <1>3, <1>4, <1>5, <1>6, <1>7, <1>8, <1>9, <1>10

\* One more bit.
LEMMA RawShifts ==
  ASSUME NEW b \in 0 .. 255, NEW k \in 0 .. 9
  PROVE  (Raw(b, k) \div 2) + 128 * FrameBit(b, k) = IF k = 8 THEN b ELSE Raw(b, k + 1)
  <1>0. CASE k = 0
    BY <1>0, FrameBits, SMT DEF Raw
  <1>1. CASE k = 1
    BY <1>1, FrameBits, SMT DEF Raw
  <1>2. CASE k = 2
    BY <1>2, FrameBits, SMT DEF Raw
  <1>3. CASE k = 3
    BY <1>3, FrameBits, SMT DEF Raw
  <1>4. CASE k = 4
    BY <1>4, FrameBits, SMT DEF Raw
  <1>5. CASE k = 5
    BY <1>5, FrameBits, SMT DEF Raw
  <1>6. CASE k = 6
    BY <1>6, FrameBits, SMT DEF Raw
  <1>7. CASE k = 7
    BY <1>7, FrameBits, SMT DEF Raw
  <1>8. CASE k = 8
    BY <1>8, FrameBits, SMT DEF Raw
  <1>9. CASE k = 9
    BY <1>9, FrameBits, SMT DEF Raw
  <1> QED BY <1>0, <1>1, <1>2, <1>3, <1>4, <1>5, <1>6, <1>7, <1>8, <1>9

\* s is r with bit k of the frame of b shifted in.
ShiftedIn(r, s, b, k) ==
  /\ s \in Receiver
  /\ s.currentState = r.currentState /\ s.bitStateCount = r.bitStateCount
  /\ s.rawMidiByte = Raw(b, k + 1) /\ s.nextBitFinal = FALSE
  /\ s.handed = IF k + 1 >= 9 THEN <<b>> ELSE <<>>
  /\ s.newByte = IF k = 8 THEN TRUE ELSE r.newByte
  /\ s.midiByte = IF k = 8 THEN b ELSE r.midiByte

LEMMA ShiftInEffect ==
  ASSUME NEW b \in 0 .. 255, NEW k \in 0 .. 9, NEW r, Within(r, b, k, FrameBit(b, k))
  PROVE  ShiftedIn(r, ShiftIn(r), b, k)
  <1>1. /\ r \in Receiver /\ r.rawMidiByte = Raw(b, k) /\ r.currentState = FrameBit(b, k)
        /\ r.nextBitFinal = (k = 8)
        /\ r.handed = IF k >= 9 THEN <<b>> ELSE <<>>
    BY DEF Within
  <1>2. (r.rawMidiByte \div 2) + 128 * r.currentState = IF k = 8 THEN b ELSE Raw(b, k + 1)
    <2>1. (Raw(b, k) \div 2) + 128 * FrameBit(b, k) = IF k = 8 THEN b ELSE Raw(b, k + 1)
      BY RawShifts
    <2> QED BY <1>1, <2>1, Zenon
  <1>3. CASE k = 8
    <2>1. r.handed = <<>> /\ Append(<<>>, b) = <<b>> /\ <<b>> \in Seq(0 .. 255)
      BY <1>1, <1>3
    <2>2. ShiftIn(r) = [r EXCEPT !.newByte = TRUE, !.midiByte = b,
                                 !.rawMidiByte = 255, !.nextBitFinal = FALSE,
                                 !.handed = <<b>>]
      BY <1>1, <1>2, <1>3, <2>1 DEF ShiftIn
    <2>3. Raw(b, k + 1) = 255
      BY <1>3, SMT DEF Raw
    <2>4. k + 1 >= 9 /\ b \in 0 .. 255 /\ 255 \in 0 .. 255
      BY <1>3, SMT
    <2>5. ShiftIn(r) \in Receiver
      <3>1. [r EXCEPT !.newByte = TRUE, !.midiByte = b, !.rawMidiByte = 255] \in Receiver
        BY <1>1, <2>4 DEF Receiver
      <3>2. [[r EXCEPT !.newByte = TRUE, !.midiByte = b, !.rawMidiByte = 255]
               EXCEPT !.nextBitFinal = FALSE, !.handed = <<b>>] \in Receiver
        BY <2>1, <3>1 DEF Receiver
      <3> QED BY <2>2, <3>2
    <2> QED BY <1>1, <1>3, <2>1, <2>2, <2>3, <2>4, <2>5 DEF Receiver, ShiftedIn
  <1>4. CASE k # 8
    <2>1. ShiftIn(r) = [r EXCEPT !.rawMidiByte = Raw(b, k + 1)]
      BY <1>1, <1>2, <1>4 DEF ShiftIn
    <2>2. k + 1 \in 0 .. 10 /\ (k + 1 >= 9 <=> k >= 9) /\ Raw(b, k + 1) \in 0 .. 255
      <3>1. k + 1 \in 0 .. 10 /\ (k + 1 >= 9 <=> k >= 9)
        BY <1>4, SMT
      <3> QED BY <3>1, RawValues
    <2> QED BY <1>1, <1>4, <2>1, <2>2 DEF Receiver, ShiftedIn
  <1> QED BY <1>3, <1>4

\* s is r but for its count.
Counted(r, s, count) ==
  /\ s \in Receiver /\ s.bitStateCount = count
  /\ s.currentState = r.currentState /\ s.rawMidiByte = r.rawMidiByte
  /\ s.nextBitFinal = r.nextBitFinal /\ s.handed = r.handed
  /\ s.newByte = r.newByte /\ s.midiByte = r.midiByte

LEMMA CountIsSet ==
  ASSUME NEW r \in Receiver, NEW count \in 0 .. 3
  PROVE  Counted(r, [r EXCEPT !.bitStateCount = count], count)
  BY DEF Receiver, Counted

\* Looking for the start bit at the right end marks the last bit, and nothing
\* else.
LEMMA MarkFinalEffect ==
  ASSUME NEW b \in 0 .. 255, NEW k \in 0 .. 10, NEW r \in Receiver, NEW level,
         r.currentState = level, r.rawMidiByte = Raw(b, k),
         r.nextBitFinal => k = 8,
         r.handed = IF k >= 9 THEN <<b>> ELSE <<>>,
         k = 8 => ~ r.newByte
  PROVE  /\ Within(MarkFinal(r), b, k, level)
         /\ MarkFinal(r).bitStateCount = r.bitStateCount
         /\ MarkFinal(r).newByte = r.newByte /\ MarkFinal(r).midiByte = r.midiByte
  <1>1. r.rawMidiByte % 2 = 0 <=> k = 8
    <2>1. Raw(b, k) % 2 = 0 <=> k = 8
      BY RawValues
    <2> QED BY <2>1, Zenon
  <1>2. r.nextBitFinal \in BOOLEAN
    BY DEF Receiver
  <1>3. CASE k = 8
    <2>1. MarkFinal(r) = [r EXCEPT !.nextBitFinal = TRUE]
      BY <1>1, <1>3 DEF MarkFinal
    <2>2. MarkFinal(r) \in Receiver
      BY <2>1 DEF Receiver
    <2> QED BY <1>3, <2>1, <2>2 DEF Within, Receiver
  <1>4. CASE k # 8
    <2>1. MarkFinal(r) = r
      BY <1>1, <1>4 DEF MarkFinal
    <2> QED BY <1>2, <1>4, <2>1 DEF Within
  <1> QED BY <1>3, <1>4

\* What happens to the mailbox between r and s: nothing, or the byte of the
\* frame is put in, after the one before has been taken out.
Posted(r, s, b) ==
  \/ s.handed = r.handed /\ s.newByte = r.newByte /\ s.midiByte = r.midiByte
  \/ /\ r.handed = <<>> /\ s.handed = <<b>>
     /\ ~ r.newByte /\ s.newByte /\ s.midiByte = b

LEMMA PostedOnce ==
  ASSUME NEW r, NEW s, NEW t, NEW b, Posted(r, s, b), Posted(s, t, b)
  PROVE  Posted(r, t, b)
  <1>1. <<b>> # <<>>
    OBVIOUS
  <1> QED BY <1>1 DEF Posted

Middle(r, b, k, level, count) == Within(r, b, k, level) /\ r.bitStateCount = count

\* The same level, and no bit is complete.
LEMMA SampleCounts ==
  ASSUME NEW b \in 0 .. 255, NEW k \in 0 .. 10, NEW level, NEW count \in 0 .. 2, NEW r,
         Middle(r, b, k, level, count)
  PROVE  /\ Middle(Sampled(r, level), b, k, level, count + 1)
         /\ Posted(r, Sampled(r, level), b)
  <1> DEFINE s == [r EXCEPT !.bitStateCount = count + 1]
  <1>1. /\ r \in Receiver /\ r.currentState = level /\ r.bitStateCount = count
        /\ r.rawMidiByte = Raw(b, k) /\ r.nextBitFinal = (k = 8)
        /\ r.handed = IF k >= 9 THEN <<b>> ELSE <<>>
        /\ k = 8 => ~ r.newByte
    BY DEF Middle, Within
  <1>2. Sampled(r, level) = MarkFinal(s)
    BY <1>1 DEF Sampled, Same
  <1>3. Counted(r, s, count + 1)
    <2>1. count + 1 \in 0 .. 3
      BY SMT
    <2> QED BY <1>1, <2>1, CountIsSet
  <1>4. /\ s.currentState = level /\ s.rawMidiByte = Raw(b, k)
        /\ s.nextBitFinal = (k = 8) /\ s.handed = r.handed
        /\ s.newByte = r.newByte /\ s.midiByte = r.midiByte
    BY <1>1, <1>3 DEF Counted
  <1> HIDE DEF s
  <1>5. /\ Within(MarkFinal(s), b, k, level)
        /\ MarkFinal(s).bitStateCount = s.bitStateCount
        /\ MarkFinal(s).newByte = s.newByte /\ MarkFinal(s).midiByte = s.midiByte
    BY <1>1, <1>3, <1>4, MarkFinalEffect DEF Counted
  <1>6. MarkFinal(s).handed = r.handed
    BY <1>1, <1>5 DEF Within
  <1> QED BY <1>2, <1>3, <1>4, <1>5, <1>6 DEF Middle, Posted, Counted

\* A bit is complete after its fourth sample.
LEMMA SampleCompletes ==
  ASSUME NEW b \in 0 .. 255, NEW k \in 0 .. 9, NEW r, k = 7 => ~ r.newByte,
         Middle(r, b, k, FrameBit(b, k), 3)
  PROVE  /\ Middle(Sampled(r, FrameBit(b, k)), b, k + 1, FrameBit(b, k), 0)
         /\ Posted(r, Sampled(r, FrameBit(b, k)), b)
  <1> DEFINE level == FrameBit(b, k)
             t == ShiftIn(r)
             s == [t EXCEPT !.bitStateCount = 0]
  <1>1. /\ Within(r, b, k, level) /\ r.currentState = level /\ r.bitStateCount = 3
        /\ r.handed = IF k >= 9 THEN <<b>> ELSE <<>>
        /\ k = 8 => ~ r.newByte
    BY DEF Middle, Within
  <1>2. /\ t \in Receiver /\ t.currentState = level
        /\ t.rawMidiByte = Raw(b, k + 1) /\ t.nextBitFinal = FALSE
        /\ t.handed = IF k + 1 >= 9 THEN <<b>> ELSE <<>>
        /\ t.newByte = IF k = 8 THEN TRUE ELSE r.newByte
        /\ t.midiByte = IF k = 8 THEN b ELSE r.midiByte
    <2>1. ShiftedIn(r, ShiftIn(r), b, k)
      BY <1>1, ShiftInEffect
    <2> QED BY <1>1, <2>1 DEF ShiftedIn
  <1>3. Sampled(r, level) = MarkFinal(s)
    BY <1>1 DEF Sampled, Same
  <1> HIDE DEF level, t
  <1>4. Counted(t, s, 0)
    <2>1. 0 \in 0 .. 3
      BY SMT
    <2> QED BY <1>2, <2>1, CountIsSet
  <1>5. /\ s.currentState = level /\ s.rawMidiByte = Raw(b, k + 1)
        /\ s.nextBitFinal = FALSE /\ s.handed = t.handed
        /\ s.newByte = t.newByte /\ s.midiByte = t.midiByte
    BY <1>2, <1>4 DEF Counted
  <1> HIDE DEF s
  <1>6. k + 1 \in 0 .. 10 /\ (k + 1 = 8 => ~ s.newByte)
    BY <1>2, <1>5, SMT
  <1>7. /\ Within(MarkFinal(s), b, k + 1, level)
        /\ MarkFinal(s).bitStateCount = s.bitStateCount
        /\ MarkFinal(s).newByte = s.newByte /\ MarkFinal(s).midiByte = s.midiByte
    <2>1. s \in Receiver
      BY <1>4 DEF Counted
    <2>2. s.handed = IF k + 1 >= 9 THEN <<b>> ELSE <<>>
      BY <1>2, <1>5
    <2> HIDE DEF Counted
    <2> QED BY <1>5, <1>6, <2>1, <2>2, MarkFinalEffect
  <1>8. Middle(Sampled(r, level), b, k + 1, level, 0)
    BY <1>3, <1>4, <1>7 DEF Middle, Counted
  <1>9. Posted(r, MarkFinal(s), b)
    <2>1. MarkFinal(s).handed = IF k + 1 >= 9 THEN <<b>> ELSE <<>>
      BY <1>7 DEF Within
    <2>2. k + 1 >= 9 <=> k = 8 \/ k >= 9
      BY SMT
    <2>3. k = 8 => ~ (k >= 9)
      BY SMT
    <2> QED BY <1>1, <1>2, <1>5, <1>7, <2>1, <2>2, <2>3 DEF Posted
  <1> QED BY <1>3, <1>8, <1>9 DEF level

\* s is r but for its level and count.
Turned(r, s, level) ==
  /\ s \in Receiver /\ s.bitStateCount = 1 /\ s.currentState = level
  /\ s.rawMidiByte = r.rawMidiByte
  /\ s.nextBitFinal = r.nextBitFinal /\ s.handed = r.handed
  /\ s.newByte = r.newByte /\ s.midiByte = r.midiByte

LEMMA LevelTurns ==
  ASSUME NEW r \in Receiver
  PROVE  Turned(r, [r EXCEPT !.currentState = 1 - @, !.bitStateCount = 1], 1 - r.currentState)
  <1>1. 1 - r.currentState \in {0, 1} /\ 1 \in 0 .. 3
    BY SMT DEF Receiver
  <1> QED BY <1>1 DEF Receiver, Turned

\* An edge before the third sample of a bit: the clocks differ, the bit has
\* been shifted in already.
LEMMA EdgeBetweenBits ==
  ASSUME NEW b \in 0 .. 255, NEW k \in 0 .. 10, NEW r, NEW level \in {0, 1},
         Within(r, b, k, 1 - level), r.bitStateCount # 3
  PROVE  /\ Middle(Sampled(r, level), b, k, level, 1)
         /\ Posted(r, Sampled(r, level), b)
  <1> DEFINE s == [r EXCEPT !.currentState = 1 - @, !.bitStateCount = 1]
  <1>1. /\ r \in Receiver /\ r.currentState = 1 - level
        /\ r.rawMidiByte = Raw(b, k) /\ r.nextBitFinal = (k = 8)
        /\ r.handed = IF k >= 9 THEN <<b>> ELSE <<>>
        /\ k = 8 => ~ r.newByte
    BY DEF Within
  <1>2. level # r.currentState /\ ~ (r.bitStateCount > 2) /\ 1 - r.currentState = level
    <2>1. r.bitStateCount \in 0 .. 3
      BY <1>1 DEF Receiver
    <2> QED BY <1>1, <2>1, SMT
  <1>3. Sampled(r, level) = MarkFinal(s)
    BY <1>2 DEF Sampled, Edge
  <1>4. Turned(r, s, level)
    BY <1>1, <1>2, LevelTurns
  <1> HIDE DEF s
  <1>5. /\ Within(MarkFinal(s), b, k, level)
        /\ MarkFinal(s).bitStateCount = s.bitStateCount
        /\ MarkFinal(s).newByte = s.newByte /\ MarkFinal(s).midiByte = s.midiByte
    BY <1>1, <1>4, MarkFinalEffect DEF Turned
  <1>6. MarkFinal(s).handed = r.handed
    BY <1>1, <1>5 DEF Within
  <1> QED BY <1>3, <1>4, <1>5, <1>6 DEF Middle, Posted, Turned

\* An edge after the third sample: the bit before it is complete.
LEMMA EdgeCompletes ==
  ASSUME NEW b \in 0 .. 255, NEW k \in 0 .. 9, NEW r, NEW level \in {0, 1},
         k = 7 => ~ r.newByte, 1 - level = FrameBit(b, k),
         Within(r, b, k, 1 - level), r.bitStateCount = 3
  PROVE  /\ Middle(Sampled(r, level), b, k + 1, level, 1)
         /\ Posted(r, Sampled(r, level), b)
  <1> DEFINE t == ShiftIn(r)
             s == [t EXCEPT !.currentState = 1 - @, !.bitStateCount = 1]
  <1>1. /\ Within(r, b, k, FrameBit(b, k)) /\ r.currentState = 1 - level
        /\ r.handed = IF k >= 9 THEN <<b>> ELSE <<>>
        /\ k = 8 => ~ r.newByte
    BY DEF Within
  <1>2. level # r.currentState /\ r.bitStateCount > 2 /\ 1 - r.currentState = level
    BY <1>1, SMT
  <1>3. /\ t \in Receiver /\ 1 - t.currentState = level
        /\ t.rawMidiByte = Raw(b, k + 1) /\ t.nextBitFinal = FALSE
        /\ t.handed = IF k + 1 >= 9 THEN <<b>> ELSE <<>>
        /\ t.newByte = IF k = 8 THEN TRUE ELSE r.newByte
        /\ t.midiByte = IF k = 8 THEN b ELSE r.midiByte
    <2>1. ShiftedIn(r, ShiftIn(r), b, k)
      BY <1>1, ShiftInEffect
    <2> QED BY <1>2, <2>1 DEF ShiftedIn
  <1>4. Sampled(r, level) = MarkFinal(s)
    BY <1>2 DEF Sampled, Edge
  <1> HIDE DEF t
  <1>5. Turned(t, s, level)
    BY <1>3, LevelTurns
  <1> HIDE DEF s
  <1>6. k + 1 \in 0 .. 10 /\ (k + 1 = 8 => ~ s.newByte)
    BY <1>3, <1>5, SMT DEF Turned
  <1>7. /\ Within(MarkFinal(s), b, k + 1, level)
        /\ MarkFinal(s).bitStateCount = s.bitStateCount
        /\ MarkFinal(s).newByte = s.newByte /\ MarkFinal(s).midiByte = s.midiByte
    BY <1>3, <1>5, <1>6, MarkFinalEffect DEF Turned
  <1>8. Middle(Sampled(r, level), b, k + 1, level, 1)
    BY <1>4, <1>5, <1>7 DEF Middle, Turned
  <1>9. Posted(r, MarkFinal(s), b)
    <2>1. MarkFinal(s).handed = IF k + 1 >= 9 THEN <<b>> ELSE <<>>
      BY <1>7 DEF Within
    <2>2. k + 1 >= 9 <=> k = 8 \/ k >= 9
      BY SMT
    <2>3. k = 8 => ~ (k >= 9)
      BY SMT
    <2> QED BY <1>1, <1>3, <1>5, <1>7, <2>1, <2>2, <2>3 DEF Posted, Turned
  <1> QED BY <1>4, <1>8, <1>9

\* Between two frames: nothing but ones in the shift register.
Resting(r) == /\ r \in Receiver /\ r.currentState = 1
              /\ r.rawMidiByte = 255 /\ r.nextBitFinal = FALSE

SameBox(r, s) == r.handed = s.handed /\ r.newByte = s.newByte /\ r.midiByte = s.midiByte

LEMMA OnesAreShiftedIn ==
  ASSUME NEW r, Resting(r)
  PROVE  ShiftIn(r) = r
  <1>1. (r.rawMidiByte \div 2) + 128 * r.currentState = r.rawMidiByte
    BY SMT DEF Resting
  <1>2. [r EXCEPT !.rawMidiByte = r.rawMidiByte] = r
    BY DEF Resting, Receiver
  <1> QED BY <1>1, <1>2 DEF ShiftIn, Resting

\* 255 is odd: no start bit has arrived.
LEMMA NothingMarked ==
  ASSUME NEW r, r.rawMidiByte = 255
  PROVE  MarkFinal(r) = r
  <1>1. r.rawMidiByte % 2 # 0
    BY SMT
  <1> QED BY <1>1 DEF MarkFinal

LEMMA IdleSample ==
  ASSUME NEW r, Resting(r)
  PROVE  /\ Resting(Sampled(r, 1))
         /\ SameBox(r, Sampled(r, 1))
  <1>1. PICK count \in 0 .. 3 : Sampled(r, 1) = MarkFinal([r EXCEPT !.bitStateCount = count])
    <2>1. CASE r.bitStateCount = 3
      <3>1. 0 \in 0 .. 3
        BY SMT
      <3> QED BY <2>1, <3>1, OnesAreShiftedIn DEF Sampled, Same, Resting
    <2>2. CASE r.bitStateCount # 3
      <3>1. r.bitStateCount \in 0 .. 3
        BY DEF Resting, Receiver
      <3>2. r.bitStateCount + 1 \in 0 .. 3
        BY <2>2, <3>1, SMT
      <3>3. Sampled(r, 1) = MarkFinal([r EXCEPT !.bitStateCount = r.bitStateCount + 1])
        BY <2>2 DEF Sampled, Same, Resting
      <3> QED BY <3>2, <3>3
    <2> QED BY <2>1, <2>2
  <1> DEFINE s == [r EXCEPT !.bitStateCount = count]
  <1>2. Counted(r, s, count)
    BY CountIsSet DEF Resting
  <1> HIDE DEF s
  <1>3. MarkFinal(s) = s
    BY <1>2, NothingMarked DEF Counted, Resting
  <1> QED BY <1>1, <1>2, <1>3 DEF s, Counted, Resting, SameBox

\* The edge of a start bit.
LEMMA StartSample ==
  ASSUME NEW b \in 0 .. 255, NEW r, Resting(r), r.handed = <<>>
  PROVE  /\ Middle(Sampled(r, 0), b, 0, 0, 1)
         /\ Posted(r, Sampled(r, 0), b)
  <1> DEFINE s == [r EXCEPT !.currentState = 1 - @, !.bitStateCount = 1]
  <1>1. r \in Receiver /\ r.currentState = 1 /\ 1 - r.currentState = 0 /\ 0 # 1
    BY SMT DEF Resting
  <1>2. Sampled(r, 0) = MarkFinal(s)
    BY <1>1, OnesAreShiftedIn DEF Sampled, Edge
  <1>3. Turned(r, s, 0)
    BY <1>1, LevelTurns
  <1> HIDE DEF s
  <1>4. MarkFinal(s) = s
    BY <1>3, NothingMarked DEF Turned, Resting
  <1>5. Raw(b, 0) = 255 /\ 0 # 8 /\ ~ (0 >= 9)
    BY SMT DEF Raw
  <1>6. /\ s \in Receiver /\ s.currentState = 0 /\ s.bitStateCount = 1
        /\ s.rawMidiByte = 255 /\ s.nextBitFinal = FALSE /\ s.handed = <<>>
        /\ s.newByte = r.newByte /\ s.midiByte = r.midiByte
    BY <1>3 DEF Resting, Turned
  <1>7. Middle(s, b, 0, 0, 1)
    BY <1>5, <1>6 DEF Middle, Within
  <1>8. Posted(r, s, b)
    BY <1>6 DEF Posted
  <1> QED BY <1>2, <1>4, <1>7, <1>8

\* i bits of the frame have been sampled.  After three samples, the last of
\* them has not been shifted in.
At(r, b, i) ==
  /\ Within(r, b, IF r.bitStateCount = 3 THEN i - 1 ELSE i, FrameBit(b, i - 1))
  /\ i = 8 => ~ r.newByte

LEMMA MiddleIsAt ==
  ASSUME NEW b \in 0 .. 255, NEW i \in 0 .. 9, NEW r, NEW k, NEW count,
         Middle(r, b, k, FrameBit(b, i), count),
         k = IF count = 3 THEN i ELSE i + 1,
         i = 7 => ~ r.newByte
  PROVE  At(r, b, i + 1)
  <1>1. (i + 1) - 1 = i /\ (i + 1 = 8 <=> i = 7)
    BY SMT
  <1> QED BY <1>1 DEF Middle, At

\* Before the end of the frame's data nothing is posted.
LEMMA NotYetPosted ==
  ASSUME NEW b \in 0 .. 255, NEW k \in 0 .. 8, NEW r, NEW s, NEW level,
         Posted(r, s, b), Within(s, b, k, level), ~ r.newByte
  PROVE  ~ s.newByte
  <1>1. s.handed = <<>> /\ <<b>> # <<>>
    <2>1. ~ (k >= 9)
      BY SMT
    <2> QED BY <2>1 DEF Within
  <1> QED BY <1>1 DEF Posted

\* The bit after an edge: its first sample is r, and it has three to six.
LEMMA BitAfterEdge ==
  ASSUME NEW b \in 0 .. 255, NEW i \in 0 .. 9, NEW r, NEW level,
         level = FrameBit(b, i),
         Middle(r, b, i, level, 1), i = 7 => ~ r.newByte,
         NEW second, second = Sampled(r, level),
         NEW third, third = Sampled(second, level),
         NEW fourth, fourth = Sampled(third, level),
         NEW fifth, fifth = Sampled(fourth, level),
         NEW sixth, sixth = Sampled(fifth, level)
  PROVE  /\ At(third, b, i + 1) /\ Posted(r, third, b)
         /\ At(fourth, b, i + 1) /\ Posted(r, fourth, b)
         /\ At(fifth, b, i + 1) /\ Posted(r, fifth, b)
         /\ At(sixth, b, i + 1) /\ Posted(r, sixth, b)
  <1>0. /\ i \in 0 .. 10 /\ i + 1 \in 0 .. 10 /\ (i = 7 => i \in 0 .. 8 /\ i + 1 \in 0 .. 8)
        /\ 0 \in 0 .. 2 /\ 1 \in 0 .. 2 /\ 2 \in 0 .. 2 /\ 0 + 1 = 1 /\ 1 + 1 = 2 /\ 2 + 1 = 3
        /\ 0 # 3 /\ 1 # 3 /\ 2 # 3
    BY SMT
  <1>2. Middle(second, b, i, level, 2) /\ Posted(r, second, b)
    <2>1. /\ Middle(Sampled(r, level), b, i, level, 1 + 1)
          /\ Posted(r, Sampled(r, level), b)
      BY <1>0, SampleCounts
    <2> QED BY <1>0, <2>1
  <1>3. Middle(third, b, i, level, 3) /\ Posted(r, third, b)
    <2>1. /\ Middle(Sampled(second, level), b, i, level, 2 + 1)
          /\ Posted(second, Sampled(second, level), b)
      BY <1>0, <1>2, SampleCounts
    <2> QED BY <1>0, <1>2, <2>1, PostedOnce
  <1>4. i = 7 => ~ third.newByte
    BY <1>0, <1>3, NotYetPosted DEF Middle
  <1>5. Middle(fourth, b, i + 1, level, 0) /\ Posted(r, fourth, b)
    <2>1. /\ Middle(Sampled(third, level), b, i + 1, level, 0)
          /\ Posted(third, Sampled(third, level), b)
      BY <1>3, <1>4, SampleCompletes
    <2> QED BY <1>3, <2>1, PostedOnce
  <1>6. Middle(fifth, b, i + 1, level, 1) /\ Posted(r, fifth, b)
    <2>1. /\ Middle(Sampled(fourth, level), b, i + 1, level, 0 + 1)
          /\ Posted(fourth, Sampled(fourth, level), b)
      BY <1>0, <1>5, SampleCounts
    <2> QED BY <1>0, <1>5, <2>1, PostedOnce
  <1>7. Middle(sixth, b, i + 1, level, 2) /\ Posted(r, sixth, b)
    <2>1. /\ Middle(Sampled(fifth, level), b, i + 1, level, 1 + 1)
          /\ Posted(fifth, Sampled(fifth, level), b)
      BY <1>0, <1>6, SampleCounts
    <2> QED BY <1>0, <1>6, <2>1, PostedOnce
  <1>8. i = 7 => ~ fourth.newByte /\ ~ fifth.newByte /\ ~ sixth.newByte
    <2>1. /\ Within(fourth, b, i + 1, level) /\ Within(fifth, b, i + 1, level)
          /\ Within(sixth, b, i + 1, level)
      BY <1>5, <1>6, <1>7 DEF Middle
    <2>2. SUFFICES ASSUME i = 7
                   PROVE  ~ fourth.newByte /\ ~ fifth.newByte /\ ~ sixth.newByte
      OBVIOUS
    <2>3. i + 1 \in 0 .. 8 /\ ~ r.newByte
      BY <1>0, <2>2
    <2>4. ~ fourth.newByte
      BY <1>5, <2>1, <2>3, NotYetPosted
    <2>5. ~ fifth.newByte
      BY <1>6, <2>1, <2>3, NotYetPosted
    <2>6. ~ sixth.newByte
      BY <1>7, <2>1, <2>3, NotYetPosted
    <2> QED BY <2>4, <2>5, <2>6
  <1> QED BY <1>0, <1>3, <1>4, <1>5, <1>6, <1>7, <1>8, MiddleIsAt

\* The bit after one of the same level has four.
LEMMA BitOfSameLevel ==
  ASSUME NEW b \in 0 .. 255, NEW i \in 1 .. 9, NEW r,
         At(r, b, i), i \in {7, 8} => ~ r.newByte,
         FrameBit(b, i) = FrameBit(b, i - 1),
         NEW s, s = Four(r, FrameBit(b, i))
  PROVE  At(s, b, i + 1) /\ Posted(r, s, b)
  <1> DEFINE level == FrameBit(b, i)
             first == Sampled(r, level)
             second == Sampled(first, level)
             third == Sampled(second, level)
             fourth == Sampled(third, level)
  <1>0. /\ i \in 0 .. 9 /\ i - 1 \in 0 .. 9 /\ i \in 0 .. 10 /\ i + 1 \in 0 .. 10
        /\ (i - 1) + 1 = i /\ (i - 1 = 7 => i = 8)
        /\ (i = 7 => i \in 0 .. 8 /\ i + 1 \in 0 .. 8)
        /\ 0 \in 0 .. 2 /\ 1 \in 0 .. 2 /\ 2 \in 0 .. 2 /\ 0 + 1 = 1 /\ 1 + 1 = 2 /\ 2 + 1 = 3
        /\ 0 # 3 /\ 1 # 3 /\ 2 # 3
    BY SMT
  <1>s. s = fourth
    BY DEF Four, Three
  <1>i. i = 7 => ~ r.newByte
    OBVIOUS
  <1>r. r.bitStateCount \in 0 .. 3
    BY DEF At, Within, Receiver
  <1>l. level = FrameBit(b, i) /\ level = FrameBit(b, i - 1)
    OBVIOUS
  <1> HIDE DEF level
  <1>1. /\ \A t, c : c \in 0 .. 2 /\ Middle(t, b, i, level, c)
             => Middle(Sampled(t, level), b, i, level, c + 1) /\ Posted(t, Sampled(t, level), b)
        /\ \A t, c : c \in 0 .. 2 /\ Middle(t, b, i + 1, level, c)
             => Middle(Sampled(t, level), b, i + 1, level, c + 1) /\ Posted(t, Sampled(t, level), b)
    BY <1>0, SampleCounts
  <1>2. \A t : Middle(t, b, i, level, 3) /\ (i = 7 => ~ t.newByte)
             => Middle(Sampled(t, level), b, i + 1, level, 0) /\ Posted(t, Sampled(t, level), b)
    BY <1>0, <1>l, SampleCompletes
  <1>3. \A t : Posted(r, t, b) /\ Middle(t, b, i, level, 3) /\ (i = 7 => ~ r.newByte) => (i = 7 => ~ t.newByte)
    BY <1>0, NotYetPosted DEF Middle
  <1>4. \A t : Posted(r, t, b) /\ (\E c : Middle(t, b, i + 1, level, c)) /\ (i = 7 => ~ r.newByte)
             => (i = 7 => ~ t.newByte)
    BY <1>0, NotYetPosted DEF Middle
  <1>5. \A t, u : Posted(r, t, b) /\ Posted(t, u, b) => Posted(r, u, b)
    BY PostedOnce
  <1> HIDE DEF first, second, third, fourth
  <1>6. CASE r.bitStateCount = 0
    <2>1. Middle(r, b, i, level, 0)
      BY <1>l, <1>6 DEF At, Middle
    <2>2. Middle(first, b, i, level, 1) /\ Posted(r, first, b)
      BY <1>0, <1>1, <2>1 DEF first
    <2>3. Middle(second, b, i, level, 2) /\ Posted(r, second, b)
      BY <1>0, <1>1, <1>5, <2>2 DEF second
    <2>4. Middle(third, b, i, level, 3) /\ Posted(r, third, b)
      BY <1>0, <1>1, <1>5, <2>3 DEF third
    <2>5. Middle(fourth, b, i + 1, level, 0) /\ Posted(r, fourth, b)
      BY <1>2, <1>3, <1>5, <1>i, <2>4 DEF fourth
    <2>6. i = 7 => ~ fourth.newByte
      BY <1>4, <1>i, <2>5
    <2> QED BY <1>0, <1>l, <1>s, <2>5, <2>6, MiddleIsAt
  <1>7. CASE r.bitStateCount = 1
    <2>1. Middle(r, b, i, level, 1)
      BY <1>l, <1>7 DEF At, Middle
    <2>2. Middle(first, b, i, level, 2) /\ Posted(r, first, b)
      BY <1>0, <1>1, <2>1 DEF first
    <2>3. Middle(second, b, i, level, 3) /\ Posted(r, second, b)
      BY <1>0, <1>1, <1>5, <2>2 DEF second
    <2>4. Middle(third, b, i + 1, level, 0) /\ Posted(r, third, b)
      BY <1>2, <1>3, <1>5, <1>i, <2>3 DEF third
    <2>5. Middle(fourth, b, i + 1, level, 1) /\ Posted(r, fourth, b)
      BY <1>0, <1>1, <1>5, <2>4 DEF fourth
    <2>6. i = 7 => ~ fourth.newByte
      BY <1>4, <1>i, <2>5
    <2> QED BY <1>0, <1>l, <1>s, <2>5, <2>6, MiddleIsAt
  <1>8. CASE r.bitStateCount = 2
    <2>1. Middle(r, b, i, level, 2)
      BY <1>l, <1>8 DEF At, Middle
    <2>2. Middle(first, b, i, level, 3) /\ Posted(r, first, b)
      BY <1>0, <1>1, <2>1 DEF first
    <2>3. Middle(second, b, i + 1, level, 0) /\ Posted(r, second, b)
      BY <1>2, <1>3, <1>5, <1>i, <2>2 DEF second
    <2>4. Middle(third, b, i + 1, level, 1) /\ Posted(r, third, b)
      BY <1>0, <1>1, <1>5, <2>3 DEF third
    <2>5. Middle(fourth, b, i + 1, level, 2) /\ Posted(r, fourth, b)
      BY <1>0, <1>1, <1>5, <2>4 DEF fourth
    <2>6. i = 7 => ~ fourth.newByte
      BY <1>4, <1>i, <2>5
    <2> QED BY <1>0, <1>l, <1>s, <2>5, <2>6, MiddleIsAt
  <1>9. CASE r.bitStateCount = 3
    <2>1. Middle(r, b, i - 1, level, 3)
      BY <1>l, <1>9 DEF At, Middle
    <2>2. Middle(first, b, i, level, 0) /\ Posted(r, first, b)
      <3>1. /\ Middle(Sampled(r, level), b, (i - 1) + 1, level, 0)
            /\ Posted(r, Sampled(r, level), b)
        BY <1>0, <1>l, <2>1, SampleCompletes
      <3> QED BY <1>0, <3>1 DEF first
    <2>3. Middle(second, b, i, level, 1) /\ Posted(r, second, b)
      BY <1>0, <1>1, <1>5, <2>2 DEF second
    <2>4. Middle(third, b, i, level, 2) /\ Posted(r, third, b)
      BY <1>0, <1>1, <1>5, <2>3 DEF third
    <2>5. Middle(fourth, b, i, level, 3) /\ Posted(r, fourth, b)
      BY <1>0, <1>1, <1>5, <2>4 DEF fourth
    <2>6. i = 7 => ~ fourth.newByte
      BY <1>3, <1>i, <2>5
    <2> QED BY <1>0, <1>l, <1>s, <2>5, <2>6, MiddleIsAt
  <1> QED BY <1>r, <1>6, <1>7, <1>8, <1>9, SMT

\* The runs of three to six samples of one level, sample by sample.
LEMMA Runs ==
  ASSUME NEW r, NEW level, NEW n \in 3 .. 6,
         NEW first, first = Sampled(r, level),
         NEW second, second = Sampled(first, level),
         NEW third, third = Sampled(second, level),
         NEW fourth, fourth = Sampled(third, level),
         NEW fifth, fifth = Sampled(fourth, level),
         NEW sixth, sixth = Sampled(fifth, level)
  PROVE  \/ n = 3 /\ USI(r, level, n) = third
         \/ n = 4 /\ USI(r, level, n) = fourth
         \/ n = 5 /\ USI(r, level, n) = fifth
         \/ n = 6 /\ USI(r, level, n) = sixth
  <1>1. Three(r, level) = third /\ Four(r, level) = fourth
    BY DEF Three, Four
  <1>2. n = 3 \/ n = 4 \/ n = 5 \/ n = 6
    BY SMT
  <1> QED BY <1>1, <1>2 DEF USI

\* What the sender's next bit does to the receiver.
LEMMA NextBit ==
  ASSUME NEW b \in 0 .. 255, NEW i \in 1 .. 9, NEW r,
         At(r, b, i), i \in {7, 8} => ~ r.newByte,
         NEW n \in IF FrameBit(b, i) = r.currentState THEN {4} ELSE Samples,
         NEW s, s = USI(r, FrameBit(b, i), n)
  PROVE  At(s, b, i + 1) /\ Posted(r, s, b)
  <1>0. /\ i \in 0 .. 9 /\ i - 1 \in 0 .. 9 /\ i \in 0 .. 10 /\ i - 1 \in 0 .. 10
        /\ (i - 1) + 1 = i /\ (i - 1 = 7 => i = 8) /\ (i = 7 => i \in 0 .. 8) /\ 4 \in 3 .. 6
    BY SMT
  <1>1. /\ FrameBit(b, i) \in {0, 1} /\ FrameBit(b, i - 1) \in {0, 1}
        /\ r.currentState = FrameBit(b, i - 1)
    BY <1>0, RawValues DEF At, Within
  <1>2. CASE FrameBit(b, i) = FrameBit(b, i - 1)
    <2>1. n = 4
      BY <1>1, <1>2
    <2>2. USI(r, FrameBit(b, i), n) = Four(r, FrameBit(b, i))
      BY <2>1, SMT DEF USI
    <2> QED BY <1>2, <2>2, BitOfSameLevel
  <1>3. CASE FrameBit(b, i) # FrameBit(b, i - 1)
    <2> DEFINE level == FrameBit(b, i)
               first == Sampled(r, level)
               second == Sampled(first, level)
               third == Sampled(second, level)
               fourth == Sampled(third, level)
               fifth == Sampled(fourth, level)
               sixth == Sampled(fifth, level)
    <2>1. level \in {0, 1} /\ FrameBit(b, i - 1) = 1 - level
      BY <1>1, <1>3, SMT
    <2>2. n \in 3 .. 6
      BY <1>1, <1>3, TimingAssumption
    <2>3. level = FrameBit(b, i)
      OBVIOUS
    <2> HIDE DEF level
    <2>4. Middle(first, b, i, level, 1) /\ Posted(r, first, b)
      <3>1. CASE r.bitStateCount = 3
        <4>1. Within(r, b, i - 1, 1 - level)
          BY <2>1, <3>1 DEF At
        <4>2. /\ Middle(Sampled(r, level), b, (i - 1) + 1, level, 1)
              /\ Posted(r, Sampled(r, level), b)
          BY <1>0, <2>1, <3>1, <4>1, EdgeCompletes
        <4> QED BY <1>0, <4>2
      <3>2. CASE r.bitStateCount # 3
        <4>1. Within(r, b, i, 1 - level)
          BY <2>1, <3>2 DEF At
        <4> QED BY <1>0, <2>1, <3>2, <4>1, EdgeBetweenBits
      <3> QED BY <3>1, <3>2
    <2>5. i = 7 => ~ first.newByte
      BY <1>0, <2>4, NotYetPosted DEF Middle
    <2>6. \/ n = 3 /\ s = third
          \/ n = 4 /\ s = fourth
          \/ n = 5 /\ s = fifth
          \/ n = 6 /\ s = sixth
      BY <2>2, <2>3, Runs
    <2>7. /\ second = Sampled(first, level) /\ third = Sampled(second, level)
          /\ fourth = Sampled(third, level) /\ fifth = Sampled(fourth, level)
          /\ sixth = Sampled(fifth, level)
      OBVIOUS
    <2> HIDE DEF first, second, third, fourth, fifth, sixth
    <2>8. /\ At(third, b, i + 1) /\ Posted(first, third, b)
          /\ At(fourth, b, i + 1) /\ Posted(first, fourth, b)
          /\ At(fifth, b, i + 1) /\ Posted(first, fifth, b)
          /\ At(sixth, b, i + 1) /\ Posted(first, sixth, b)
      BY <1>0, <2>3, <2>4, <2>5, <2>7, BitAfterEdge, SMTT(60)
    <2> QED BY <2>4, <2>6, <2>8, PostedOnce
  <1> QED BY <1>2, <1>3

LEMMA FirstBit ==
  ASSUME NEW b \in 0 .. 255, NEW r, Resting(r), r.handed = <<>>,
         NEW n \in IF FrameBit(b, 0) = r.currentState THEN {4} ELSE Samples,
         NEW s, s = USI(r, FrameBit(b, 0), n)
  PROVE  At(s, b, 1) /\ Posted(r, s, b)
  <1> DEFINE first == Sampled(r, 0)
             second == Sampled(first, 0)
             third == Sampled(second, 0)
             fourth == Sampled(third, 0)
             fifth == Sampled(fourth, 0)
             sixth == Sampled(fifth, 0)
  <1>0. 0 \in 0 .. 9 /\ 0 # 7 /\ 0 + 1 = 1 /\ 0 # 1
    BY SMT
  <1>1. FrameBit(b, 0) = 0 /\ r.currentState = 1
    BY FrameBits DEF Resting
  <1>2. n \in 3 .. 6
    BY <1>0, <1>1, TimingAssumption
  <1>3. Middle(first, b, 0, 0, 1) /\ Posted(r, first, b)
    BY StartSample
  <1>4. \/ n = 3 /\ s = third
        \/ n = 4 /\ s = fourth
        \/ n = 5 /\ s = fifth
        \/ n = 6 /\ s = sixth
    <2>1. s = USI(r, 0, n)
      BY <1>1
    <2> QED BY <1>2, <2>1, Runs
  <1>5. /\ At(third, b, 0 + 1) /\ Posted(first, third, b)
        /\ At(fourth, b, 0 + 1) /\ Posted(first, fourth, b)
        /\ At(fifth, b, 0 + 1) /\ Posted(first, fifth, b)
        /\ At(sixth, b, 0 + 1) /\ Posted(first, sixth, b)
    BY <1>0, <1>1, <1>3, BitAfterEdge
  <1> HIDE DEF first, second, third, fourth, fifth, sixth
  <1> QED BY <1>0, <1>3, <1>4, <1>5, PostedOnce

\* Where the receiver may be, as far as the other actions need it.
LEMMA AtFacts ==
  ASSUME NEW b \in 0 .. 255, NEW i \in 1 .. 9, NEW r, At(r, b, i)
  PROVE  /\ r \in Receiver /\ r.handed \in {<<>>, <<b>>}
         /\ r.handed # <<>> => i = 9
         /\ i = 9 /\ r.handed = <<>> => ~ r.newByte
         /\ At([r EXCEPT !.newByte = FALSE], b, i)
  <1> DEFINE k == IF r.bitStateCount = 3 THEN i - 1 ELSE i
             s == [r EXCEPT !.newByte = FALSE]
  <1>1. Within(r, b, k, FrameBit(b, i - 1))
    BY DEF At
  <1>2. k \in {i - 1, i}
    OBVIOUS
  <1> HIDE DEF k
  <1>3. (k >= 9 => i = 9) /\ (i = 9 /\ ~ (k >= 9) => k = 8)
    BY <1>2, SMT
  <1>4. /\ s \in Receiver /\ s.newByte = FALSE /\ s.bitStateCount = r.bitStateCount
        /\ s.currentState = r.currentState /\ s.rawMidiByte = r.rawMidiByte
        /\ s.nextBitFinal = r.nextBitFinal /\ s.handed = r.handed
    BY <1>1 DEF Within, Receiver
  <1> HIDE DEF s
  <1>5. Within(s, b, k, FrameBit(b, i - 1))
    BY <1>1, <1>4 DEF Within
  <1>6. At(s, b, i)
    BY <1>4, <1>5 DEF At, k
  <1>7. <<b>> # <<>>
    OBVIOUS
  <1> QED BY <1>1, <1>3, <1>6, <1>7 DEF Within, s

LEMMA RestFacts ==
  ASSUME NEW r, Resting(r)
  PROVE  /\ Resting([r EXCEPT !.newByte = FALSE])
         /\ Resting([r EXCEPT !.handed = <<>>])
  <1>1. <<>> \in Seq(0 .. 255)
    OBVIOUS
  <1> QED BY <1>1 DEF Resting, Receiver

\* After the stop bit.
LEMMA EndsResting ==
  ASSUME NEW b \in 0 .. 255, NEW r, At(r, b, 10)
  PROVE  Resting(r) /\ r.handed = <<b>>
  <1> DEFINE k == IF r.bitStateCount = 3 THEN 10 - 1 ELSE 10
  <1>1. k \in {9, 10} /\ 10 - 1 = 9
    BY SMT
  <1>2. Within(r, b, k, FrameBit(b, 9))
    BY <1>1 DEF At
  <1>3. FrameBit(b, 9) = 1
    BY FrameBits
  <1> HIDE DEF k
  <1>4. Raw(b, k) = 255 /\ k # 8 /\ k >= 9
    BY <1>1, SMT DEF Raw
  <1> QED BY <1>2, <1>3, <1>4 DEF Within, Resting
------------------------------------------------------------------------------
\* The bytes the main program has not taken yet: the one in the mailbox and
\* those that the sender still holds, without the ones it passes over.
Sent == at # 0 /\ rx.handed # <<>>
Boxed == IF rx.newByte /\ ~ IsSilent(rx.midiByte) THEN <<rx.midiByte>> ELSE <<>>
Coming == IF todo # <<>> /\ (Sent \/ Head(todo) = ActiveSensing) THEN Tail(todo) ELSE todo
Unread == Boxed \o Coming

\* The main program's variables in one record, and what taking a byte makes
\* of them.
Now == [pc |-> pc, newNote |-> newNote, notes |-> notes, noteIndex |-> noteIndex,
        sounding |-> sounding, period |-> period]

Hits(array, note) == {i \in Slot : /\ array[i] = note
                                   /\ \A j \in 0 .. i - 1 : array[j] # note}

Shifted(array, index) == [i \in Slot |-> IF i \in index .. MAX_POLYPHONY - 2
                                         THEN array[i + 1] ELSE array[i]]

Added(s, note) ==
  IF s.noteIndex = MAX_POLYPHONY
  THEN [pc |-> s.pc, newNote |-> s.newNote,
        notes |-> [Shifted(s.notes, 0) EXCEPT ![MAX_POLYPHONY - 1] = note],
        noteIndex |-> s.noteIndex, sounding |-> TRUE, period |-> s.period]
  ELSE [pc |-> s.pc, newNote |-> s.newNote,
        notes |-> [s.notes EXCEPT ![s.noteIndex] = note],
        noteIndex |-> s.noteIndex + 1, sounding |-> TRUE, period |-> note]

Dropped(s, i) ==
  [pc |-> s.pc, newNote |-> s.newNote, notes |-> Shifted(s.notes, i),
   noteIndex |-> IF s.noteIndex >= 2 THEN s.noteIndex - 1 ELSE 0,
   sounding |-> s.noteIndex >= 2,
   period |-> IF s.noteIndex >= 2 THEN Shifted(s.notes, i)[s.noteIndex - 2] ELSE s.period]

Released(s, note) == IF Hits(s.notes, note) = {} THEN s
                     ELSE Dropped(s, CHOOSE i \in Hits(s.notes, note) : TRUE)

Home(first) == CASE first = NoteOn -> "note_on"
                 [] first \in {NoteOff, 0} -> "note_off"
                 [] first = Control -> "number"
                 [] OTHER -> "opcode"

Moved(s, handler, note) ==
  [pc |-> handler, newNote |-> note, notes |-> s.notes, noteIndex |-> s.noteIndex,
   sounding |-> s.sounding, period |-> s.period]

Take(s, b) ==
  IF b >= 128
  THEN Moved(s, Home(b), IF s.pc \in {"note_on", "note_off"} THEN b ELSE s.newNote)
  ELSE CASE s.pc = "note_on" -> Moved(s, "velocity", b)
         [] s.pc = "velocity" ->
              Moved(IF b # 0 THEN Added(s, s.newNote) ELSE Released(s, s.newNote),
                    "note_on", s.newNote)
         [] s.pc = "note_off" -> Moved(Released(s, b), "note_off", b)
         [] s.pc = "number" -> Moved(s, "value", s.newNote)
         [] s.pc = "value" -> Moved(s, "number", s.newNote)
         [] OTHER -> s

\* Of up to four bytes.
Replay(s, u) ==
  CASE Len(u) = 0 -> s
    [] Len(u) = 1 -> Take(s, u[1])
    [] Len(u) = 2 -> Take(Take(s, u[1]), u[2])
    [] Len(u) = 3 -> Take(Take(Take(s, u[1]), u[2]), u[3])
    [] OTHER -> Take(Take(Take(Take(s, u[1]), u[2]), u[3]), u[4])

Handlers == {"opcode", "note_on", "velocity", "note_off", "number", "value"}

Data == 0 .. 127
Byte == 0 .. 255
Array == [Slot -> Data]
Index == 0 .. MAX_POLYPHONY
Synth == [pc : Handlers, newNote : Byte, notes : Array, noteIndex : Index,
          sounding : BOOLEAN, period : Data]

\* A velocity follows a data byte.
Sane(s) == s \in Synth /\ (s.pc = "velocity" => s.newNote \in Data)

\* What the array has to do with the keys: a keyboard that releases with
\* "note on" names a key that is down, and the note it finds is the right one
\* because the slots past the index are all alike, and hold no key that is
\* down and forgotten.
ReflectsOn(s, keys, full) ==
  /\ s.noteIndex <= Len(keys)
  /\ \A i \in 0 .. s.noteIndex - 1 : s.notes[i] = keys[Len(keys) - s.noteIndex + i + 1]
  /\ full \/ s.noteIndex = Len(keys)
  /\ \A i \in Slot : i >= s.noteIndex => s.notes[i] = s.notes[MAX_POLYPHONY - 1]
  /\ s.noteIndex < MAX_POLYPHONY
       => \A j \in 1 .. Len(keys) - s.noteIndex : keys[j] # s.notes[MAX_POLYPHONY - 1]
  /\ ~ full /\ keys # <<>> => s.period = keys[Len(keys)]

\* One that releases with "note off" may have a note dropped that is down.
ReflectsOff(s, keys) ==
  /\ \A i \in 0 .. s.noteIndex - 1 : \E j \in DOMAIN keys : s.notes[i] = keys[j]
  /\ \A i, j \in 0 .. s.noteIndex - 1 : s.notes[i] = s.notes[j] => i = j

Mirrors(s, keys, full) ==
  /\ s.sounding <=> s.noteIndex > 0
  /\ releases = "by_note_on" => ReflectsOn(s, keys, full)
  /\ releases = "by_note_off" => ReflectsOff(s, keys)

Reflects(s) == s.pc = Home(status) /\ Mirrors(s, pressed, crowded)

LineOK == /\ todo \in Seq(0 .. 255) /\ at \in 0 .. 9
          /\ at = 0 => Resting(rx)
          /\ at # 0 => todo # <<>> /\ At(rx, Head(todo), at)

PlayerOK == /\ releases \in {"by_note_on", "by_note_off"} /\ crowded \in BOOLEAN
            /\ pressed \in Seq(Note)
            /\ \A i, j \in DOMAIN pressed : pressed[i] = pressed[j] => i = j
            /\ status \in {0, NoteOn, NoteOff, Control, OtherChannel}

SynthOK == Sane(Now)

TodoOK == /\ Len(Coming) <= 3
          /\ \A i \in DOMAIN todo : todo[i] # Reset /\ (i # 1 => todo[i] # ActiveSensing)

IInv == LineOK /\ PlayerOK /\ SynthOK /\ TodoOK /\ Reflects(Replay(Now, Unread))

------------------------------------------------------------------------------
\* The array.
LEMMA ShiftedFacts ==
  ASSUME NEW array \in Array, NEW index
  PROVE  /\ Shifted(array, index) \in Array
         /\ \A i \in Slot : Shifted(array, index)[i] =
               IF i \in index .. MAX_POLYPHONY - 2 THEN array[i + 1] ELSE array[i]
  <1>1. ASSUME NEW i \in Slot
        PROVE  (IF i \in index .. MAX_POLYPHONY - 2 THEN array[i + 1] ELSE array[i]) \in Data
    <2>1. i \in index .. MAX_POLYPHONY - 2 => i + 1 \in Slot
      BY PolyphonyAssumption, SMT DEF Slot
    <2> QED BY <2>1 DEF Array
  <1> QED BY <1>1 DEF Shifted, Array

LEMMA HitsFacts ==
  ASSUME NEW array, NEW note, NEW i \in Hits(array, note)
  PROVE  /\ i \in Slot
         /\ \A j \in Hits(array, note) : j = i
         /\ (CHOOSE j \in Hits(array, note) : TRUE) = i
  <1>1. i \in Slot /\ array[i] = note /\ \A j \in 0 .. i - 1 : array[j] # note
    BY DEF Hits
  <1>2. ASSUME NEW j \in Hits(array, note)
        PROVE  j = i
    <2>1. j \in Slot /\ array[j] = note /\ \A h \in 0 .. j - 1 : array[h] # note
      BY DEF Hits
    <2>2. ~ (i \in 0 .. j - 1) /\ ~ (j \in 0 .. i - 1)
      BY <1>1, <2>1
    <2> QED BY <1>1, <2>1, <2>2, PolyphonyAssumption, SMT DEF Slot
  <1> QED BY <1>1, <1>2

\* t is s with the note added, or with the one in a slot dropped.
IsAdded(s, t, note) ==
  /\ t \in Synth /\ t.pc = s.pc /\ t.newNote = s.newNote /\ t.sounding = TRUE
  /\ s.noteIndex = MAX_POLYPHONY
       => /\ t.noteIndex = MAX_POLYPHONY /\ t.period = s.period
          /\ \A i \in Slot : t.notes[i] = IF i = MAX_POLYPHONY - 1 THEN note ELSE s.notes[i + 1]
  /\ s.noteIndex # MAX_POLYPHONY
       => /\ t.noteIndex = s.noteIndex + 1 /\ t.period = note
          /\ \A i \in Slot : t.notes[i] = IF i = s.noteIndex THEN note ELSE s.notes[i]

IsDropped(s, t, i) ==
  /\ t \in Synth /\ t.pc = s.pc /\ t.newNote = s.newNote
  /\ t.sounding = (s.noteIndex >= 2)
  /\ t.noteIndex = IF s.noteIndex >= 2 THEN s.noteIndex - 1 ELSE 0
  /\ \A j \in Slot : t.notes[j] = IF j \in i .. MAX_POLYPHONY - 2
                                   THEN s.notes[j + 1] ELSE s.notes[j]
  /\ s.noteIndex >= 2 => t.period = t.notes[s.noteIndex - 2]
  /\ s.noteIndex < 2 => t.period = s.period

LEMMA AddedFacts ==
  ASSUME NEW s \in Synth, NEW note \in Data
  PROVE  IsAdded(s, Added(s, note), note)
  <1>1. /\ s.notes \in Array /\ s.noteIndex \in Index
        /\ DOMAIN s.notes = Slot
    BY DEF Synth, Array
  <1>2. CASE s.noteIndex = MAX_POLYPHONY
    <2> DEFINE array == [Shifted(s.notes, 0) EXCEPT ![MAX_POLYPHONY - 1] = note]
    <2>1. array \in Array
      BY <1>1, ShiftedFacts DEF Array
    <2>2. \A i \in Slot : array[i] = IF i = MAX_POLYPHONY - 1 THEN note ELSE s.notes[i + 1]
      <3>1. \A i \in Slot : i # MAX_POLYPHONY - 1 => i \in 0 .. MAX_POLYPHONY - 2
        BY PolyphonyAssumption, SMT DEF Slot
      <3>2. Shifted(s.notes, 0) \in Array
        BY <1>1, ShiftedFacts
      <3> QED BY <1>1, <3>1, <3>2, ShiftedFacts DEF Array
    <2>3. Added(s, note) = [pc |-> s.pc, newNote |-> s.newNote, notes |-> array,
                            noteIndex |-> s.noteIndex, sounding |-> TRUE,
                            period |-> s.period]
      BY <1>2 DEF Added
    <2> HIDE DEF array
    <2>4. /\ Added(s, note) \in Synth
          /\ Added(s, note).pc = s.pc /\ Added(s, note).newNote = s.newNote
          /\ Added(s, note).notes = array /\ Added(s, note).noteIndex = s.noteIndex
          /\ Added(s, note).sounding = TRUE /\ Added(s, note).period = s.period
      BY <2>1, <2>3 DEF Synth
    <2> QED BY <1>2, <2>2, <2>4 DEF IsAdded
  <1>3. CASE s.noteIndex # MAX_POLYPHONY
    <2> DEFINE array == [s.notes EXCEPT ![s.noteIndex] = note]
    <2>1. array \in Array
      BY <1>1 DEF Array
    <2>2. \A i \in Slot : array[i] = IF i = s.noteIndex THEN note ELSE s.notes[i]
      BY <1>1 DEF Array
    <2>3. s.noteIndex + 1 \in Index
      BY <1>1, <1>3, PolyphonyAssumption, SMT DEF Index
    <2>4. Added(s, note) = [pc |-> s.pc, newNote |-> s.newNote, notes |-> array,
                            noteIndex |-> s.noteIndex + 1, sounding |-> TRUE,
                            period |-> note]
      BY <1>3 DEF Added
    <2> HIDE DEF array
    <2>5. /\ Added(s, note) \in Synth
          /\ Added(s, note).pc = s.pc /\ Added(s, note).newNote = s.newNote
          /\ Added(s, note).notes = array /\ Added(s, note).noteIndex = s.noteIndex + 1
          /\ Added(s, note).sounding = TRUE /\ Added(s, note).period = note
      BY <2>1, <2>3, <2>4 DEF Synth
    <2> QED BY <1>3, <2>2, <2>5 DEF IsAdded
  <1> QED BY <1>2, <1>3

LEMMA DroppedFacts ==
  ASSUME NEW s \in Synth, NEW i \in Slot
  PROVE  IsDropped(s, Dropped(s, i), i)
  <1> DEFINE array == Shifted(s.notes, i)
             index == IF s.noteIndex >= 2 THEN s.noteIndex - 1 ELSE 0
             tune == IF s.noteIndex >= 2 THEN array[s.noteIndex - 2] ELSE s.period
  <1>1. /\ s.notes \in Array /\ s.noteIndex \in Index
        /\ s.period \in Data
    BY DEF Synth
  <1>2. /\ array \in Array
        /\ \A j \in Slot : array[j] = IF j \in i .. MAX_POLYPHONY - 2
                                       THEN s.notes[j + 1] ELSE s.notes[j]
    BY <1>1, ShiftedFacts
  <1>3. index \in Index /\ (s.noteIndex >= 2 => s.noteIndex - 2 \in Slot)
    BY <1>1, PolyphonyAssumption, SMT DEF Slot, Index
  <1>4. Dropped(s, i) = [pc |-> s.pc, newNote |-> s.newNote, notes |-> array,
                         noteIndex |-> index, sounding |-> s.noteIndex >= 2,
                         period |-> tune]
    BY DEF Dropped
  <1> HIDE DEF array, index
  <1>6. tune \in Data /\ (s.noteIndex >= 2) \in BOOLEAN
    BY <1>1, <1>2, <1>3 DEF Array
  <1>8. s.noteIndex < 2 <=> ~ (s.noteIndex >= 2)
    BY <1>1, PolyphonyAssumption, SMT DEF Index
  <1>9. (s.noteIndex >= 2 => tune = array[s.noteIndex - 2]) /\ (s.noteIndex < 2 => tune = s.period)
    BY <1>8
  <1> HIDE DEF tune
  <1>7. /\ Dropped(s, i) \in Synth
        /\ Dropped(s, i).pc = s.pc /\ Dropped(s, i).newNote = s.newNote
        /\ Dropped(s, i).notes = array /\ Dropped(s, i).noteIndex = index
        /\ Dropped(s, i).sounding = (s.noteIndex >= 2) /\ Dropped(s, i).period = tune
    BY <1>2, <1>3, <1>4, <1>6 DEF Synth
  <1> QED BY <1>2, <1>7, <1>9 DEF IsDropped, index

LEMMA ReleasedFacts ==
  ASSUME NEW s \in Synth, NEW note
  PROVE  /\ Released(s, note) \in Synth
         /\ Released(s, note).pc = s.pc /\ Released(s, note).newNote = s.newNote
         /\ \/ Hits(s.notes, note) = {} /\ Released(s, note) = s
            \/ \E i \in Hits(s.notes, note) : IsDropped(s, Released(s, note), i)
  <1>1. CASE Hits(s.notes, note) = {}
    BY <1>1 DEF Released
  <1>2. CASE Hits(s.notes, note) # {}
    <2>1. PICK i \in Hits(s.notes, note) : TRUE
      BY <1>2
    <2>2. i \in Slot /\ Released(s, note) = Dropped(s, i)
      BY <1>2, <2>1, HitsFacts DEF Released
    <2>3. IsDropped(s, Released(s, note), i)
      BY <2>2, DroppedFacts
    <2> QED BY <2>1, <2>3 DEF IsDropped
  <1> QED BY <1>1, <1>2

LEMMA MovedSane ==
  ASSUME NEW s \in Synth, NEW handler \in Handlers, NEW note \in Byte,
         handler = "velocity" => note \in Data,
         NEW t, t = Moved(s, handler, note)
  PROVE  Sane(t)
  <1>1. t \in Synth /\ t.pc = handler /\ t.newNote = note
    BY DEF Moved, Synth
  <1> QED BY <1>1 DEF Sane

LEMMA TakeSane ==
  ASSUME NEW s, Sane(s), NEW b \in Byte
  PROVE  Sane(Take(s, b))
  <1>0. /\ s \in Synth /\ s.pc \in Handlers /\ s.newNote \in Byte
        /\ (s.pc = "velocity" => s.newNote \in Data)
    BY DEF Sane, Synth
  <1>1. CASE b >= 128
    <2> DEFINE note == IF s.pc \in {"note_on", "note_off"} THEN b ELSE s.newNote
    <2>1. Home(b) \in Handlers /\ Home(b) # "velocity" /\ note \in Byte
      BY <1>0 DEF Home, Handlers
    <2>2. Take(s, b) = Moved(s, Home(b), note)
      BY <1>0, <1>1 DEF Take
    <2> HIDE DEF note
    <2> QED BY <1>0, <2>1, <2>2, MovedSane
  <1>2. CASE ~ (b >= 128)
    <2>1. b \in Data
      BY <1>2, SMT DEF Byte, Data
    <2>2. "velocity" \in Handlers /\ "note_on" \in Handlers /\ "value" \in Handlers
          /\ "number" \in Handlers /\ "note_off" \in Handlers
      BY DEF Handlers
    <2>3. CASE s.pc = "note_on"
      <3>1. Take(s, b) = Moved(s, "velocity", b)
        BY <1>2, <2>3 DEF Take
      <3> QED BY <1>0, <2>1, <2>2, <3>1, MovedSane
    <2>4. CASE s.pc = "velocity"
      <3> DEFINE t == IF b # 0 THEN Added(s, s.newNote) ELSE Released(s, s.newNote)
      <3>1. Take(s, b) = Moved(t, "note_on", s.newNote)
        BY <1>2, <2>4 DEF Take
      <3>2. t \in Synth
        <4>1. IsAdded(s, Added(s, s.newNote), s.newNote)
          BY <1>0, <2>4, AddedFacts DEF Data
        <4> QED BY <1>0, <4>1, ReleasedFacts DEF IsAdded
      <3> HIDE DEF t
      <3> QED BY <1>0, <2>2, <3>1, <3>2, MovedSane
    <2>5. CASE s.pc = "note_off"
      <3>1. Take(s, b) = Moved(Released(s, b), "note_off", b)
        BY <1>2, <2>5 DEF Take
      <3>2. Released(s, b) \in Synth /\ Released(s, b).pc = "note_off"
        BY <1>0, <2>5, ReleasedFacts
      <3> QED BY <2>2, <3>1, <3>2, MovedSane
    <2>6. CASE s.pc = "number"
      <3>1. Take(s, b) = Moved(s, "value", s.newNote)
        BY <1>2, <2>6 DEF Take
      <3> QED BY <1>0, <2>2, <3>1, MovedSane
    <2>7. CASE s.pc = "value"
      <3>1. Take(s, b) = Moved(s, "number", s.newNote)
        BY <1>2, <2>7 DEF Take
      <3> QED BY <1>0, <2>2, <3>1, MovedSane
    <2>8. CASE s.pc = "opcode"
      <3>1. Take(s, b) = s
        BY <1>2, <2>8 DEF Take
      <3> QED BY <3>1
    <2> QED BY <1>0, <2>3, <2>4, <2>5, <2>6, <2>7, <2>8 DEF Handlers
  <1> QED BY <1>1, <1>2
------------------------------------------------------------------------------
\* The main program's steps take the bytes one by one.
LEMMA NowFields ==
  ASSUME SynthOK
  PROVE  /\ pc \in Handlers /\ newNote \in Byte /\ notes \in Array
         /\ noteIndex \in Index /\ sounding \in BOOLEAN /\ period \in Data
         /\ pc = "velocity" => newNote \in Data
  BY DEF SynthOK, Sane, Synth, Now

LEMMA OpcodeTakes ==
  ASSUME SynthOK, NEW b \in Byte, Gets(b), Opcode
  PROVE  Now' = Take(Now, b)
  <1>1. pc = "opcode" /\ UNCHANGED <<newNote, notes, noteIndex, sounding, period>>
    BY DEF Opcode
  <1>2. pc' = CASE b = NoteOn -> "note_on"
                [] b = NoteOff -> "note_off"
                [] b = Control -> "number"
                [] OTHER -> "opcode"
    BY DEF Opcode, Gets
  <1>3. CASE b >= 128
    <2>1. pc' = Home(b)
      <3>1. b # 0 /\ NoteOn # NoteOff /\ NoteOn # Control /\ NoteOff # Control
        BY <1>3, SMT DEF NoteOn, NoteOff, Control
      <3> QED BY <1>2, <3>1 DEF Home
    <2>2. Take(Now, b) = Moved(Now, Home(b), newNote)
      BY <1>1, <1>3 DEF Take, Now
    <2> QED BY <1>1, <2>1, <2>2 DEF Now, Moved
  <1>4. CASE ~ (b >= 128)
    <2>1. b # NoteOn /\ b # NoteOff /\ b # Control
      BY <1>4, SMT DEF NoteOn, NoteOff, Control
    <2>2. Take(Now, b) = Now
      BY <1>1, <1>4 DEF Take, Now
    <2> QED BY <1>1, <1>2, <2>1, <2>2 DEF Now
  <1> QED BY <1>3, <1>4

LEMMA GiveBackTakes ==
  ASSUME SynthOK, GiveBack
  PROVE  Take(Now', rx.midiByte) = Take(Now, rx.midiByte)
  <1> DEFINE b == rx.midiByte
  <1>1. /\ pc # "opcode" /\ b >= 128 /\ pc' = "opcode"
        /\ newNote' = IF pc \in {"note_on", "note_off"} THEN b ELSE newNote
        /\ UNCHANGED <<notes, noteIndex, sounding, period>>
    BY DEF GiveBack, IsStatus
  <1> HIDE DEF b
  <1>2. Take(Now, b) = Moved(Now, Home(b), newNote')
    BY <1>1 DEF Take, Now
  <1>3. Take(Now', b) = Moved(Now', Home(b), newNote')
    BY <1>1 DEF Take, Now
  <1>4. Moved(Now, Home(b), newNote') = Moved(Now', Home(b), newNote')
    BY <1>1 DEF Moved, Now
  <1> QED BY <1>2, <1>3, <1>4 DEF b

LEMMA IndexFacts ==
  ASSUME NEW n \in Index
  PROVE  /\ n \in Slot <=> n # MAX_POLYPHONY
         /\ n - 2 \in Slot <=> n >= 2
  BY PolyphonyAssumption, SMT DEF Slot, Index

LEMMA AddTakes ==
  ASSUME SynthOK, NEW note \in Data, Add(note)
  PROVE  Added(Now, note) =
           [pc |-> pc, newNote |-> newNote, notes |-> notes',
            noteIndex |-> noteIndex', sounding |-> sounding', period |-> period']
  <1>0. notes \in Array /\ noteIndex \in Index
    BY NowFields
  <1>1. CASE noteIndex = MAX_POLYPHONY
    <2>1. ~ (noteIndex \in Slot)
      BY <1>0, <1>1, IndexFacts
    <2>2. /\ notes' = [Shifted(notes, 0) EXCEPT ![MAX_POLYPHONY - 1] = note]
          /\ period' = period /\ noteIndex' = noteIndex
      BY <1>1, <2>1 DEF Add, ShiftLeft, Shifted, UpdateSynth
    <2>3. sounding' = TRUE
      BY <1>1 DEF Add, UpdateSynth
    <2> QED BY <1>1, <2>2, <2>3 DEF Added, Now
  <1>2. CASE noteIndex # MAX_POLYPHONY
    <2>1. noteIndex \in Slot
      BY <1>0, <1>2, IndexFacts
    <2>2. /\ notes' = [notes EXCEPT ![noteIndex] = note]
          /\ noteIndex' = noteIndex + 1
      BY <1>2 DEF Add, UpdateSynth
    <2>3. period' = note
      <3>1. period' = notes'[noteIndex]
        BY <1>2, <2>1 DEF Add, UpdateSynth
      <3> QED BY <1>0, <2>1, <2>2, <3>1 DEF Array
    <2>4. sounding' = TRUE
      BY <1>2 DEF Add, UpdateSynth
    <2> QED BY <1>2, <2>2, <2>3, <2>4 DEF Added, Now
  <1> QED BY <1>1, <1>2

LEMMA ReleaseTakes ==
  ASSUME SynthOK, NEW note, Release(note)
  PROVE  Released(Now, note) =
           [pc |-> pc, newNote |-> newNote, notes |-> notes',
            noteIndex |-> noteIndex', sounding |-> sounding', period |-> period']
  <1>0. notes \in Array /\ noteIndex \in Index
    BY NowFields
  <1>1. GetNoteIndex(note) = Hits(notes, note) /\ Now.notes = notes
    BY DEF GetNoteIndex, Hits, Now
  <1>2. CASE Hits(notes, note) = {}
    <2>1. UNCHANGED <<notes, noteIndex, sounding, period>>
      BY <1>1, <1>2 DEF Release
    <2>2. Released(Now, note) = Now
      BY <1>1, <1>2 DEF Released
    <2> QED BY <2>1, <2>2 DEF Now
  <1>3. CASE Hits(notes, note) # {}
    <2>1. PICK i \in Hits(notes, note) : Drop(i)
      BY <1>1, <1>3 DEF Release
    <2>2. Released(Now, note) = Dropped(Now, i)
      BY <1>1, <1>3, <2>1, HitsFacts DEF Released
    <2>3. noteIndex - 2 \in Slot <=> noteIndex >= 2
      BY <1>0, IndexFacts
    <2>4. /\ notes' = Shifted(notes, i)
          /\ noteIndex' = IF noteIndex >= 2 THEN noteIndex - 1 ELSE 0
          /\ sounding' = (noteIndex >= 2)
          /\ period' = IF noteIndex >= 2 THEN notes'[noteIndex - 2] ELSE period
      BY <2>1, <2>3 DEF Drop, ShiftLeft, Shifted, UpdateSynth
    <2>5. Dropped(Now, i) = [pc |-> pc, newNote |-> newNote, notes |-> notes',
             noteIndex |-> noteIndex', sounding |-> sounding', period |-> period']
      BY <2>4 DEF Dropped, Now
    <2> QED BY <2>2, <2>5
  <1> QED BY <1>2, <1>3

\* Whatever b the handler of note messages, or of the others, has got.
LEMMA HandlersTake ==
  ASSUME SynthOK, NEW b \in Data, Gets(b), noteOn \/ noteOff \/ controlChange
  PROVE  Now' = Take(Now, b)
  <1>0. ~ (b >= 128) /\ rx.newByte /\ rx.midiByte = b
    BY SMT DEF Data, Gets
  <1>1. CASE noteOn
    <2>1. PICK c \in 0 .. 127 :
            /\ Gets(c)
            /\ \/ /\ pc = "note_on" /\ pc' = "velocity" /\ newNote' = c
                  /\ UNCHANGED <<notes, noteIndex, sounding, period>>
               \/ /\ pc = "velocity" /\ pc' = "note_on"
                  /\ IF c # 0 THEN Add(newNote) ELSE Release(newNote)
                  /\ UNCHANGED newNote
      BY <1>1 DEF noteOn
    <2>2. c = b
      BY <1>0, <2>1 DEF Gets
    <2>3. CASE pc = "note_on"
      <3>1. /\ pc' = "velocity" /\ newNote' = b
            /\ UNCHANGED <<notes, noteIndex, sounding, period>>
        BY <2>1, <2>2, <2>3
      <3>2. Take(Now, b) = Moved(Now, "velocity", b)
        BY <1>0, <2>3 DEF Take, Now
      <3> QED BY <3>1, <3>2 DEF Now, Moved
    <2>4. CASE pc = "velocity"
      <3>1. /\ pc' = "note_on" /\ newNote' = newNote
            /\ IF b # 0 THEN Add(newNote) ELSE Release(newNote)
        BY <2>1, <2>2, <2>4
      <3>2. newNote \in Data
        BY <2>4, NowFields
      <3>3. Take(Now, b) = Moved(IF b # 0 THEN Added(Now, newNote) ELSE Released(Now, newNote),
                                 "note_on", newNote)
        BY <1>0, <2>4 DEF Take, Now
      <3> DEFINE t == IF b # 0 THEN Added(Now, newNote) ELSE Released(Now, newNote)
      <3>4. t = [pc |-> pc, newNote |-> newNote, notes |-> notes',
                 noteIndex |-> noteIndex', sounding |-> sounding', period |-> period']
        BY <3>1, <3>2, AddTakes, ReleaseTakes
      <3>5. Take(Now, b) = Moved(t, "note_on", newNote)
        BY <3>3
      <3> HIDE DEF t
      <3>6. Moved(t, "note_on", newNote) =
              [pc |-> "note_on", newNote |-> newNote, notes |-> notes',
               noteIndex |-> noteIndex', sounding |-> sounding', period |-> period']
        BY <3>4 DEF Moved
      <3> QED BY <3>1, <3>5, <3>6 DEF Now
    <2> QED BY <2>1, <2>3, <2>4
  <1>2. CASE noteOff
    <2>1. pc = "note_off" /\ pc' = pc /\ newNote' = b /\ Release(b)
      BY <1>0, <1>2 DEF noteOff, Gets
    <2>2. Released(Now, b) =
            [pc |-> pc, newNote |-> newNote, notes |-> notes',
             noteIndex |-> noteIndex', sounding |-> sounding', period |-> period']
      BY <2>1, ReleaseTakes
    <2>3. Take(Now, b) = Moved(Released(Now, b), "note_off", b)
      BY <1>0, <2>1 DEF Take, Now
    <2>4. Moved(Released(Now, b), "note_off", b) =
            [pc |-> "note_off", newNote |-> b, notes |-> notes',
             noteIndex |-> noteIndex', sounding |-> sounding', period |-> period']
      BY <2>2 DEF Moved
    <2> QED BY <2>1, <2>3, <2>4 DEF Now
  <1>3. CASE controlChange
    <2>1. /\ UNCHANGED <<newNote, notes, noteIndex, sounding, period>>
          /\ \/ pc = "number" /\ pc' = "value"
             \/ pc = "value" /\ pc' = "number"
      BY <1>3 DEF controlChange
    <2>2. CASE pc = "number"
      <3>1. Take(Now, b) = Moved(Now, "value", newNote)
        BY <1>0, <2>2 DEF Take, Now
      <3> QED BY <2>1, <2>2, <3>1 DEF Now, Moved
    <2>3. CASE pc = "value"
      <3>1. Take(Now, b) = Moved(Now, "number", newNote)
        BY <1>0, <2>3 DEF Take, Now
      <3> QED BY <2>1, <2>3, <3>1 DEF Now, Moved
    <2> QED BY <2>1, <2>2, <2>3
  <1> QED BY <1>1, <1>2, <1>3
------------------------------------------------------------------------------
\* The array and the keys.
LEMMA SynthFields ==
  ASSUME NEW s \in Synth
  PROVE  /\ s.noteIndex \in 0 .. MAX_POLYPHONY /\ s.notes \in [Slot -> 0 .. 127]
         /\ s.sounding \in BOOLEAN /\ s.period \in 0 .. 127
  BY DEF Synth, Index, Array, Data

LEMMA PressedOn ==
  ASSUME NEW s \in Synth, NEW keys \in Seq(Note), NEW full \in BOOLEAN, NEW key \in Note,
         ReflectsOn(s, keys, full), NEW t, IsAdded(s, t, key)
  PROVE  /\ ReflectsOn(t, Append(keys, key), full \/ Len(keys) = MAX_POLYPHONY)
         /\ t.sounding <=> t.noteIndex > 0
  <1> DEFINE w == Append(keys, key)
             L == Len(keys)
             M == MAX_POLYPHONY
             n == s.noteIndex
  <1>1. /\ Len(w) = L + 1 /\ w[L + 1] = key /\ L \in Nat
        /\ \A j \in 1 .. L : w[j] = keys[j]
    BY AppendProperties, LenProperties
  <1>2. n \in 0 .. M /\ M \in Nat \ {0}
    BY SynthFields, PolyphonyAssumption
  <1>3. /\ n <= L /\ (full \/ n = L)
        /\ \A i \in 0 .. n - 1 : s.notes[i] = keys[L - n + i + 1]
        /\ \A i \in Slot : i >= n => s.notes[i] = s.notes[M - 1]
        /\ n < M => \A j \in 1 .. L - n : keys[j] # s.notes[M - 1]
    BY DEF ReflectsOn
  <1>4. CASE n = M
    <2>1. /\ t.noteIndex = M /\ t.sounding = TRUE
          /\ \A i \in Slot : t.notes[i] = IF i = M - 1 THEN key ELSE s.notes[i + 1]
      BY <1>4 DEF IsAdded
    <2> HIDE DEF w, L, M, n
    <2>2. ASSUME NEW i \in 0 .. M - 1
          PROVE  t.notes[i] = w[(L + 1) - M + i + 1]
      <3>1. i \in Slot
        BY DEF Slot, M
      <3>2. CASE i = M - 1
        <4>1. (L + 1) - M + i + 1 = L + 1
          BY <1>1, <1>2, <3>2, SMT
        <4> QED BY <1>1, <2>1, <3>1, <3>2, <4>1
      <3>3. CASE i # M - 1
        <4>1. /\ i + 1 \in 0 .. n - 1 /\ L - n + (i + 1) + 1 = (L + 1) - M + i + 1
              /\ (L + 1) - M + i + 1 \in 1 .. L
          BY <1>1, <1>2, <1>3, <1>4, <3>3, SMT
        <4>2. s.notes[i + 1] = keys[L - n + (i + 1) + 1]
          BY <1>3, <4>1
        <4> QED BY <1>1, <2>1, <3>1, <3>3, <4>1, <4>2
      <3> QED BY <3>2, <3>3
    <2>3. M <= L + 1 /\ M > 0 /\ ~ (M < M)
      BY <1>1, <1>2, <1>3, <1>4, SMT
    <2>4. \A i \in Slot : i >= M => FALSE
      BY <1>2, SMT DEF Slot, M
    <2>5. full \/ L = M
      BY <1>3, <1>4
    <2> QED BY <1>1, <2>1, <2>2, <2>3, <2>4, <2>5 DEF ReflectsOn, w, L, M
  <1>5. CASE n # M
    <2>1. /\ t.noteIndex = n + 1 /\ t.sounding = TRUE /\ t.period = key
          /\ \A i \in Slot : t.notes[i] = IF i = n THEN key ELSE s.notes[i]
      BY <1>5 DEF IsAdded
    <2> HIDE DEF w, L, M, n
    <2>2. ASSUME NEW i \in 0 .. (n + 1) - 1
          PROVE  t.notes[i] = w[(L + 1) - (n + 1) + i + 1]
      <3>1. i \in Slot
        BY <1>2, <1>5, SMT DEF Slot, M
      <3>2. CASE i = n
        <4>1. (L + 1) - (n + 1) + i + 1 = L + 1
          BY <1>1, <1>2, <3>2, SMT
        <4> QED BY <1>1, <2>1, <3>1, <3>2, <4>1
      <3>3. CASE i # n
        <4>1. /\ i \in 0 .. n - 1 /\ L - n + i + 1 = (L + 1) - (n + 1) + i + 1
              /\ L - n + i + 1 \in 1 .. L
          BY <1>1, <1>2, <1>3, <3>3, SMT
        <4> QED BY <1>1, <1>3, <2>1, <3>1, <3>3, <4>1
      <3> QED BY <3>2, <3>3
    <2>3. n + 1 <= L + 1 /\ n + 1 > 0 /\ (L + 1) - (n + 1) = L - n
      BY <1>1, <1>2, <1>3, SMT
    <2>4. M - 1 \in Slot
      BY PolyphonyAssumption, SMT DEF Slot, M
    <2>5. \A i \in Slot : i >= n + 1 => t.notes[i] = t.notes[M - 1]
      <3>1. ASSUME NEW i \in Slot, i >= n + 1
            PROVE  i # n /\ M - 1 # n /\ i >= n
        BY <1>2, <3>1, SMT DEF Slot, M
      <3> QED BY <1>3, <2>1, <2>4, <3>1
    <2>6. n + 1 < M => \A j \in 1 .. L - n : w[j] # t.notes[M - 1]
      <3>1. ASSUME n + 1 < M, NEW j \in 1 .. L - n
            PROVE  j \in 1 .. L /\ M - 1 # n /\ n < M
        BY <1>1, <1>2, <1>3, <3>1, SMT
      <3> QED BY <1>1, <1>3, <2>1, <2>4, <3>1
    <2>7. (full \/ L = M) \/ n + 1 = L + 1
      BY <1>3
    <2>8. t.noteIndex = n + 1 /\ Len(w) = L + 1 /\ t.period = w[Len(w)]
      BY <1>1, <2>1
    <2>9. /\ t.noteIndex <= Len(w) /\ (t.sounding <=> t.noteIndex > 0)
          /\ t.noteIndex < M => \A j \in 1 .. Len(w) - t.noteIndex : w[j] # t.notes[M - 1]
      BY <2>1, <2>3, <2>6, <2>8
    <2>10. /\ \A i \in 0 .. t.noteIndex - 1 : t.notes[i] = w[Len(w) - t.noteIndex + i + 1]
           /\ \A i \in Slot : i >= t.noteIndex => t.notes[i] = t.notes[M - 1]
           /\ (full \/ L = M) \/ t.noteIndex = Len(w)
      BY <2>2, <2>5, <2>7, <2>8
    <2> QED BY <2>8, <2>9, <2>10 DEF ReflectsOn, w, L, M
  <1> QED BY <1>4, <1>5

\* The sequence without its i-th element.
LEMMA RemovedAt ==
  ASSUME NEW S, NEW keys \in Seq(S), NEW i \in DOMAIN keys,
         NEW w, w = RemoveAt(keys, i)
  PROVE  /\ w \in Seq(S) /\ Len(keys) \in Nat \ {0} /\ Len(w) = Len(keys) - 1
         /\ i \in 1 .. Len(keys)
         /\ \A j \in 1 .. Len(keys) - 1 : w[j] = IF j < i THEN keys[j] ELSE keys[j + 1]
  <1> DEFINE L == Len(keys)
             a == SubSeq(keys, 1, i - 1)
             b == SubSeq(keys, i + 1, L)
  <1>1. L \in Nat /\ i \in 1 .. L /\ L \in Nat \ {0} /\ \A j \in 1 .. L : keys[j] \in S
    <2>1. L \in Nat /\ DOMAIN keys = 1 .. L /\ \A j \in 1 .. L : keys[j] \in S
      BY LenProperties, ElementOfSeq
    <2>2. i \in 1 .. L
      BY <2>1
    <2> HIDE DEF L
    <2>3. L \in Nat \ {0}
      BY <2>1, <2>2, SMT
    <2> QED BY <2>1, <2>2, <2>3
  <1> HIDE DEF L
  <1>2. /\ a \in Seq(S) /\ Len(a) = i - 1
        /\ \A j \in 1 .. i - 1 : a[j] = keys[j]
    <2>1. \A j \in 1 .. i - 1 : keys[j] \in S
      BY <1>1, SMT
    <2>2. 1 \in Int /\ i - 1 \in Int /\ (i - 1) - 1 + 1 = i - 1 /\ (~ (1 <= i - 1) => i - 1 = 0)
      BY <1>1, SMT
    <2>3. /\ a \in Seq(S) /\ Len(a) = IF 1 <= i - 1 THEN (i - 1) - 1 + 1 ELSE 0
          /\ \A j \in 1 .. (i - 1) - 1 + 1 : a[j] = keys[1 + j - 1]
      BY <2>1, <2>2, SubSeqProperties
    <2>4. \A j \in 1 .. i - 1 : 1 + j - 1 = j
      BY <1>1, SMT
    <2> HIDE DEF a
    <2> QED BY <2>2, <2>3, <2>4
  <1>3. /\ b \in Seq(S) /\ Len(b) = L - i
        /\ \A j \in 1 .. L - i : b[j] = keys[i + j]
    <2>1. \A j \in i + 1 .. L : keys[j] \in S
      BY <1>1, SMT
    <2>2. i + 1 \in Int /\ L \in Int /\ L - (i + 1) + 1 = L - i /\ (~ (i + 1 <= L) => L - i = 0)
      BY <1>1, SMT
    <2>3. /\ b \in Seq(S) /\ Len(b) = IF i + 1 <= L THEN L - (i + 1) + 1 ELSE 0
          /\ \A j \in 1 .. L - (i + 1) + 1 : b[j] = keys[(i + 1) + j - 1]
      BY <2>1, <2>2, SubSeqProperties
    <2>4. \A j \in 1 .. L - i : (i + 1) + j - 1 = i + j
      BY <1>1, SMT
    <2> HIDE DEF b
    <2> QED BY <2>2, <2>3, <2>4
  <1>4. w = a \o b
    BY DEF RemoveAt, L
  <1> HIDE DEF a, b
  <1>5. /\ w \in Seq(S) /\ Len(w) = (i - 1) + (L - i)
        /\ \A j \in 1 .. (i - 1) + (L - i) :
              w[j] = IF j <= i - 1 THEN a[j] ELSE b[j - (i - 1)]
    BY <1>2, <1>3, <1>4, ConcatProperties
  <1>6. (i - 1) + (L - i) = L - 1
    BY <1>1, SMT
  <1>7. ASSUME NEW j \in 1 .. L - 1
        PROVE  w[j] = IF j < i THEN keys[j] ELSE keys[j + 1]
    <2>1. w[j] = IF j <= i - 1 THEN a[j] ELSE b[j - (i - 1)]
      BY <1>5, <1>6
    <2>2. CASE j < i
      <3>1. j <= i - 1 /\ j \in 1 .. i - 1
        BY <1>1, <2>2, SMT
      <3> QED BY <1>2, <2>1, <2>2, <3>1
    <2>3. CASE ~ (j < i)
      <3>1. ~ (j <= i - 1) /\ j - (i - 1) \in 1 .. L - i /\ i + (j - (i - 1)) = j + 1
        BY <1>1, <2>3, SMT
      <3> QED BY <1>3, <2>1, <2>3, <3>1
    <2> QED BY <2>2, <2>3
  <1> QED BY <1>1, <1>5, <1>6, <1>7 DEF L

LEMMA LiftedOn ==
  ASSUME NEW s \in Synth, NEW keys \in Seq(Note), NEW full \in BOOLEAN, NEW i \in DOMAIN keys,
         \A j, h \in DOMAIN keys : keys[j] = keys[h] => j = h,
         ReflectsOn(s, keys, full), s.sounding <=> s.noteIndex > 0,
         NEW t, t = Released(s, keys[i]), NEW w, w = RemoveAt(keys, i)
  PROVE  /\ ReflectsOn(t, w, full /\ Len(keys) > 1)
         /\ t.sounding <=> t.noteIndex > 0
  <1> DEFINE L == Len(keys)
             M == MAX_POLYPHONY
             n == s.noteIndex
  <1>1. /\ L \in Nat \ {0} /\ Len(w) = L - 1 /\ i \in 1 .. L
        /\ \A j \in 1 .. L - 1 : w[j] = IF j < i THEN keys[j] ELSE keys[j + 1]
    BY RemovedAt
  <1>2. n \in 0 .. M /\ M \in Nat \ {0}
    BY SynthFields, PolyphonyAssumption
  <1>3. /\ n <= L /\ (full \/ n = L)
        /\ \A h \in 0 .. n - 1 : s.notes[h] = keys[L - n + h + 1]
        /\ \A h \in Slot : h >= n => s.notes[h] = s.notes[M - 1]
        /\ n < M => \A j \in 1 .. L - n : keys[j] # s.notes[M - 1]
    BY DEF ReflectsOn
  <1>4. \A j, h \in 1 .. L : keys[j] = keys[h] => j = h
    BY LenProperties
  <1>5. M - 1 \in Slot /\ \A h \in Slot : h \in 0 .. M - 1
    BY <1>2, SMT DEF Slot, M
  <1>8. L \in Nat \ {0} /\ i \in 1 .. L /\ n <= L
    BY <1>1, <1>3
  <1> HIDE DEF L, M, n
  <1>6. CASE i <= L - n
    <2>1. Hits(s.notes, keys[i]) = {}
      <3>1. ASSUME NEW h \in Slot
            PROVE  s.notes[h] # keys[i]
        <4>1. CASE h \in 0 .. n - 1
          <5>1. L - n + h + 1 \in 1 .. L /\ L - n + h + 1 # i
            BY <1>2, <1>6, <1>8, <4>1, SMT
          <5> QED BY <1>1, <1>3, <1>4, <4>1, <5>1
        <4>2. CASE ~ (h \in 0 .. n - 1)
          <5>1. h \in 0 .. M - 1
            BY <1>5
          <5>2. h >= n /\ n < M /\ i \in 1 .. L - n
            BY <1>1, <1>2, <1>6, <4>2, <5>1, SMT
          <5> QED BY <1>3, <5>2
        <4> QED BY <4>1, <4>2
      <3> QED BY <3>1 DEF Hits
    <2>2. t = s
      BY <2>1 DEF Released
    <2>3. n <= L - 1 /\ full /\ (L > 1 \/ n = L - 1)
      <3>1. n <= L - 1 /\ n # L /\ (L > 1 \/ n = L - 1)
        BY <1>1, <1>2, <1>6, SMT
      <3> QED BY <1>3, <3>1
    <2>4. ASSUME NEW h \in 0 .. n - 1
          PROVE  s.notes[h] = w[(L - 1) - n + h + 1]
      <3>1. /\ (L - 1) - n + h + 1 \in 1 .. L - 1 /\ ~ ((L - 1) - n + h + 1 < i)
            /\ ((L - 1) - n + h + 1) + 1 = L - n + h + 1
        BY <1>1, <1>2, <1>3, <1>6, SMT
      <3> QED BY <1>1, <1>3, <3>1
    <2>5. ASSUME n < M, NEW j \in 1 .. (L - 1) - n
          PROVE  w[j] # s.notes[M - 1]
      <3>1. j \in 1 .. L - 1 /\ j \in 1 .. L - n /\ j + 1 \in 1 .. L - n
        BY <1>1, <1>2, <1>3, SMT
      <3> QED BY <1>1, <1>3, <2>5, <3>1
    <2>6. w # <<>> => L > 1
      <3>1. ASSUME ~ (L > 1)
            PROVE  Len(w) = 0
        BY <1>1, <3>1, SMT
      <3>2. w \in Seq(Note)
        BY RemovedAt
      <3> QED BY <3>1, <3>2, EmptySeq
    <2> QED BY <1>1, <1>3, <2>2, <2>3, <2>4, <2>5, <2>6 DEF ReflectsOn, n, M, L
  <1>7. CASE ~ (i <= L - n)
    <2> DEFINE g == i - (L - n) - 1
    <2>1. /\ g \in 0 .. n - 1 /\ L - n + g + 1 = i /\ n \in 1 .. L /\ g \in 0 .. M - 1
          /\ \A h \in 0 .. g - 1 : h \in 0 .. n - 1 /\ L - n + h + 1 \in 1 .. L /\ L - n + h + 1 # i
      BY <1>1, <1>2, <1>3, <1>7, SMT
    <2> HIDE DEF g
    <2>2. IsDropped(s, t, g)
      <3>1. g \in Hits(s.notes, keys[i])
        <4>1. g \in Slot
          BY <2>1 DEF Slot, M
        <4>2. s.notes[g] = keys[i]
          BY <1>3, <2>1
        <4>3. \A h \in 0 .. g - 1 : s.notes[h] # keys[i]
          BY <1>1, <1>3, <1>4, <2>1
        <4> QED BY <4>1, <4>2, <4>3 DEF Hits
      <3> QED BY <3>1, HitsFacts, ReleasedFacts
    <2>3. /\ t.noteIndex = IF n >= 2 THEN n - 1 ELSE 0
          /\ t.sounding = (n >= 2)
          /\ \A h \in Slot : t.notes[h] = IF h \in g .. M - 2 THEN s.notes[h + 1] ELSE s.notes[h]
          /\ n >= 2 => t.period = t.notes[n - 2]
      BY <2>2 DEF IsDropped, n, M
    <2>4. t.noteIndex = n - 1 /\ (n >= 2 <=> n - 1 > 0)
      BY <2>1, <2>3, SMT
    <2>5. ASSUME NEW h \in 0 .. n - 2
          PROVE  t.notes[h] = w[(L - 1) - (n - 1) + h + 1]
      <3>1. /\ (L - 1) - (n - 1) + h + 1 = L - n + h + 1
            /\ L - n + h + 1 \in 1 .. L - 1 /\ h \in 0 .. n - 1 /\ h + 1 \in 0 .. n - 1
            /\ L - n + (h + 1) + 1 = (L - n + h + 1) + 1
            /\ h \in 0 .. M - 1
            /\ L - n + h + 1 < i <=> ~ (h \in g .. M - 2)
        BY <1>1, <1>2, <1>3, <2>1, SMT
      <3>2. h \in Slot
        BY <3>1 DEF Slot, M
      <3>3. s.notes[h] = keys[L - n + h + 1] /\ s.notes[h + 1] = keys[(L - n + h + 1) + 1]
        BY <1>3, <3>1
      <3>4. w[L - n + h + 1] = IF L - n + h + 1 < i THEN keys[L - n + h + 1]
                               ELSE keys[(L - n + h + 1) + 1]
        BY <1>1, <3>1
      <3>5. t.notes[h] = IF h \in g .. M - 2 THEN s.notes[h + 1] ELSE s.notes[h]
        BY <2>3, <3>2
      <3> QED BY <3>1, <3>3, <3>4, <3>5
    <2>6. t.notes[M - 1] = s.notes[M - 1]
      <3>1. ~ (M - 1 \in g .. M - 2)
        BY <1>2, <2>1, SMT
      <3> QED BY <1>5, <2>3, <3>1
    <2>7. ASSUME NEW h \in Slot, h >= n - 1
          PROVE  t.notes[h] = t.notes[M - 1]
      <3>1. CASE h = M - 1
        BY <3>1
      <3>2. CASE h # M - 1
        <4>1. h \in 0 .. M - 1
          BY <1>5
        <4>2. h \in g .. M - 2 /\ h + 1 \in 0 .. M - 1 /\ h + 1 >= n
          BY <1>2, <2>1, <2>7, <3>2, <4>1, SMT
        <4>3. h + 1 \in Slot
          BY <4>2 DEF Slot, M
        <4> QED BY <1>3, <2>3, <2>6, <4>2, <4>3
      <3> QED BY <3>1, <3>2
    <2>8. ASSUME NEW j \in 1 .. (L - 1) - (n - 1)
          PROVE  w[j] # t.notes[M - 1]
      <3>1. j \in 1 .. L - n /\ j \in 1 .. L - 1 /\ j < i /\ j \in 1 .. L /\ j # L /\ L \in 1 .. L
        BY <1>1, <1>2, <1>3, <1>7, <2>1, SMT
      <3>2. w[j] = keys[j]
        BY <1>1, <3>1
      <3>3. CASE n < M
        BY <1>3, <2>6, <3>1, <3>2, <3>3
      <3>4. CASE ~ (n < M)
        <4>1. n = M /\ M - 1 \in 0 .. n - 1 /\ L - n + (M - 1) + 1 = L
          BY <1>2, <1>8, <3>4, SMT
        <4>2. s.notes[M - 1] = keys[L]
          BY <1>3, <4>1
        <4> QED BY <1>4, <2>6, <3>1, <3>2, <4>2
      <3> QED BY <3>3, <3>4
    <2>9. n - 1 <= L - 1 /\ ((full /\ L > 1) \/ n - 1 = L - 1)
      <3>1. n - 1 <= L - 1 /\ (L > 1 \/ n = L)
        BY <1>1, <2>1, SMT
      <3> QED BY <1>3, <3>1
    <2>10. ~ (full /\ L > 1) /\ w # <<>> => t.period = w[L - 1]
      <3>1. ASSUME ~ (full /\ L > 1), w # <<>>
            PROVE  t.period = w[L - 1]
        <4>1. L > 1
          <5>1. ASSUME ~ (L > 1)
                PROVE  Len(w) = 0
            BY <1>1, <5>1, SMT
          <5>2. w \in Seq(Note)
            BY RemovedAt
          <5> QED BY <3>1, <5>1, <5>2, EmptySeq
        <4>2. n = L
          BY <1>3, <3>1, <4>1
        <4>3. n >= 2 /\ n - 2 \in 0 .. n - 2 /\ (L - 1) - (n - 1) + (n - 2) + 1 = L - 1
          BY <1>1, <4>1, <4>2, SMT
        <4> QED BY <2>3, <2>5, <4>3
      <3> QED BY <3>1
    <2>11. (n - 1) - 1 = n - 2
      BY <2>1, SMT
    <2>12. /\ t.noteIndex <= Len(w) /\ (t.sounding <=> t.noteIndex > 0)
           /\ (full /\ L > 1) \/ t.noteIndex = Len(w)
           /\ ~ (full /\ L > 1) /\ w # <<>> => t.period = w[Len(w)]
      BY <1>1, <2>3, <2>4, <2>9, <2>10
    <2>13. /\ \A h \in 0 .. t.noteIndex - 1 : t.notes[h] = w[Len(w) - t.noteIndex + h + 1]
           /\ \A h \in Slot : h >= t.noteIndex => t.notes[h] = t.notes[M - 1]
           /\ t.noteIndex < M => \A j \in 1 .. Len(w) - t.noteIndex : w[j] # t.notes[M - 1]
      BY <1>1, <2>4, <2>5, <2>7, <2>8, <2>11
    <2> QED BY <2>12, <2>13 DEF ReflectsOn, M, L
  <1> QED BY <1>6, <1>7

LEMMA Smallest ==
  ASSUME NEW T, T \subseteq Nat, T # {}
  PROVE  \E x \in T : \A y \in T : ~ (y < x)
  <1>1. PICK x \in T : \A y \in T : ~ (<<y, x>> \in OpToRel(<, Nat))
    BY NatLessThanWellFounded, WFMin
  <1>2. ASSUME NEW y \in T
        PROVE  ~ (y < x)
    BY <1>1, <1>2 DEF OpToRel
  <1> QED BY <1>2

LEMMA NoHits ==
  ASSUME NEW array, NEW note, Hits(array, note) = {}
  PROVE  \A i \in Slot : array[i] # note
  <1> DEFINE T == {i \in Slot : array[i] = note}
  <1>1. Slot \subseteq Nat /\ \A x \in Slot : \A j \in 0 .. x - 1 : j \in Slot /\ j < x
    BY PolyphonyAssumption, SMT DEF Slot
  <1>2. SUFFICES ASSUME T # {}
                 PROVE  FALSE
    OBVIOUS
  <1>3. PICK x \in T : \A y \in T : ~ (y < x)
    BY <1>1, <1>2, Smallest
  <1>4. \A j \in 0 .. x - 1 : array[j] # note
    BY <1>1, <1>3
  <1> QED BY <1>3, <1>4 DEF Hits

\* Whatever note is named, what stays in the array was in it.
LEMMA ReleasedOff ==
  ASSUME NEW s \in Synth, NEW keys, NEW note,
         ReflectsOff(s, keys), s.sounding <=> s.noteIndex > 0,
         NEW t, t = Released(s, note)
  PROVE  /\ ReflectsOff(t, keys)
         /\ t.sounding <=> t.noteIndex > 0
         /\ \A h \in 0 .. t.noteIndex - 1 : t.notes[h] # note
  <1> DEFINE M == MAX_POLYPHONY
             n == s.noteIndex
  <1>1. /\ \A h \in 0 .. n - 1 : \E j \in DOMAIN keys : s.notes[h] = keys[j]
        /\ \A g, h \in 0 .. n - 1 : s.notes[g] = s.notes[h] => g = h
    BY DEF ReflectsOff
  <1>2. n \in 0 .. M /\ M \in Nat \ {0}
    BY SynthFields, PolyphonyAssumption
  <1> HIDE DEF M, n
  <1>3. CASE Hits(s.notes, note) = {}
    <2>1. t = s
      BY <1>3 DEF Released
    <2>2. \A h \in 0 .. n - 1 : h \in Slot
      BY <1>2, SMT DEF Slot, M
    <2> QED BY <1>3, <2>1, <2>2, NoHits DEF n
  <1>4. CASE Hits(s.notes, note) # {}
    <2>1. PICK g \in Hits(s.notes, note) : IsDropped(s, t, g)
      BY <1>4, ReleasedFacts
    <2>2. /\ t.noteIndex = IF n >= 2 THEN n - 1 ELSE 0
          /\ t.sounding = (n >= 2)
          /\ \A h \in Slot : t.notes[h] = IF h \in g .. M - 2 THEN s.notes[h + 1] ELSE s.notes[h]
      BY <2>1 DEF IsDropped, n, M
    <2>3. g \in 0 .. M - 1 /\ s.notes[g] = note /\ \A j \in 0 .. g - 1 : s.notes[j] # note
      BY <2>1 DEF Hits, Slot, M
    <2>4. CASE n = 0
      <3>1. t.noteIndex = 0 /\ ~ (n >= 2) /\ ~ (0 > 0) /\ \A h \in 0 .. 0 - 1 : FALSE
        BY <2>2, <2>4, SMT
      <3> QED BY <2>2, <3>1 DEF ReflectsOff
    <2>5. CASE n # 0
      <3>1. t.noteIndex = n - 1 /\ (n >= 2 <=> n - 1 > 0) /\ n \in 1 .. M
        BY <1>2, <2>2, <2>5, SMT
      <3> DEFINE from(h) == IF h < g THEN h ELSE h + 1
      <3>2. ASSUME NEW h \in 0 .. (n - 1) - 1
            PROVE  t.notes[h] = s.notes[from(h)] /\ from(h) \in 0 .. n - 1 /\ from(h) # g
        <4>1. /\ h \in 0 .. M - 1 /\ from(h) \in 0 .. n - 1 /\ from(h) # g
              /\ h < g <=> ~ (h \in g .. M - 2)
          BY <1>2, <2>3, <3>1, SMT
        <4>2. h \in Slot
          BY <4>1 DEF Slot, M
        <4> QED BY <2>2, <4>1, <4>2
      <3>3. ASSUME NEW h \in 0 .. (n - 1) - 1, NEW j \in 0 .. (n - 1) - 1, from(h) = from(j)
            PROVE  h = j
        BY <1>2, <2>3, <3>3, SMT
      <3>4. ASSUME NEW h \in 0 .. (n - 1) - 1
            PROVE  s.notes[from(h)] # note
        <4>1. CASE g \in 0 .. n - 1
          <5>1. from(h) \in 0 .. n - 1 /\ from(h) # g
            BY <3>2
          <5> HIDE DEF from
          <5> QED BY <1>1, <2>3, <4>1, <5>1
        <4>2. CASE ~ (g \in 0 .. n - 1)
          <5>1. from(h) \in 0 .. g - 1
            BY <1>2, <2>3, <4>2, SMT
          <5> HIDE DEF from
          <5> QED BY <2>3, <5>1
        <4> QED BY <4>1, <4>2
      <3> HIDE DEF from
      <3>5. \A h \in 0 .. (n - 1) - 1 : \E j \in DOMAIN keys : t.notes[h] = keys[j]
        BY <1>1, <3>2
      <3>6. \A h, j \in 0 .. (n - 1) - 1 : t.notes[h] = t.notes[j] => h = j
        BY <1>1, <3>2, <3>3
      <3>7. \A h \in 0 .. (n - 1) - 1 : t.notes[h] # note
        BY <3>2, <3>4
      <3> QED BY <2>2, <3>1, <3>5, <3>6, <3>7 DEF ReflectsOff
    <2> QED BY <2>4, <2>5
  <1> QED BY <1>3, <1>4

LEMMA LiftedOff ==
  ASSUME NEW s \in Synth, NEW keys \in Seq(Note), NEW i \in DOMAIN keys,
         ReflectsOff(s, keys), s.sounding <=> s.noteIndex > 0,
         NEW t, t = Released(s, keys[i]), NEW w, w = RemoveAt(keys, i)
  PROVE  /\ ReflectsOff(t, w)
         /\ t.sounding <=> t.noteIndex > 0
  <1> DEFINE L == Len(keys)
  <1>1. /\ L \in Nat \ {0} /\ Len(w) = L - 1 /\ i \in 1 .. L /\ w \in Seq(Note)
        /\ \A j \in 1 .. L - 1 : w[j] = IF j < i THEN keys[j] ELSE keys[j + 1]
    BY RemovedAt
  <1>2. /\ ReflectsOff(t, keys) /\ (t.sounding <=> t.noteIndex > 0)
        /\ \A h \in 0 .. t.noteIndex - 1 : t.notes[h] # keys[i]
    BY ReleasedOff
  <1>3. DOMAIN keys = 1 .. L /\ DOMAIN w = 1 .. L - 1
    BY <1>1, LenProperties
  <1> HIDE DEF L
  <1>4. ASSUME NEW j \in 1 .. L, j # i
        PROVE  \E h \in 1 .. L - 1 : w[h] = keys[j]
    <2>1. CASE j < i
      <3>1. j \in 1 .. L - 1
        BY <1>1, <2>1, SMT
      <3> QED BY <1>1, <2>1, <3>1
    <2>2. CASE ~ (j < i)
      <3>1. j - 1 \in 1 .. L - 1 /\ ~ (j - 1 < i) /\ (j - 1) + 1 = j
        BY <1>1, <1>4, <2>2, SMT
      <3> QED BY <1>1, <3>1
    <2> QED BY <2>1, <2>2
  <1> QED BY <1>2, <1>3, <1>4 DEF ReflectsOff

LEMMA PressedOff ==
  ASSUME NEW s \in Synth, NEW keys \in Seq(Note), NEW key \in Note,
         \A j \in DOMAIN keys : keys[j] # key,
         ReflectsOff(s, keys), NEW t, IsAdded(s, t, key)
  PROVE  /\ ReflectsOff(t, Append(keys, key))
         /\ t.sounding <=> t.noteIndex > 0
  <1> DEFINE w == Append(keys, key)
             L == Len(keys)
             M == MAX_POLYPHONY
             n == s.noteIndex
  <1>1. /\ DOMAIN w = 1 .. L + 1 /\ w[L + 1] = key /\ L \in Nat
        /\ \A j \in 1 .. L : w[j] = keys[j]
        /\ DOMAIN keys = 1 .. L
    BY AppendProperties, LenProperties
  <1>2. n \in 0 .. M /\ M \in Nat \ {0}
    BY SynthFields, PolyphonyAssumption
  <1>3. /\ \A h \in 0 .. n - 1 : \E j \in DOMAIN keys : s.notes[h] = keys[j]
        /\ \A g, h \in 0 .. n - 1 : s.notes[g] = s.notes[h] => g = h
        /\ \A h \in 0 .. n - 1 : s.notes[h] # key
    BY DEF ReflectsOff
  <1> HIDE DEF w, L, M, n
  <1>4. /\ L + 1 \in 1 .. L + 1
        /\ \A j \in 1 .. L : j \in 1 .. L + 1
    BY <1>1, SMT
  <1>5. /\ \E j \in DOMAIN w : key = w[j]
        /\ \A h \in 0 .. n - 1 : \E j \in DOMAIN w : s.notes[h] = w[j]
    BY <1>1, <1>3, <1>4
  <1>6. CASE n = M
    <2>1. /\ t.noteIndex = M /\ t.sounding = TRUE /\ M > 0
          /\ \A h \in Slot : t.notes[h] = IF h = M - 1 THEN key ELSE s.notes[h + 1]
      BY <1>2, <1>6 DEF IsAdded, n, M
    <2>2. \A h \in 0 .. M - 1 : h # M - 1 => h + 1 \in 0 .. n - 1
      BY <1>2, <1>6, SMT
    <2>3. \A h \in 0 .. M - 1 : t.notes[h] = IF h = M - 1 THEN key ELSE s.notes[h + 1]
      BY <2>1 DEF Slot, M
    <2>4. \A h \in 0 .. M - 1 : \E j \in DOMAIN w : t.notes[h] = w[j]
      BY <1>5, <2>2, <2>3
    <2>5. ASSUME NEW g \in 0 .. M - 1, NEW h \in 0 .. M - 1, t.notes[g] = t.notes[h]
          PROVE  g = h
      <3>1. g + 1 = h + 1 => g = h
        BY SMT
      <3> QED BY <1>3, <2>2, <2>3, <2>5, <3>1
    <2> QED BY <2>1, <2>4, <2>5 DEF ReflectsOff, w
  <1>7. CASE n # M
    <2>1. /\ t.noteIndex = n + 1 /\ t.sounding = TRUE
          /\ \A h \in Slot : t.notes[h] = IF h = n THEN key ELSE s.notes[h]
      BY <1>7 DEF IsAdded, n, M
    <2>2. /\ \A h \in 0 .. (n + 1) - 1 : h \in 0 .. M - 1 /\ (h # n => h \in 0 .. n - 1)
          /\ n + 1 > 0
      BY <1>2, <1>7, SMT
    <2>3. \A h \in 0 .. (n + 1) - 1 : t.notes[h] = IF h = n THEN key ELSE s.notes[h]
      BY <2>1, <2>2 DEF Slot, M
    <2>4. \A h \in 0 .. (n + 1) - 1 : \E j \in DOMAIN w : t.notes[h] = w[j]
      BY <1>5, <2>2, <2>3
    <2>5. \A g, h \in 0 .. (n + 1) - 1 : t.notes[g] = t.notes[h] => g = h
      BY <1>3, <2>2, <2>3
    <2> QED BY <2>1, <2>2, <2>4, <2>5 DEF ReflectsOff, w
  <1> QED BY <1>6, <1>7
------------------------------------------------------------------------------
\* The bytes of a message.
LEMMA UpToFour ==
  ASSUME NEW n \in Nat
  PROVE  /\ n <= 1 => n = 0 \/ n = 1
         /\ n <= 3 => n = 0 \/ n = 1 \/ n = 2 \/ n = 3
         /\ n <= 4 => n = 0 \/ n = 1 \/ n = 2 \/ n = 3 \/ n = 4
  BY SMT

LEMMA ReplayAppend ==
  ASSUME NEW s, NEW u \in Seq(Byte), Len(u) <= 1, NEW m \in Seq(Byte), Len(m) <= 3
  PROVE  Replay(s, u \o m) = Replay(Replay(s, u), m)
  <1>1. Len(u) \in Nat /\ Len(m) \in Nat
    BY LenProperties
  <1>2. CASE Len(u) = 0
    <2>1. u = <<>> /\ u \o m = m
      BY <1>2, EmptySeq, ConcatEmptySeq
    <2>2. Replay(s, u) = s
      BY <1>2 DEF Replay
    <2> QED BY <2>1, <2>2
  <1>3. CASE Len(u) = 1
    <2> DEFINE c == u \o m
    <2>1. /\ Len(c) = 1 + Len(m)
          /\ \A j \in 1 .. 1 + Len(m) : c[j] = IF j <= 1 THEN u[j] ELSE m[j - 1]
      BY <1>3, ConcatProperties
    <2> HIDE DEF c
    <2>2. Replay(s, u) = Take(s, u[1])
      BY <1>3, SMT DEF Replay
    <2>3. Len(m) = 0 \/ Len(m) = 1 \/ Len(m) = 2 \/ Len(m) = 3
      BY <1>1, UpToFour
    <2>4. c[1] = u[1]
      <3>1. 1 \in 1 .. 1 + Len(m) /\ 1 <= 1
        BY <1>1, SMT
      <3> QED BY <2>1, <3>1
    <2>5. \A j \in 1 .. Len(m) : c[j + 1] = m[j]
      <3>1. ASSUME NEW j \in 1 .. Len(m)
            PROVE  j + 1 \in 1 .. 1 + Len(m) /\ ~ (j + 1 <= 1) /\ (j + 1) - 1 = j
        BY <1>1, SMT
      <3> QED BY <2>1, <3>1
    <2>6. CASE Len(m) = 0
      <3>1. Len(c) = 1
        BY <2>1, <2>6
      <3>2. Replay(s, c) = Take(s, c[1])
        BY <3>1, SMT DEF Replay
      <3>3. Replay(Replay(s, u), m) = Replay(s, u)
        BY <2>6 DEF Replay
      <3> QED BY <2>2, <2>4, <3>2, <3>3 DEF c
    <2>7. CASE Len(m) = 1
      <3>1. Len(c) = 2 /\ c[2] = m[1]
        BY <2>1, <2>5, <2>7
      <3> QED BY <2>2, <2>4, <2>7, <3>1, SMT DEF Replay, c
    <2>8. CASE Len(m) = 2
      <3>1. Len(c) = 3 /\ c[2] = m[1] /\ c[3] = m[2]
        BY <2>1, <2>5, <2>8
      <3> QED BY <2>2, <2>4, <2>8, <3>1, SMT DEF Replay, c
    <2>9. CASE Len(m) = 3
      <3>1. Len(c) = 4 /\ c[2] = m[1] /\ c[3] = m[2] /\ c[4] = m[3]
        BY <2>1, <2>5, <2>9
      <3> QED BY <2>2, <2>4, <2>9, <3>1, SMT DEF Replay, c
    <2> QED BY <2>3, <2>6, <2>7, <2>8, <2>9
  <1> QED BY <1>1, <1>2, <1>3, UpToFour

LEMMA ReplaySane ==
  ASSUME NEW s, Sane(s), NEW u \in Seq(Byte), Len(u) <= 4
  PROVE  Sane(Replay(s, u))
  <1>1. Len(u) \in Nat /\ \A j \in 1 .. Len(u) : u[j] \in Byte
    BY LenProperties, ElementOfSeq
  <1>2. CASE Len(u) = 0
    BY <1>2 DEF Replay
  <1>3. CASE Len(u) = 1
    <2>1. Replay(s, u) = Take(s, u[1]) /\ u[1] \in Byte
      BY <1>1, <1>3, SMT DEF Replay
    <2> QED BY <2>1, TakeSane
  <1>4. CASE Len(u) = 2
    <2>1. Replay(s, u) = Take(Take(s, u[1]), u[2]) /\ u[1] \in Byte /\ u[2] \in Byte
      BY <1>1, <1>4, SMT DEF Replay
    <2>2. Sane(Take(s, u[1]))
      BY <2>1, TakeSane
    <2> QED BY <2>1, <2>2, TakeSane
  <1>5. CASE Len(u) = 3
    <2>1. /\ Replay(s, u) = Take(Take(Take(s, u[1]), u[2]), u[3])
          /\ u[1] \in Byte /\ u[2] \in Byte /\ u[3] \in Byte
      BY <1>1, <1>5, SMT DEF Replay
    <2>2. Sane(Take(s, u[1]))
      BY <2>1, TakeSane
    <2>3. Sane(Take(Take(s, u[1]), u[2]))
      BY <2>1, <2>2, TakeSane
    <2> QED BY <2>1, <2>3, TakeSane
  <1>6. CASE Len(u) = 4
    <2>1. /\ Replay(s, u) = Take(Take(Take(Take(s, u[1]), u[2]), u[3]), u[4])
          /\ u[1] \in Byte /\ u[2] \in Byte /\ u[3] \in Byte /\ u[4] \in Byte
      BY <1>1, <1>6, SMT DEF Replay
    <2>2. Sane(Take(s, u[1]))
      BY <2>1, TakeSane
    <2>3. Sane(Take(Take(s, u[1]), u[2]))
      BY <2>1, <2>2, TakeSane
    <2>4. Sane(Take(Take(Take(s, u[1]), u[2]), u[3]))
      BY <2>1, <2>3, TakeSane
    <2> QED BY <2>1, <2>4, TakeSane
  <1> QED BY <1>1, <1>2, <1>3, <1>4, <1>5, <1>6, UpToFour

\* The notes of t are those of s.
SameNotes(s, t) == /\ t.notes = s.notes /\ t.noteIndex = s.noteIndex
                   /\ t.sounding = s.sounding /\ t.period = s.period

LEMMA MovedKeepsNotes ==
  ASSUME NEW s, NEW handler, NEW note
  PROVE  SameNotes(s, Moved(s, handler, note)) /\ Moved(s, handler, note).pc = handler
  BY DEF SameNotes, Moved

LEMMA MovedIs ==
  ASSUME NEW s, NEW t, NEW handler, NEW note, t = Moved(s, handler, note)
  PROVE  SameNotes(s, t) /\ t.pc = handler
  BY MovedKeepsNotes

LEMMA SameNotesMirror ==
  ASSUME NEW s, NEW t, SameNotes(s, t), NEW keys, NEW full, Mirrors(s, keys, full)
  PROVE  Mirrors(t, keys, full)
  <1>1. /\ t.notes = s.notes /\ t.noteIndex = s.noteIndex
        /\ t.sounding = s.sounding /\ t.period = s.period
    BY DEF SameNotes
  <1>2. ReflectsOn(s, keys, full) => ReflectsOn(t, keys, full)
    BY <1>1 DEF ReflectsOn
  <1>3. ReflectsOff(s, keys) => ReflectsOff(t, keys)
    BY <1>1 DEF ReflectsOff
  <1> QED BY <1>1, <1>2, <1>3 DEF Mirrors

\* A message brings the main program to the handler of its status, which the
\* sender may leave out when that is where it is.
LEMMA MessageTaken ==
  ASSUME NEW s, Sane(s), NEW first \in {NoteOn, NoteOff, Control, OtherChannel},
         NEW a \in Data, NEW v \in Data,
         NEW m, m = <<first, a, v>> \/ (m = <<a, v>> /\ s.pc = Home(first))
  PROVE  \E e : /\ Sane(e) /\ e.pc = Home(first) /\ SameNotes(s, e)
                /\ Replay(s, m) = Take(Take(e, a), v)
  <1>1. CASE m = <<first, a, v>>
    <2>1. Len(m) = 3 /\ m[1] = first /\ m[2] = a /\ m[3] = v
      BY <1>1
    <2>2. Replay(s, m) = Take(Take(Take(s, first), a), v)
      BY <2>1, SMT DEF Replay
    <2>3. first \in Byte /\ first >= 128
      BY SMT DEF NoteOn, NoteOff, Control, OtherChannel, Byte
    <2>4. PICK n : Take(s, first) = Moved(s, Home(first), n)
      BY <2>3 DEF Take
    <2> QED BY <2>2, <2>3, <2>4, TakeSane, MovedKeepsNotes
  <1>2. CASE m = <<a, v>> /\ s.pc = Home(first)
    <2>1. Len(m) = 2 /\ m[1] = a /\ m[2] = v
      BY <1>2
    <2>2. Replay(s, m) = Take(Take(s, a), v)
      BY <2>1, SMT DEF Replay
    <2> QED BY <1>2, <2>2 DEF SameNotes
  <1> QED BY <1>1, <1>2

LEMMA DataTaken ==
  ASSUME NEW b \in Data
  PROVE  ~ (b >= 128) /\ b \in Byte /\ b \in 0 .. 127
  BY SMT DEF Data, Byte

LEMMA Homes ==
  /\ Home(NoteOn) = "note_on" /\ Home(NoteOff) = "note_off"
  /\ Home(Control) = "number" /\ Home(OtherChannel) = "opcode" /\ Home(0) = "note_off"
  BY DEF Home, NoteOn, NoteOff, Control, OtherChannel

\* The messages, one by one.
LEMMA NoteOnTaken ==
  ASSUME NEW e, Sane(e), e.pc = "note_on", NEW a \in Data, NEW v \in Data,
         NEW t, t = Take(Take(e, a), v)
  PROVE  /\ t.pc = "note_on"
         /\ \E d, f : /\ Sane(d) /\ SameNotes(e, d) /\ SameNotes(f, t)
                      /\ v # 0 => IsAdded(d, f, a)
                      /\ v = 0 => f = Released(d, a)
  <1> DEFINE d == Moved(e, "velocity", a)
             f == IF v # 0 THEN Added(d, a) ELSE Released(d, a)
  <1>1. Take(e, a) = d
    BY DataTaken DEF Take
  <1>2. Sane(d)
    BY <1>1, DataTaken, TakeSane
  <1>3. SameNotes(e, d) /\ d.pc = "velocity"
    BY MovedKeepsNotes
  <1>4. d.newNote = a
    BY DEF Moved
  <1> HIDE DEF d
  <1>5. t = Moved(f, "note_on", a)
    BY <1>1, <1>3, <1>4, DataTaken DEF Take
  <1>6. v # 0 => IsAdded(d, f, a)
    BY <1>2, AddedFacts DEF Sane, Data
  <1>7. v = 0 => f = Released(d, a)
    OBVIOUS
  <1> HIDE DEF f
  <1>8. SameNotes(f, t) /\ t.pc = "note_on"
    BY <1>5, MovedIs
  <1> QED BY <1>2, <1>3, <1>6, <1>7, <1>8

LEMMA NoteOffTaken ==
  ASSUME NEW e, Sane(e), e.pc = "note_off", NEW a \in Data, NEW v \in Data,
         NEW t, t = Take(Take(e, a), v)
  PROVE  /\ t.pc = "note_off"
         /\ \E d : /\ Sane(d) /\ SameNotes(Released(e, a), d) /\ SameNotes(Released(d, v), t)
  <1> DEFINE d == Moved(Released(e, a), "note_off", a)
  <1>1. Take(e, a) = d
    BY DataTaken DEF Take
  <1>2. Sane(d)
    BY <1>1, DataTaken, TakeSane
  <1>3. SameNotes(Released(e, a), d) /\ d.pc = "note_off"
    BY MovedKeepsNotes
  <1> HIDE DEF d
  <1> DEFINE f == Released(d, v)
  <1>4. t = Moved(f, "note_off", v)
    BY <1>1, <1>3, DataTaken DEF Take
  <1> HIDE DEF f
  <1>5. SameNotes(f, t) /\ t.pc = "note_off"
    BY <1>4, MovedIs
  <1> QED BY <1>2, <1>3, <1>5 DEF f

LEMMA OtherTaken ==
  ASSUME NEW e, e.pc \in {"number", "opcode"}, NEW a \in Data, NEW v \in Data,
         NEW t, t = Take(Take(e, a), v)
  PROVE  t.pc = e.pc /\ SameNotes(e, t)
  <1>1. CASE e.pc = "number"
    <2> DEFINE d == Moved(e, "value", e.newNote)
    <2>1. Take(e, a) = d
      BY <1>1, DataTaken DEF Take
    <2>2. SameNotes(e, d) /\ d.pc = "value"
      BY MovedKeepsNotes
    <2> HIDE DEF d
    <2>3. t = Moved(d, "number", d.newNote)
      BY <2>1, <2>2, DataTaken DEF Take
    <2>4. SameNotes(d, t) /\ t.pc = "number"
      BY <2>3, MovedKeepsNotes
    <2> QED BY <1>1, <2>2, <2>4 DEF SameNotes
  <1>2. CASE e.pc = "opcode"
    <2>1. t = e
      BY <1>2, DataTaken DEF Take
    <2> QED BY <2>1 DEF SameNotes
  <1> QED BY <1>1, <1>2

Injective(keys) == \A i, j \in DOMAIN keys : keys[i] = keys[j] => i = j

LEMMA NotesArePlayed ==
  ASSUME NEW s \in Synth, NEW keys \in Seq(Note), NEW full \in BOOLEAN,
         Mirrors(s, keys, full), NEW t
  PROVE  /\ \A key \in Note :
              (\A j \in DOMAIN keys : keys[j] # key) /\ IsAdded(s, t, key)
                => Mirrors(t, Append(keys, key), full \/ Len(keys) = MAX_POLYPHONY)
         /\ \A i \in DOMAIN keys :
              Injective(keys) /\ t = Released(s, keys[i])
                => Mirrors(t, RemoveAt(keys, i), full /\ Len(keys) > 1)
  <1>1. ASSUME NEW key \in Note, \A j \in DOMAIN keys : keys[j] # key, IsAdded(s, t, key)
        PROVE  Mirrors(t, Append(keys, key), full \/ Len(keys) = MAX_POLYPHONY)
    <2>1. releases = "by_note_on" =>
            /\ ReflectsOn(t, Append(keys, key), full \/ Len(keys) = MAX_POLYPHONY)
            /\ t.sounding <=> t.noteIndex > 0
      BY <1>1, PressedOn DEF Mirrors
    <2>2. releases = "by_note_off" =>
            /\ ReflectsOff(t, Append(keys, key))
            /\ t.sounding <=> t.noteIndex > 0
      BY <1>1, PressedOff DEF Mirrors
    <2>3. t.sounding <=> t.noteIndex > 0
      <3>1. s.noteIndex \in 0 .. MAX_POLYPHONY /\ MAX_POLYPHONY \in Nat \ {0}
        BY SynthFields, PolyphonyAssumption
      <3>2. t.sounding = TRUE /\ (t.noteIndex = MAX_POLYPHONY \/ t.noteIndex = s.noteIndex + 1)
        BY <1>1 DEF IsAdded
      <3>3. MAX_POLYPHONY > 0 /\ s.noteIndex + 1 > 0
        BY <3>1, SMT
      <3> QED BY <3>2, <3>3
    <2> QED BY <2>1, <2>2, <2>3 DEF Mirrors
  <1>2. ASSUME NEW i \in DOMAIN keys, Injective(keys), t = Released(s, keys[i])
        PROVE  Mirrors(t, RemoveAt(keys, i), full /\ Len(keys) > 1)
    <2>1. releases = "by_note_on" => ReflectsOn(t, RemoveAt(keys, i), full /\ Len(keys) > 1)
      BY <1>2, LiftedOn DEF Mirrors, Injective
    <2>2. releases = "by_note_off" => ReflectsOff(t, RemoveAt(keys, i))
      BY <1>2, LiftedOff DEF Mirrors
    <2>3. t.sounding <=> t.noteIndex > 0
      <3>1. CASE t = s
        BY <3>1 DEF Mirrors
      <3>2. CASE t # s
        <4>1. PICK g : IsDropped(s, t, g)
          BY <1>2, <3>2, ReleasedFacts
        <4>2. s.noteIndex \in 0 .. MAX_POLYPHONY /\ MAX_POLYPHONY \in Nat \ {0}
          BY SynthFields, PolyphonyAssumption
        <4>3. /\ t.sounding = (s.noteIndex >= 2)
              /\ t.noteIndex = IF s.noteIndex >= 2 THEN s.noteIndex - 1 ELSE 0
          BY <4>1 DEF IsDropped
        <4>4. (s.noteIndex >= 2 => s.noteIndex - 1 > 0) /\ ~ (0 > 0)
          BY <4>2, SMT
        <4> QED BY <4>3, <4>4
      <3> QED BY <3>1, <3>2
    <2> QED BY <2>1, <2>2, <2>3 DEF Mirrors
  <1> QED BY <1>1, <1>2

\* A whole message of the keyboard.
LEMMA PressMirrors ==
  ASSUME NEW s, Sane(s), NEW keys \in Seq(Note), NEW full \in BOOLEAN, Mirrors(s, keys, full),
         NEW key \in Note, \A j \in DOMAIN keys : keys[j] # key,
         NEW m, m = <<NoteOn, key, 1>> \/ (m = <<key, 1>> /\ s.pc = Home(NoteOn))
  PROVE  /\ Replay(s, m).pc = Home(NoteOn)
         /\ Mirrors(Replay(s, m), Append(keys, key), full \/ Len(keys) = MAX_POLYPHONY)
  <1>1. key \in Data /\ 1 \in Data /\ 1 # 0
    BY DataAssumption, SMT DEF Data
  <1>2. PICK e : /\ Sane(e) /\ e.pc = Home(NoteOn) /\ SameNotes(s, e)
                 /\ Replay(s, m) = Take(Take(e, key), 1)
    BY <1>1, MessageTaken
  <1>3. PICK d, f : /\ Sane(d) /\ SameNotes(e, d) /\ SameNotes(f, Replay(s, m))
                    /\ IsAdded(d, f, key)
    BY <1>1, <1>2, NoteOnTaken, Homes
  <1>4. Replay(s, m).pc = Home(NoteOn)
    BY <1>1, <1>2, NoteOnTaken, Homes
  <1>5. Mirrors(d, keys, full)
    BY <1>2, <1>3, SameNotesMirror
  <1>6. Mirrors(f, Append(keys, key), full \/ Len(keys) = MAX_POLYPHONY)
    BY <1>3, <1>5, NotesArePlayed DEF Sane
  <1> QED BY <1>3, <1>4, <1>6, SameNotesMirror

LEMMA LiftMirrors ==
  ASSUME NEW s, Sane(s), NEW keys \in Seq(Note), Injective(keys), NEW full \in BOOLEAN,
         Mirrors(s, keys, full), NEW i \in DOMAIN keys, NEW first, NEW v,
         \/ releases = "by_note_on" /\ first = NoteOn /\ v = 0
         \/ releases = "by_note_off" /\ first = NoteOff /\ v \in OffVelocity,
         NEW a, a = keys[i],
         NEW m, m = <<first, a, v>> \/ (m = <<a, v>> /\ s.pc = Home(first))
  PROVE  /\ Replay(s, m).pc = Home(first)
         /\ Mirrors(Replay(s, m), RemoveAt(keys, i), full /\ Len(keys) > 1)
  <1>1. a \in Data /\ v \in Data /\ first \in {NoteOn, NoteOff, Control, OtherChannel}
    <2>1. a \in Note
      BY LenProperties, ElementOfSeq
    <2>2. 0 \in Data
      BY SMT DEF Data
    <2> QED BY <2>1, <2>2, DataAssumption DEF Data
  <1>2. PICK e : /\ Sane(e) /\ e.pc = Home(first) /\ SameNotes(s, e)
                 /\ Replay(s, m) = Take(Take(e, a), v)
    BY <1>1, MessageTaken
  <1>3. Mirrors(e, keys, full)
    BY <1>2, SameNotesMirror
  <1>4. CASE releases = "by_note_on" /\ first = NoteOn /\ v = 0
    <2>1. PICK d, f : /\ Sane(d) /\ SameNotes(e, d) /\ SameNotes(f, Replay(s, m))
                      /\ f = Released(d, a)
      BY <1>1, <1>2, <1>4, NoteOnTaken, Homes
    <2>2. Replay(s, m).pc = Home(NoteOn)
      BY <1>1, <1>2, <1>4, NoteOnTaken, Homes
    <2>3. Mirrors(d, keys, full)
      BY <1>3, <2>1, SameNotesMirror
    <2>4. Mirrors(f, RemoveAt(keys, i), full /\ Len(keys) > 1)
      BY <2>1, <2>3, NotesArePlayed DEF Sane
    <2> QED BY <1>4, <2>1, <2>2, <2>4, SameNotesMirror
  <1>5. CASE releases = "by_note_off" /\ first = NoteOff
    <2>1. PICK d : /\ Sane(d) /\ SameNotes(Released(e, a), d)
                   /\ SameNotes(Released(d, v), Replay(s, m))
      BY <1>1, <1>2, <1>5, NoteOffTaken, Homes
    <2>2. Replay(s, m).pc = Home(NoteOff)
      BY <1>1, <1>2, <1>5, NoteOffTaken, Homes
    <2>3. Mirrors(Released(e, a), RemoveAt(keys, i), full /\ Len(keys) > 1)
      BY <1>2, <1>3, NotesArePlayed DEF Sane
    <2>4. Mirrors(d, RemoveAt(keys, i), full /\ Len(keys) > 1)
      BY <2>1, <2>3, SameNotesMirror
    <2>5. Mirrors(Released(d, v), RemoveAt(keys, i), full /\ Len(keys) > 1)
      <3>1. releases # "by_note_on"
        BY <1>5
      <3>2. /\ ReflectsOff(d, RemoveAt(keys, i)) /\ (d.sounding <=> d.noteIndex > 0)
        BY <1>5, <2>4 DEF Mirrors
      <3>3. /\ ReflectsOff(Released(d, v), RemoveAt(keys, i))
            /\ Released(d, v).sounding <=> Released(d, v).noteIndex > 0
        BY <2>1, <3>2, ReleasedOff DEF Sane
      <3> QED BY <3>1, <3>3 DEF Mirrors
    <2> QED BY <1>5, <2>1, <2>2, <2>5, SameNotesMirror
  <1> QED BY <1>4, <1>5

LEMMA OtherMirrors ==
  ASSUME NEW s, Sane(s), NEW keys, NEW full, Mirrors(s, keys, full),
         NEW first \in {Control, OtherChannel},
         NEW m, m = <<first, 0, 1>> \/ (m = <<0, 1>> /\ s.pc = Home(first))
  PROVE  Replay(s, m).pc = Home(first) /\ Mirrors(Replay(s, m), keys, full)
  <1>1. 0 \in Data /\ 1 \in Data
    BY SMT DEF Data
  <1>2. PICK e : /\ Sane(e) /\ e.pc = Home(first) /\ SameNotes(s, e)
                 /\ Replay(s, m) = Take(Take(e, 0), 1)
    BY <1>1, MessageTaken
  <1>3. e.pc \in {"number", "opcode"}
    BY <1>2, Homes
  <1>4. Replay(s, m).pc = Home(first) /\ SameNotes(e, Replay(s, m))
    BY <1>1, <1>2, <1>3, OtherTaken
  <1> QED BY <1>2, <1>4, SameNotesMirror

------------------------------------------------------------------------------
\* The line.
LEMMA NonEmpty ==
  ASSUME NEW S, NEW s \in Seq(S), s # <<>>
  PROVE  /\ Head(s) \in S /\ Tail(s) \in Seq(S) /\ s = <<Head(s)>> \o Tail(s)
         /\ Head(s) = s[1] /\ 1 \in DOMAIN s
         /\ Len(s) \in Nat /\ Len(Tail(s)) = Len(s) - 1
         /\ \A i \in DOMAIN Tail(s) : i + 1 \in DOMAIN s /\ i + 1 # 1 /\ Tail(s)[i] = s[i + 1]
         /\ Tail(s) # <<>> => 1 \in DOMAIN Tail(s) /\ Head(Tail(s)) = Tail(s)[1]
  BY SMT

LEMMA OneOf ==
  ASSUME NEW S, NEW x \in S
  PROVE  <<x>> \in Seq(S) /\ Len(<<x>>) = 1 /\ <<x>>[1] = x
  OBVIOUS

LEMMA Prefixed ==
  ASSUME NEW S, NEW x \in S, NEW s \in Seq(S), NEW m, m = <<x>> \o s
  PROVE  /\ m \in Seq(S) /\ m # <<>> /\ Head(m) = x /\ Tail(m) = s
         /\ \A i \in DOMAIN m : \/ i = 1 /\ m[i] = x
                                \/ i # 1 /\ i - 1 \in DOMAIN s /\ m[i] = s[i - 1]
  <1>1. <<x>> \in Seq(S) /\ Len(<<x>>) = 1 /\ <<x>>[1] = x
    BY OneOf
  <1>2. /\ m \in Seq(S) /\ Len(m) = 1 + Len(s)
        /\ \A i \in 1 .. 1 + Len(s) : m[i] = IF i <= 1 THEN <<x>>[i] ELSE s[i - 1]
    BY <1>1, ConcatProperties
  <1>3. Len(s) \in Nat /\ DOMAIN s = 1 .. Len(s) /\ DOMAIN m = 1 .. 1 + Len(s)
    BY <1>2, LenProperties
  <1>4. ASSUME NEW i \in 1 .. 1 + Len(s), i # 1
        PROVE  i - 1 \in 1 .. Len(s) /\ ~ (i <= 1)
    <2> DEFINE L == Len(s)
    <2>1. L \in Nat /\ i \in 1 .. 1 + L
      BY <1>3
    <2> HIDE DEF L
    <2>2. i - 1 \in 1 .. L /\ ~ (i <= 1)
      BY <1>4, <2>1, SMT
    <2> QED BY <2>2 DEF L
  <1>5. m[1] = x /\ m # <<>>
    BY <1>1, <1>2, <1>3, SMT
  <1>6. \A i \in DOMAIN m : \/ i = 1 /\ m[i] = x
                            \/ i # 1 /\ i - 1 \in DOMAIN s /\ m[i] = s[i - 1]
    <2>1. ASSUME NEW i \in DOMAIN m, i # 1
          PROVE  i - 1 \in DOMAIN s /\ m[i] = s[i - 1]
      <3>1. i \in 1 .. 1 + Len(s)
        BY <1>3
      <3>2. i - 1 \in 1 .. Len(s) /\ ~ (i <= 1)
        BY <1>4, <2>1, <3>1
      <3> QED BY <1>2, <1>3, <3>1, <3>2
    <2> TAKE i \in DOMAIN m
    <2>2. CASE i = 1
      BY <1>5, <2>2
    <2>3. CASE i # 1
      BY <2>1, <2>3
    <2> QED BY <2>2, <2>3
  <1>7. Head(m) = x
    BY <1>2, <1>5, NonEmpty
  <1>8. Tail(m) = s
    <2>1. Tail(m) \in Seq(S) /\ Len(Tail(m)) = Len(s) /\ \A i \in 1 .. Len(s) : Tail(m)[i] = m[i + 1]
      BY <1>2, <1>3, <1>5, HeadTailProperties, SMT
    <2>2. \A i \in 1 .. Len(s) : i + 1 \in 1 .. 1 + Len(s) /\ ~ (i + 1 <= 1) /\ (i + 1) - 1 = i
      BY <1>3, SMT
    <2>3. \A i \in 1 .. Len(s) : Tail(m)[i] = s[i]
      BY <1>2, <2>1, <2>2
    <2> QED BY <2>1, <2>3, SeqEqual
  <1> QED BY <1>2, <1>5, <1>6, <1>7, <1>8

LEMMA ThreeOf ==
  ASSUME NEW S, NEW x \in S, NEW y \in S, NEW z \in S
  PROVE  <<x>> \o <<y, z>> = <<x, y, z>>
  <1> DEFINE m == <<x>> \o <<y, z>>
             t == <<x, y, z>>
  <1>1. /\ <<x>> \in Seq(S) /\ Len(<<x>>) = 1 /\ <<x>>[1] = x
        /\ <<y, z>> \in Seq(S) /\ Len(<<y, z>>) = 2 /\ <<y, z>>[1] = y /\ <<y, z>>[2] = z
        /\ t \in Seq(S) /\ Len(t) = 3 /\ t[1] = x /\ t[2] = y /\ t[3] = z
    OBVIOUS
  <1>2. /\ m \in Seq(S) /\ Len(m) = 1 + 2
        /\ \A i \in 1 .. 1 + 2 : m[i] = IF i <= 1 THEN <<x>>[i] ELSE <<y, z>>[i - 1]
    BY <1>1, ConcatProperties
  <1> HIDE DEF m, t
  <1>3. Len(m) = 3 /\ m[1] = x /\ m[2] = y /\ m[3] = z
    BY <1>1, <1>2, SMT
  <1>4. \A i \in 1 .. Len(m) : m[i] = t[i]
    BY <1>1, <1>3, SMT
  <1>5. m = t
    BY <1>1, <1>2, <1>3, <1>4, SeqEqual
  <1> QED BY <1>5 DEF m, t

LEMMA TodoFacts ==
  ASSUME LineOK, TodoOK, todo # <<>>
  PROVE  /\ Head(todo) \in 0 .. 255 /\ Head(todo) # Reset /\ Tail(todo) \in Seq(0 .. 255)
         /\ todo = <<Head(todo)>> \o Tail(todo)
         /\ \A i \in DOMAIN Tail(todo) : Tail(todo)[i] # Reset /\ Tail(todo)[i] # ActiveSensing
         /\ Tail(todo) # <<>> => Head(Tail(todo)) # ActiveSensing
         /\ Len(Tail(todo)) <= 3
  <1>1. todo \in Seq(0 .. 255)
    BY DEF LineOK
  <1>2. /\ Head(todo) \in 0 .. 255 /\ Tail(todo) \in Seq(0 .. 255)
        /\ todo = <<Head(todo)>> \o Tail(todo)
        /\ Head(todo) = todo[1] /\ 1 \in DOMAIN todo
        /\ Len(todo) \in Nat /\ Len(Tail(todo)) = Len(todo) - 1
        /\ \A i \in DOMAIN Tail(todo) :
             i + 1 \in DOMAIN todo /\ i + 1 # 1 /\ Tail(todo)[i] = todo[i + 1]
        /\ Tail(todo) # <<>> => 1 \in DOMAIN Tail(todo) /\ Head(Tail(todo)) = Tail(todo)[1]
    BY <1>1, NonEmpty
  <1>3. \A i \in DOMAIN todo : todo[i] # Reset /\ (i # 1 => todo[i] # ActiveSensing)
    BY DEF TodoOK
  <1>4. \A i \in DOMAIN Tail(todo) : Tail(todo)[i] # Reset /\ Tail(todo)[i] # ActiveSensing
    BY <1>2, <1>3
  <1>5. Len(Tail(todo)) <= 3
    <2>1. Coming = Tail(todo) \/ Coming = todo
      BY DEF Coming
    <2>2. Len(Coming) <= 3
      BY DEF TodoOK
    <2>3. Len(Tail(todo)) <= 3 \/ Len(todo) <= 3
      BY <2>1, <2>2
    <2> HIDE DEF TodoOK
    <2> QED BY <1>2, <2>3, SMT
  <1> QED BY <1>2, <1>3, <1>4, <1>5

\* A byte that is handed over goes from what is coming to the mailbox.
LEMMA PostedUnread ==
  ASSUME LineOK, TodoOK, todo # <<>>, at # 0, Posted(rx, rx', Head(todo)),
         rx'.handed # <<>> => Coming' = Tail(todo),
         rx'.handed = <<>> => Coming' = Coming
  PROVE  Unread' = Unread
  <1> DEFINE b == Head(todo)
  <1>1. b # Reset /\ todo = <<b>> \o Tail(todo) /\ Tail(todo) \in Seq(0 .. 255)
    BY TodoFacts
  <1>2. CASE rx'.handed = rx.handed /\ rx'.newByte = rx.newByte /\ rx'.midiByte = rx.midiByte
    <2>1. Boxed' = Boxed
      BY <1>2 DEF Boxed
    <2>2. Coming' = Coming
      BY <1>2 DEF Coming, Sent
    <2> QED BY <2>1, <2>2 DEF Unread
  <1>3. CASE /\ rx.handed = <<>> /\ rx'.handed = <<b>>
             /\ ~ rx.newByte /\ rx'.newByte /\ rx'.midiByte = b
    <2>1. Boxed = <<>> /\ Coming' = Tail(todo)
      BY <1>3 DEF Boxed
    <2>2. CASE b = ActiveSensing
      <3>1. Coming = Tail(todo)
        BY <2>2 DEF Coming
      <3>2. Boxed' = <<>>
        BY <1>3, <2>2 DEF Boxed, IsSilent
      <3> QED BY <2>1, <3>1, <3>2 DEF Unread
    <2>3. CASE b # ActiveSensing
      <3>1. Coming = todo
        BY <1>3, <2>3 DEF Coming, Sent
      <3>2. Boxed' = <<b>>
        BY <1>1, <1>3, <2>3 DEF Boxed, IsSilent
      <3>3. <<>> \o todo = todo
        BY ConcatEmptySeq DEF LineOK
      <3> QED BY <1>1, <2>1, <3>1, <3>2, <3>3 DEF Unread
    <2> QED BY <2>2, <2>3
  <1> QED BY <1>2, <1>3 DEF Posted

LEMMA ComingShort ==
  ASSUME LineOK, TodoOK, todo # <<>>, Coming' = Tail(todo) \/ Coming' = Coming,
         todo' = todo \/ todo' = Tail(todo)
  PROVE  TodoOK'
  <1>1. Len(Coming') <= 3
    BY TodoFacts DEF TodoOK
  <1>2. \A i \in DOMAIN todo' : todo'[i] # Reset /\ (i # 1 => todo'[i] # ActiveSensing)
    BY TodoFacts DEF TodoOK
  <1> QED BY <1>1, <1>2 DEF TodoOK

LEMMA ComingAfterFrame ==
  ASSUME LineOK, TodoOK, todo # <<>>, todo' = Tail(todo), at' = 0
  PROVE  Coming' = Tail(todo)
  BY TodoFacts DEF Coming, Sent

\* A bit of the sender: a byte may go to the mailbox, and the frame is the
\* next when its stop bit ends.
LEMMA SendBitKeeps ==
  ASSUME LineOK, TodoOK, SendBit
  PROVE  LineOK' /\ TodoOK' /\ Unread' = Unread
         /\ (at = 9 /\ at' = 0 => rx'.handed = <<Head(todo)>>) /\ (at = 0 => at' # 0)
  <1> DEFINE b == Head(todo)
  <1>1. /\ todo # <<>> /\ (rx.newByte => at \notin Late .. 7)
        /\ at' = (at + 1) % 10 /\ todo' = IF at = 9 THEN Tail(todo) ELSE todo
    BY DEF SendBit
  <1>2. b \in 0 .. 255 /\ todo \in Seq(0 .. 255) /\ Tail(todo) \in Seq(0 .. 255) /\ at \in 0 .. 9
    BY <1>1, TodoFacts DEF LineOK
  <1>3. PICK n \in IF FrameBit(b, at) = rx.currentState THEN {4} ELSE Samples :
          rx' = USI(IF at = 0 THEN [rx EXCEPT !.handed = <<>>] ELSE rx, FrameBit(b, at), n)
    BY DEF SendBit
  <1> HIDE DEF b
  <1>4. CASE at = 0
    <2> DEFINE r == [rx EXCEPT !.handed = <<>>]
    <2>1. Resting(rx)
      BY <1>4 DEF LineOK
    <2>2. Resting(r) /\ r.handed = <<>> /\ r.currentState = rx.currentState
          /\ r.newByte = rx.newByte /\ r.midiByte = rx.midiByte
      BY <2>1, RestFacts DEF Resting, Receiver
    <2>3. n \in (IF FrameBit(b, 0) = r.currentState THEN {4} ELSE Samples)
      BY <1>3, <1>4, <2>2
    <2>4. rx' = USI(r, FrameBit(b, 0), n)
      BY <1>3, <1>4
    <2> HIDE DEF r
    <2>5. At(rx', b, 1) /\ Posted(r, rx', b)
      BY <1>2, <2>2, <2>3, <2>4, FirstBit
    <2>6. at' = 1 /\ at' # 0 /\ at' \in 0 .. 9 /\ todo' = todo /\ at # 9
      BY <1>1, <1>4, SMT
    <2>7. rx'.handed = <<>>
      <3>1. 1 \in 1 .. 9 /\ 1 # 9
        BY SMT
      <3> QED BY <1>2, <2>5, <3>1, AtFacts
    <2>8. rx'.newByte = rx.newByte /\ rx'.midiByte = rx.midiByte
      <3>1. <<b>> # <<>>
        OBVIOUS
      <3> QED BY <2>2, <2>5, <2>7, <3>1 DEF Posted
    <2>9. Coming' = Coming
      BY <1>4, <2>6, <2>7 DEF Coming, Sent
    <2>10. Unread' = Unread
      BY <2>8, <2>9 DEF Unread, Boxed
    <2>11. LineOK'
      BY <1>1, <1>2, <2>5, <2>6 DEF LineOK, b
    <2> QED BY <1>1, <2>6, <2>9, <2>10, <2>11, ComingShort
  <1>5. CASE at # 0
    <2>1. At(rx, b, at) /\ at \in 1 .. 9
      BY <1>2, <1>5, SMT DEF LineOK, b
    <2>2. at \in {7, 8} => ~ rx.newByte
      <3>1. at = 7 => at \in Late .. 7
        BY TimingAssumption, SMT
      <3> QED BY <1>1, <2>1, <3>1 DEF At
    <2>3. rx' = USI(rx, FrameBit(b, at), n)
      BY <1>3, <1>5
    <2>4. At(rx', b, at + 1) /\ Posted(rx, rx', b)
      BY <1>2, <1>3, <2>1, <2>2, <2>3, NextBit
    <2>5. CASE at = 9
      <3>1. at' = 0 /\ todo' = Tail(todo) /\ at + 1 = 10
        BY <1>1, <2>5, SMT
      <3>2. Resting(rx') /\ rx'.handed = <<b>> /\ <<b>> # <<>>
        BY <1>2, <2>4, <3>1, EndsResting
      <3>3. Coming' = Tail(todo)
        BY <1>1, <3>1, ComingAfterFrame
      <3>4. Unread' = Unread
        BY <1>1, <1>5, <2>4, <3>2, <3>3, PostedUnread DEF b
      <3>5. LineOK'
        <4>1. 0 \in 0 .. 9
          BY SMT
        <4> QED BY <1>2, <3>1, <3>2, <4>1 DEF LineOK
      <3> QED BY <1>1, <2>5, <3>1, <3>2, <3>3, <3>4, <3>5, ComingShort DEF b
    <2>6. CASE at # 9
      <3>1. at' = at + 1 /\ at' # 0 /\ at' \in 0 .. 9 /\ todo' = todo
        BY <1>1, <2>1, <2>6, SMT
      <3>2. /\ rx'.handed # <<>> => Coming' = Tail(todo)
            /\ rx'.handed = <<>> => Coming' = Coming
        <4>1. rx'.handed = <<>> => rx.handed = <<>>
          <5>1. <<b>> # <<>>
            OBVIOUS
          <5> QED BY <2>4, <5>1 DEF Posted
        <4> QED BY <1>1, <3>1, <4>1 DEF Coming, Sent
      <3>3. Unread' = Unread
        BY <1>1, <1>5, <2>4, <3>2, PostedUnread DEF b
      <3>4. LineOK'
        BY <1>1, <1>2, <2>4, <3>1 DEF LineOK, b
      <3> QED BY <1>1, <1>5, <2>6, <3>1, <3>2, <3>3, <3>4, ComingShort
    <2> QED BY <2>5, <2>6
  <1> QED BY <1>4, <1>5

LEMMA IdleKeeps ==
  ASSUME LineOK, TodoOK, Idle
  PROVE  LineOK' /\ TodoOK' /\ Unread' = Unread /\ rx'.handed = rx.handed
  <1>1. at = 0 /\ rx' = Sampled(rx, 1) /\ UNCHANGED <<todo, at, status>>
    BY DEF Idle, line
  <1>2. Resting(rx') /\ SameBox(rx, rx')
    <2>1. Resting(rx)
      BY <1>1 DEF LineOK
    <2> QED BY <1>1, <2>1, IdleSample
  <1>3. LineOK'
    BY <1>1, <1>2 DEF LineOK
  <1>4. Coming' = Coming /\ Boxed' = Boxed
    BY <1>1, <1>2 DEF Coming, Sent, Boxed, SameBox
  <1> QED BY <1>1, <1>2, <1>3, <1>4 DEF Unread, TodoOK, SameBox

LEMMA ReceiverTyped ==
  ASSUME LineOK, TodoOK
  PROVE  /\ rx \in Receiver /\ rx.midiByte \in Byte /\ rx.newByte \in BOOLEAN
         /\ Boxed \in Seq(Byte) /\ Len(Boxed) <= 1
         /\ Coming \in Seq(Byte) /\ Len(Coming) <= 3
  <1>1. rx \in Receiver
    <2>1. CASE at = 0
      BY <2>1 DEF LineOK, Resting
    <2>2. CASE at # 0
      <3>1. at \in 1 .. 9
        BY <2>2, SMT DEF LineOK
      <3>2. Head(todo) \in 0 .. 255 /\ At(rx, Head(todo), at)
        BY <2>2, TodoFacts DEF LineOK
      <3> QED BY <3>1, <3>2, AtFacts
    <2> QED BY <2>1, <2>2
  <1>2. rx.midiByte \in Byte /\ rx.newByte \in BOOLEAN
    BY <1>1 DEF Receiver, Byte
  <1>3. Boxed \in Seq(Byte) /\ Len(Boxed) <= 1
    <2>1. Boxed = <<>> \/ Boxed = <<rx.midiByte>>
      BY DEF Boxed
    <2>2. <<rx.midiByte>> \in Seq(Byte) /\ Len(<<rx.midiByte>>) = 1
      BY <1>2, OneOf
    <2>3. <<>> \in Seq(Byte) /\ Len(<<>>) = 0
      BY EmptySeq
    <2>4. 0 <= 1 /\ 1 <= 1
      BY SMT
    <2> QED BY <2>1, <2>2, <2>3, <2>4
  <1>4. Coming \in Seq(Byte) /\ Len(Coming) <= 3
    BY TodoFacts DEF Coming, TodoOK, LineOK, Byte
  <1> QED BY <1>1, <1>2, <1>3, <1>4

\* Active sensing is passed over wherever it comes.
LEMMA SenseKeeps ==
  ASSUME LineOK, TodoOK, Sense
  PROVE  LineOK' /\ TodoOK' /\ Unread' = Unread
  <1>1. /\ at = 0 /\ (todo # <<>> => Head(todo) # ActiveSensing)
        /\ todo' = <<ActiveSensing>> \o todo /\ UNCHANGED <<rx, at>>
    BY DEF Sense
  <1>2. todo \in Seq(0 .. 255)
    BY DEF LineOK
  <1>3. /\ ActiveSensing \in 0 .. 255 /\ ActiveSensing # Reset
    BY SMT DEF ActiveSensing, Reset
  <1> DEFINE m == <<ActiveSensing>> \o todo
  <1>4. /\ m \in Seq(0 .. 255) /\ m # <<>> /\ Head(m) = ActiveSensing /\ Tail(m) = todo
        /\ \A i \in DOMAIN m : \/ i = 1 /\ m[i] = ActiveSensing
                               \/ i # 1 /\ i - 1 \in DOMAIN todo /\ m[i] = todo[i - 1]
    <2>1. m = <<ActiveSensing>> \o todo
      OBVIOUS
    <2>2. todo \in Seq(Byte) /\ ActiveSensing \in Byte
      BY <1>2, <1>3 DEF Byte
    <2> HIDE DEF m
    <2>3. /\ m \in Seq(Byte) /\ m # <<>> /\ Head(m) = ActiveSensing /\ Tail(m) = todo
          /\ \A i \in DOMAIN m : \/ i = 1 /\ m[i] = ActiveSensing
                                 \/ i # 1 /\ i - 1 \in DOMAIN todo /\ m[i] = todo[i - 1]
      BY <2>1, <2>2, Prefixed
    <2> QED BY <2>3 DEF Byte
  <1> HIDE DEF m
  <1>5. Coming = todo /\ Coming' = todo
    <2>1. todo' = m /\ at' = 0
      BY <1>1 DEF m
    <2> QED BY <1>1, <1>4, <2>1 DEF Coming, Sent
  <1>6. TodoOK'
    <2>1. \A i \in DOMAIN todo : todo[i] # Reset /\ todo[i] # ActiveSensing
      <3>1. todo # <<>> => todo[1] = Head(todo)
        BY <1>2, NonEmpty
      <3>2. \A i \in DOMAIN todo : todo # <<>>
        BY <1>2, SMT
      <3> QED BY <1>1, <3>1, <3>2 DEF TodoOK
    <2>2. \A i \in DOMAIN m : m[i] # Reset /\ (i # 1 => m[i] # ActiveSensing)
      BY <1>3, <1>4, <2>1
    <2>3. Len(Coming') <= 3
      BY <1>5 DEF TodoOK
    <2>4. todo' = m
      BY <1>1 DEF m
    <2> QED BY <2>2, <2>3, <2>4 DEF TodoOK
  <1>7. LineOK'
    <2>1. todo' \in Seq(0 .. 255)
      BY <1>1, <1>4 DEF m
    <2> QED BY <1>1, <2>1 DEF LineOK
  <1> QED BY <1>1, <1>5, <1>6, <1>7 DEF Unread, Boxed

\* The main program takes the byte that is in the mailbox.
LEMMA TakenKeeps ==
  ASSUME LineOK, TodoOK, NEW b, Gets(b), UNCHANGED line
  PROVE  /\ LineOK' /\ TodoOK' /\ b \in Byte /\ rx'.handed = rx.handed
         /\ IsSilent(b) => Unread' = Unread
         /\ ~ IsSilent(b) => Boxed = <<b>> /\ Unread = <<b>> \o Coming /\ Unread' = Coming
  <1>1. /\ rx.newByte /\ rx.midiByte = b /\ rx' = [rx EXCEPT !.newByte = FALSE]
        /\ todo' = todo /\ at' = at
    BY DEF Gets, line
  <1>2. rx \in Receiver /\ b \in Byte /\ Coming \in Seq(Byte)
    BY <1>1, ReceiverTyped
  <1>3. rx'.newByte = FALSE /\ rx'.handed = rx.handed
    BY <1>1, <1>2 DEF Receiver
  <1>4. LineOK'
    <2>1. at = 0 => Resting(rx')
      BY <1>1, RestFacts DEF LineOK
    <2>2. at # 0 => todo # <<>> /\ At(rx', Head(todo), at)
      <3>1. ASSUME at # 0
            PROVE  At([rx EXCEPT !.newByte = FALSE], Head(todo), at)
        <4>1. at \in 1 .. 9
          BY <3>1, SMT DEF LineOK
        <4>2. Head(todo) \in 0 .. 255 /\ At(rx, Head(todo), at)
          BY <3>1, TodoFacts DEF LineOK
        <4> QED BY <4>1, <4>2, AtFacts
      <3> QED BY <1>1, <3>1 DEF LineOK
    <2> QED BY <1>1, <2>1, <2>2 DEF LineOK
  <1>5. Coming' = Coming /\ Boxed' = <<>>
    BY <1>1, <1>3 DEF Coming, Sent, Boxed
  <1>6. TodoOK'
    BY <1>1, <1>5 DEF TodoOK
  <1>7. <<>> \o Coming = Coming
    BY <1>2, ConcatEmptySeq
  <1>8. Unread' = Coming
    BY <1>5, <1>7 DEF Unread
  <1>9. IsSilent(b) => Unread = Coming
    BY <1>1, <1>7 DEF Unread, Boxed
  <1>10. ~ IsSilent(b) => Boxed = <<b>> /\ Unread = <<b>> \o Coming
    BY <1>1 DEF Unread, Boxed
  <1> QED BY <1>2, <1>3, <1>4, <1>6, <1>8, <1>9, <1>10

LEMMA MessageIs ==
  ASSUME NEW first, NEW data, Message(first, data)
  PROVE  todo' = <<first>> \o data \/ (status = first /\ todo' = data)
  BY DEF Message

\* The sender has a new message, when it has sent all of the one before.
LEMMA MessageKeeps ==
  ASSUME LineOK, TodoOK, NEW first \in {NoteOn, NoteOff, Control, OtherChannel},
         NEW a \in Data, NEW v \in Data, Message(first, <<a, v>>)
  PROVE  /\ LineOK' /\ TodoOK' /\ rx' = rx /\ at = 0 /\ at' = 0 /\ status' = first
         /\ todo' = <<first, a, v>> \/ (status = first /\ todo' = <<a, v>>)
         /\ todo' \in Seq(Byte) /\ Len(todo') <= 3
         /\ Boxed' = Boxed /\ Unread = Boxed /\ Unread' = Boxed \o todo'
  <1>1. todo = <<>> /\ status' = first /\ UNCHANGED <<rx, at>>
    BY DEF Message
  <1>2. first \in Byte /\ a \in Byte /\ v \in Byte
    BY SMT DEF NoteOn, NoteOff, Control, OtherChannel, Byte, Data
  <1>3. todo' = <<first, a, v>> \/ (status = first /\ todo' = <<a, v>>)
    <2>1. <<first>> \o <<a, v>> = <<first, a, v>>
      BY <1>2, ThreeOf
    <2>2. todo' = <<first>> \o <<a, v>> \/ (status = first /\ todo' = <<a, v>>)
      BY MessageIs
    <2> QED BY <2>1, <2>2
  <1>4. /\ first # ActiveSensing /\ a # ActiveSensing /\ v # ActiveSensing
        /\ first # Reset /\ a # Reset /\ v # Reset
    BY SMT DEF NoteOn, NoteOff, Control, OtherChannel, ActiveSensing, Reset, Data
  <1>5. /\ todo' \in Seq(Byte) /\ Len(todo') <= 3 /\ todo' # <<>>
        /\ Head(todo') \in {first, a, v} /\ \A i \in DOMAIN todo' : todo'[i] \in {first, a, v}
    <2>1. CASE todo' = <<first, a, v>>
      BY <1>2, <2>1
    <2>2. CASE todo' = <<a, v>>
      BY <1>2, <2>2
    <2> QED BY <1>3, <2>1, <2>2
  <1>6. at = 0
    BY <1>1 DEF LineOK
  <1>7. Coming = <<>> /\ Coming' = todo'
    BY <1>1, <1>4, <1>5, <1>6 DEF Coming, Sent
  <1>8. LineOK'
    BY <1>1, <1>5, <1>6 DEF LineOK, Byte
  <1>9. TodoOK'
    BY <1>4, <1>5, <1>7 DEF TodoOK
  <1>10. Boxed' = Boxed /\ Boxed \o <<>> = Boxed
    <2>1. Boxed \in Seq(Byte)
      BY ReceiverTyped
    <2> QED BY <1>1, <2>1, ConcatEmptySeq DEF Boxed
  <1> QED BY <1>1, <1>3, <1>5, <1>6, <1>7, <1>8, <1>9, <1>10 DEF Unread

------------------------------------------------------------------------------
\* What the main program is about to know stays the same, or grows by a message.
LEMMA StaysMirrored ==
  ASSUME NEW t, t = Replay(Now, Unread), Reflects(t), t = Replay(Now', Unread'),
         UNCHANGED <<status, player>>
  PROVE  Reflects(Replay(Now, Unread))'
  <1>1. status' = status /\ releases' = releases /\ pressed' = pressed /\ crowded' = crowded
    BY DEF player
  <1> QED BY <1>1 DEF Reflects, Mirrors, ReflectsOn, ReflectsOff

LEMMA BecomesMirrored ==
  ASSUME NEW t, t = Replay(Now', Unread'), t.pc = Home(status'),
         Mirrors(t, pressed', crowded'), releases' = releases
  PROVE  Reflects(Replay(Now, Unread))'
  BY DEF Reflects, Mirrors, ReflectsOn, ReflectsOff

LEMMA PlayerStays ==
  ASSUME PlayerOK, UNCHANGED <<status, player>>
  PROVE  PlayerOK'
  BY DEF PlayerOK, player

LEMMA SynthStays ==
  ASSUME UNCHANGED synth
  PROVE  Now' = Now
  BY DEF Now, synth

LEMMA SaneStays ==
  ASSUME Sane(Now')
  PROVE  SynthOK'
  BY DEF SynthOK, Sane, Synth, Index, Array, Data, Slot, Byte, Handlers

\* A byte that is taken has been replayed before.
LEMMA FirstReplayed ==
  ASSUME NEW s, NEW b \in Byte, NEW m \in Seq(Byte), Len(m) <= 3
  PROVE  Replay(s, <<b>> \o m) = Replay(Take(s, b), m)
  <1> DEFINE u == <<b>>
  <1>1. u \in Seq(Byte) /\ Len(u) = 1 /\ u[1] = b
    BY OneOf
  <1> HIDE DEF u
  <1>2. Replay(s, u) = Take(s, b)
    BY <1>1, SMT DEF Replay
  <1>3. Len(u) <= 1
    BY <1>1, SMT
  <1>4. Replay(s, u \o m) = Replay(Replay(s, u), m)
    BY <1>1, <1>3, ReplayAppend
  <1> QED BY <1>2, <1>4 DEF u

LEMMA SilentIsNotData ==
  ASSUME NEW b \in 0 .. 127
  PROVE  b \in Data /\ ~ IsSilent(b)
  BY SMT DEF Data, IsSilent, ActiveSensing, Reset

LEMMA ByteKept ==
  ASSUME IInv, NEW b, Gets(b), ~ IsSilent(b), Now' = Take(Now, b),
         UNCHANGED <<line, player>>
  PROVE  IInv'
  <1>1. LineOK /\ TodoOK /\ PlayerOK /\ SynthOK /\ Reflects(Replay(Now, Unread))
    BY DEF IInv
  <1>2. /\ LineOK' /\ TodoOK' /\ b \in Byte
        /\ Unread = <<b>> \o Coming /\ Unread' = Coming
    BY <1>1, TakenKeeps
  <1>3. Coming \in Seq(Byte) /\ Len(Coming) <= 3
    BY <1>1, ReceiverTyped
  <1>4. Replay(Now, Unread) = Replay(Now', Unread')
    BY <1>2, <1>3, FirstReplayed
  <1>5. UNCHANGED <<status, player>>
    BY DEF line
  <1>6. Reflects(Replay(Now, Unread))'
    BY <1>1, <1>4, <1>5, StaysMirrored
  <1>7. SynthOK'
    <2>1. Sane(Take(Now, b))
      BY <1>1, <1>2, TakeSane DEF SynthOK
    <2> QED BY <2>1, SaneStays
  <1>8. PlayerOK'
    BY <1>1, <1>5, PlayerStays
  <1> QED BY <1>2, <1>6, <1>7, <1>8 DEF IInv

LEMMA MainKeeps ==
  ASSUME IInv, Main
  PROVE  IInv' /\ rx'.handed = rx.handed
  <1>1. LineOK /\ TodoOK /\ PlayerOK /\ SynthOK /\ Reflects(Replay(Now, Unread))
    BY DEF IInv
  <1>2. CASE PassOver
    <2>1. PICK b \in {ActiveSensing, Reset} : Gets(b)
      BY <1>2 DEF PassOver
    <2>2. UNCHANGED <<synth, line, player>> /\ IsSilent(b)
      BY <1>2 DEF PassOver, IsSilent
    <2>3. LineOK' /\ TodoOK' /\ rx'.handed = rx.handed /\ Unread' = Unread
      BY <1>1, <2>1, <2>2, TakenKeeps
    <2>4. Now' = Now /\ UNCHANGED <<status, player>>
      BY <2>2, SynthStays DEF line
    <2>5. Reflects(Replay(Now, Unread))'
      BY <1>1, <2>3, <2>4, StaysMirrored
    <2>6. SynthOK'
      BY <1>1, <2>4, SaneStays DEF SynthOK
    <2> QED BY <1>1, <2>3, <2>4, <2>5, <2>6, PlayerStays DEF IInv
  <1>3. CASE Opcode
    <2>1. PICK b \in 0 .. 255 : Gets(b) /\ ~ IsSilent(b)
      BY <1>3 DEF Opcode
    <2>2. b \in Byte /\ UNCHANGED <<line, player>>
      BY <1>3 DEF Opcode, Byte
    <2>3. Now' = Take(Now, b)
      BY <1>1, <1>3, <2>1, <2>2, OpcodeTakes
    <2> QED BY <1>1, <2>1, <2>2, <2>3, ByteKept, TakenKeeps
  <1>4. CASE noteOn \/ noteOff \/ controlChange
    <2>1. PICK b \in 0 .. 127 : Gets(b)
      BY <1>4 DEF noteOn, noteOff, controlChange
    <2>2. UNCHANGED <<line, player>>
      BY <1>4 DEF noteOn, noteOff, controlChange
    <2>3. b \in Data /\ ~ IsSilent(b)
      BY SilentIsNotData
    <2>4. Now' = Take(Now, b)
      BY <1>1, <1>4, <2>1, <2>3, HandlersTake
    <2> QED BY <1>1, <2>1, <2>2, <2>3, <2>4, ByteKept, TakenKeeps
  <1>5. CASE GiveBack
    <2> DEFINE b == rx.midiByte
    <2>1. /\ rx.newByte /\ ~ IsSilent(b) /\ rx' = rx /\ todo' = todo /\ at' = at
          /\ UNCHANGED <<status, player>> /\ pc' = "opcode"
          /\ newNote' = IF pc \in {"note_on", "note_off"} THEN b ELSE newNote
          /\ UNCHANGED <<notes, noteIndex, sounding, period>>
      BY <1>5 DEF GiveBack, line
    <2>2. LineOK' /\ TodoOK' /\ Unread' = Unread
      BY <1>1, <2>1 DEF LineOK, TodoOK, Coming, Sent, Unread, Boxed
    <2>3. b \in Byte /\ Coming \in Seq(Byte) /\ Len(Coming) <= 3 /\ Unread = <<b>> \o Coming
      BY <1>1, <2>1, ReceiverTyped DEF Unread, Boxed
    <2>4. Take(Now', b) = Take(Now, b)
      BY <1>1, <1>5, GiveBackTakes
    <2> HIDE DEF b
    <2>5. Replay(Now', Unread') = Replay(Now, Unread)
      BY <2>2, <2>3, <2>4, FirstReplayed
    <2>6. Reflects(Replay(Now, Unread))'
      BY <1>1, <2>1, <2>5, StaysMirrored
    <2>7. SynthOK'
      <3>1. newNote' \in Byte
        BY <1>1, <2>1, <2>3, NowFields
      <3>2. "opcode" \in Handlers /\ "opcode" # "velocity"
        BY DEF Handlers
      <3>3. Now' = [pc |-> "opcode", newNote |-> newNote', notes |-> notes,
                    noteIndex |-> noteIndex, sounding |-> sounding, period |-> period]
        BY <2>1 DEF Now
      <3>4. Sane(Now')
        BY <1>1, <3>1, <3>2, <3>3, NowFields DEF Sane, Synth
      <3> QED BY <3>4, SaneStays
    <2> QED BY <1>1, <2>1, <2>2, <2>6, <2>7, PlayerStays DEF IInv
  <1> QED BY <1>2, <1>3, <1>4, <1>5 DEF Main

\* A message is all that the main program has not taken, but for the byte in
\* the mailbox.
LEMMA MessageReplayed ==
  ASSUME IInv, Boxed' = Boxed, Unread = Boxed, Unread' = Boxed \o todo',
         todo' \in Seq(Byte), Len(todo') <= 3, Now' = Now
  PROVE  /\ Sane(Replay(Now, Unread))
         /\ Replay(Now', Unread') = Replay(Replay(Now, Unread), todo')
  <1>1. LineOK /\ TodoOK /\ SynthOK
    BY DEF IInv
  <1>2. Boxed \in Seq(Byte) /\ Len(Boxed) <= 1 /\ Len(Boxed) \in Nat
    BY <1>1, ReceiverTyped, LenProperties
  <1>3. Len(Boxed) <= 4
    BY <1>2, SMT
  <1> QED BY <1>1, <1>2, <1>3, ReplaySane, ReplayAppend DEF SynthOK

LEMMA PressKeeps ==
  ASSUME IInv, NEW key \in Note, Press(key)
  PROVE  IInv' /\ rx' = rx
  <1>1. LineOK /\ TodoOK /\ PlayerOK /\ SynthOK /\ Reflects(Replay(Now, Unread))
    BY DEF IInv
  <1>2. /\ key \notin Range(pressed) /\ Message(NoteOn, <<key, 1>>)
        /\ pressed' = Append(pressed, key)
        /\ crowded' = (crowded \/ Len(pressed) = MAX_POLYPHONY)
        /\ releases' = releases
    BY DEF Press
  <1>3. key \in Data /\ 1 \in Data
    BY DataAssumption, SMT DEF Data
  <1>4. /\ LineOK' /\ TodoOK' /\ rx' = rx /\ status' = NoteOn
        /\ todo' = <<NoteOn, key, 1>> \/ (status = NoteOn /\ todo' = <<key, 1>>)
        /\ todo' \in Seq(Byte) /\ Len(todo') <= 3
        /\ Boxed' = Boxed /\ Unread = Boxed /\ Unread' = Boxed \o todo'
    BY <1>1, <1>2, <1>3, MessageKeeps
  <1>5. Now' = Now
    BY <1>2, SynthStays DEF Message
  <1> DEFINE s == Replay(Now, Unread)
  <1>6. Sane(s) /\ Replay(Now', Unread') = Replay(s, todo')
    BY <1>4, <1>5, MessageReplayed
  <1>7. s.pc = Home(status) /\ Mirrors(s, pressed, crowded)
    BY <1>1 DEF Reflects
  <1> HIDE DEF s
  <1>8. pressed \in Seq(Note) /\ crowded \in BOOLEAN /\ Injective(pressed)
        /\ releases \in {"by_note_on", "by_note_off"}
    BY <1>1 DEF PlayerOK, Injective
  <1>9. \A j \in DOMAIN pressed : pressed[j] # key
    BY <1>2 DEF Range
  <1> DEFINE m == todo'
  <1>10. m = <<NoteOn, key, 1>> \/ (m = <<key, 1>> /\ s.pc = Home(NoteOn))
    BY <1>4, <1>7
  <1> HIDE DEF m
  <1>11. /\ Replay(s, m).pc = Home(NoteOn)
         /\ Mirrors(Replay(s, m), Append(pressed, key), crowded \/ Len(pressed) = MAX_POLYPHONY)
    BY <1>6, <1>7, <1>8, <1>9, <1>10, PressMirrors
  <1>12. Reflects(Replay(Now, Unread))'
    BY <1>2, <1>4, <1>6, <1>11, BecomesMirrored DEF m
  <1>13. PlayerOK'
    <2> DEFINE w == Append(pressed, key)
    <2>1. /\ w \in Seq(Note) /\ Len(w) = Len(pressed) + 1 /\ Len(pressed) \in Nat
          /\ \A i \in 1 .. Len(pressed) : w[i] = pressed[i]
          /\ w[Len(pressed) + 1] = key
          /\ DOMAIN w = 1 .. Len(pressed) + 1 /\ DOMAIN pressed = 1 .. Len(pressed)
      BY <1>8, AppendProperties, LenProperties
    <2> HIDE DEF w
    <2>2. \A i \in DOMAIN w : i \in DOMAIN pressed \/ i = Len(pressed) + 1
      BY <2>1, SMT
    <2>3. \A i, j \in DOMAIN w : w[i] = w[j] => i = j
      BY <1>8, <1>9, <2>1, <2>2 DEF Injective
    <2>4. pressed' = w /\ status' = NoteOn /\ crowded' \in BOOLEAN /\ releases' = releases
      BY <1>2, <1>4, <1>8 DEF w
    <2> QED BY <1>8, <2>1, <2>3, <2>4 DEF PlayerOK
  <1>14. SynthOK'
    BY <1>1, <1>5, SaneStays DEF SynthOK
  <1> QED BY <1>4, <1>12, <1>13, <1>14 DEF IInv

LEMMA LiftKeeps ==
  ASSUME IInv, NEW i \in DOMAIN pressed, Lift(i)
  PROVE  IInv' /\ rx' = rx
  <1>1. LineOK /\ TodoOK /\ PlayerOK /\ SynthOK /\ Reflects(Replay(Now, Unread))
    BY DEF IInv
  <1> DEFINE key == pressed[i]
             w == RemoveAt(pressed, i)
  <1>2. /\ pressed' = w /\ crowded' = (crowded /\ Len(pressed) > 1)
        /\ releases' = releases
    BY DEF Lift
  <1>3. PICK first, v : /\ \/ releases = "by_note_on" /\ first = NoteOn /\ v = 0
                           \/ releases = "by_note_off" /\ first = NoteOff /\ v \in OffVelocity
                        /\ Message(first, <<key, v>>)
    BY DEF Lift
  <1>4. pressed \in Seq(Note) /\ crowded \in BOOLEAN /\ Injective(pressed)
        /\ releases \in {"by_note_on", "by_note_off"}
    BY <1>1 DEF PlayerOK, Injective
  <1>5. /\ w \in Seq(Note) /\ Len(pressed) \in Nat \ {0} /\ Len(w) = Len(pressed) - 1
        /\ i \in 1 .. Len(pressed)
        /\ \A j \in 1 .. Len(pressed) - 1 : w[j] = IF j < i THEN pressed[j] ELSE pressed[j + 1]
    BY <1>4, RemovedAt
  <1>6. key \in Data /\ v \in Data
    <2>1. key \in Note
      BY <1>4, <1>5, ElementOfSeq
    <2>2. 0 \in Data
      BY SMT DEF Data
    <2> QED BY <1>3, <2>1, <2>2, DataAssumption DEF Data
  <1>7. first \in {NoteOn, NoteOff, Control, OtherChannel}
    BY <1>3
  <1> DEFINE m == todo'
             s == Replay(Now, Unread)
  <1>8. key = pressed[i] /\ w = RemoveAt(pressed, i)
    OBVIOUS
  <1> HIDE DEF key, w
  <1>9. /\ LineOK' /\ TodoOK' /\ rx' = rx /\ status' = first
        /\ todo' = <<first, key, v>> \/ (status = first /\ todo' = <<key, v>>)
        /\ todo' \in Seq(Byte) /\ Len(todo') <= 3
        /\ Boxed' = Boxed /\ Unread = Boxed /\ Unread' = Boxed \o todo'
    BY <1>1, <1>3, <1>6, <1>7, MessageKeeps
  <1>10. Now' = Now
    BY <1>3, SynthStays DEF Message
  <1>11. Sane(s) /\ Replay(Now', Unread') = Replay(s, todo')
    BY <1>9, <1>10, MessageReplayed
  <1>12. s.pc = Home(status) /\ Mirrors(s, pressed, crowded)
    BY <1>1 DEF Reflects
  <1> HIDE DEF s
  <1>13. m = <<first, key, v>> \/ (m = <<key, v>> /\ s.pc = Home(first))
    BY <1>9, <1>12
  <1> HIDE DEF m
  <1>14. /\ Replay(s, m).pc = Home(first)
         /\ Mirrors(Replay(s, m), RemoveAt(pressed, i), crowded /\ Len(pressed) > 1)
    BY <1>3, <1>4, <1>8, <1>11, <1>12, <1>13, LiftMirrors
  <1>15. Reflects(Replay(Now, Unread))'
    BY <1>2, <1>8, <1>9, <1>11, <1>14, BecomesMirrored DEF m
  <1>16. PlayerOK'
    <2> DEFINE L == Len(pressed)
    <2>1. L \in Nat \ {0} /\ i \in 1 .. L /\ Len(w) = L - 1
          /\ DOMAIN pressed = 1 .. L /\ DOMAIN w = 1 .. L - 1
          /\ \A j \in 1 .. L - 1 : w[j] = IF j < i THEN pressed[j] ELSE pressed[j + 1]
      BY <1>4, <1>5, LenProperties
    <2>2. \A a, b \in 1 .. L : pressed[a] = pressed[b] => a = b
      BY <1>4, <2>1 DEF Injective
    <2> HIDE DEF L
    <2>3. ASSUME NEW a \in DOMAIN w, NEW b \in DOMAIN w, w[a] = w[b]
          PROVE  a = b
      <3> DEFINE x == IF a < i THEN a ELSE a + 1
                 y == IF b < i THEN b ELSE b + 1
      <3>1. a \in 1 .. L - 1 /\ b \in 1 .. L - 1
        BY <2>1, <2>3
      <3>2. x \in 1 .. L /\ y \in 1 .. L /\ (x = y => a = b)
        <4>1. L \in Nat \ {0} /\ i \in 1 .. L
          BY <2>1
        <4> QED BY <3>1, <4>1, SMT
      <3>3. w[a] = pressed[x] /\ w[b] = pressed[y]
        BY <2>1, <3>1
      <3> QED BY <2>2, <2>3, <3>2, <3>3
    <2>4. status' \in {0, NoteOn, NoteOff, Control, OtherChannel} /\ crowded' \in BOOLEAN
      BY <1>2, <1>4, <1>7, <1>9
    <2> QED BY <1>2, <1>4, <1>5, <2>3, <2>4 DEF PlayerOK
  <1>17. SynthOK'
    BY <1>1, <1>10, SaneStays DEF SynthOK
  <1> QED BY <1>9, <1>15, <1>16, <1>17 DEF IInv

LEMMA OtherMessageKeeps ==
  ASSUME IInv, OtherMessage
  PROVE  IInv' /\ rx' = rx
  <1>1. LineOK /\ TodoOK /\ PlayerOK /\ SynthOK /\ Reflects(Replay(Now, Unread))
    BY DEF IInv
  <1>2. PICK first \in {Control, OtherChannel} : Message(first, <<0, 1>>)
    BY DEF OtherMessage
  <1>3. UNCHANGED player /\ 0 \in Data /\ 1 \in Data
        /\ first \in {NoteOn, NoteOff, Control, OtherChannel}
    BY SMT DEF OtherMessage, Data
  <1>4. /\ LineOK' /\ TodoOK' /\ rx' = rx /\ status' = first
        /\ todo' = <<first, 0, 1>> \/ (status = first /\ todo' = <<0, 1>>)
        /\ todo' \in Seq(Byte) /\ Len(todo') <= 3
        /\ Boxed' = Boxed /\ Unread = Boxed /\ Unread' = Boxed \o todo'
    BY <1>1, <1>2, <1>3, MessageKeeps
  <1>5. Now' = Now
    BY <1>2, SynthStays DEF Message
  <1> DEFINE m == todo'
             s == Replay(Now, Unread)
  <1>6. Sane(s) /\ Replay(Now', Unread') = Replay(s, todo')
    BY <1>4, <1>5, MessageReplayed
  <1>7. s.pc = Home(status) /\ Mirrors(s, pressed, crowded)
    BY <1>1 DEF Reflects
  <1> HIDE DEF s
  <1>8. m = <<first, 0, 1>> \/ (m = <<0, 1>> /\ s.pc = Home(first))
    BY <1>4, <1>7
  <1> HIDE DEF m
  <1>9. Replay(s, m).pc = Home(first) /\ Mirrors(Replay(s, m), pressed, crowded)
    BY <1>2, <1>6, <1>7, <1>8, OtherMirrors
  <1>10. releases' = releases /\ pressed' = pressed /\ crowded' = crowded
    BY <1>3 DEF player
  <1>11. Reflects(Replay(Now, Unread))'
    BY <1>4, <1>6, <1>9, <1>10, BecomesMirrored DEF m
  <1>12. PlayerOK'
    BY <1>1, <1>2, <1>4, <1>10 DEF PlayerOK
  <1>13. SynthOK'
    BY <1>1, <1>5, SaneStays DEF SynthOK
  <1> QED BY <1>4, <1>11, <1>12, <1>13 DEF IInv

LEMMA SenderKeeps ==
  ASSUME IInv, Sender
  PROVE  IInv'
  <1>1. LineOK /\ TodoOK /\ PlayerOK /\ SynthOK /\ Reflects(Replay(Now, Unread))
    BY DEF IInv
  <1>2. CASE \E key \in Note : Press(key)
    BY <1>2, PressKeeps
  <1>3. CASE \E i \in DOMAIN pressed : Lift(i)
    BY <1>3, LiftKeeps
  <1>4. CASE OtherMessage
    BY <1>4, OtherMessageKeeps
  <1>5. CASE Sense \/ SendBit \/ Idle
    <2>1. LineOK' /\ TodoOK' /\ Unread' = Unread
      BY <1>1, <1>5, SenseKeeps, SendBitKeeps, IdleKeeps
    <2>2. UNCHANGED <<synth, status, player>>
      BY <1>5 DEF Sense, SendBit, Idle, line
    <2>3. Now' = Now
      BY <2>2, SynthStays
    <2>4. Reflects(Replay(Now, Unread))'
      BY <1>1, <2>1, <2>2, <2>3, StaysMirrored
    <2>5. SynthOK'
      BY <1>1, <2>3, SaneStays DEF SynthOK
    <2>6. PlayerOK'
      BY <1>1, <2>2, PlayerStays
    <2> QED BY <2>1, <2>4, <2>5, <2>6 DEF IInv
  <1> QED BY <1>2, <1>3, <1>4, <1>5 DEF Sender

LEMMA StutterKeeps ==
  ASSUME IInv, UNCHANGED vars
  PROVE  IInv'
  <1>1. LineOK /\ TodoOK /\ PlayerOK /\ SynthOK /\ Reflects(Replay(Now, Unread))
    BY DEF IInv
  <1>2. UNCHANGED <<rx, synth, todo, at, status, player>>
    BY DEF vars, line
  <1>3. LineOK' /\ TodoOK' /\ Unread' = Unread
    BY <1>1, <1>2 DEF LineOK, TodoOK, Coming, Sent, Unread, Boxed
  <1>4. Now' = Now
    BY <1>2, SynthStays
  <1>5. Reflects(Replay(Now, Unread))'
    BY <1>1, <1>2, <1>3, <1>4, StaysMirrored
  <1>6. SynthOK'
    BY <1>1, <1>4, SaneStays DEF SynthOK
  <1>7. PlayerOK'
    BY <1>1, <1>2, PlayerStays
  <1> QED BY <1>3, <1>5, <1>6, <1>7 DEF IInv
------------------------------------------------------------------------------
\* The sixteen samples of the start.  The register being zero, the fourth
\* completes a byte; it is overwritten with ones when that is handed over.
LEMMA StartIsResting ==
  ASSUME NEW start, start = Four(PowerUp, 1)
  PROVE  Resting(start) /\ start.newByte = TRUE /\ start.midiByte = 128
  <1> DEFINE R(count, final) ==
               [currentState |-> 1, bitStateCount |-> count, nextBitFinal |-> final,
                rawMidiByte |-> 0, newByte |-> FALSE, midiByte |-> 0, handed |-> <<>>]
  <1>1. ASSUME NEW count \in 0 .. 2, NEW final \in BOOLEAN
        PROVE  Sampled(R(count, final), 1) = R(count + 1, TRUE)
    <2>1. count # 3 /\ 0 % 2 = 0
      BY SMT
    <2>2. Same(R(count, final)) = R(count + 1, final)
      BY <2>1 DEF Same
    <2>3. MarkFinal(R(count + 1, final)) = R(count + 1, TRUE)
      BY <2>1 DEF MarkFinal
    <2>4. Sampled(R(count, final), 1) = MarkFinal(Same(R(count, final)))
      BY DEF Sampled
    <2> QED BY <2>2, <2>3, <2>4
  <1>2. PowerUp = R(0, FALSE)
    BY DEF PowerUp
  <1>3. 128 \in 0 .. 255 /\ 8 \in 0 .. 9 /\ 8 # 7 /\ 8 + 1 = 9 /\ ~ (8 >= 9) /\ 9 >= 9 /\ 9 # 8
    BY SMT
  <1>4. FrameBit(128, 8) = 1 /\ Raw(128, 8) = 0 /\ Raw(128, 9) = 255
    BY <1>3, FrameBits, SMT DEF Raw
  <1>5. Middle(R(3, TRUE), 128, 8, 1, 3) /\ R(3, TRUE).newByte = FALSE /\ R(3, TRUE).handed = <<>>
    <2>1. <<>> \in Seq(0 .. 255)
      BY EmptySeq
    <2>2. 1 \in {0, 1} /\ 0 \in 0 .. 255 /\ 3 \in 0 .. 3
      BY SMT
    <2>3. R(3, TRUE) \in Receiver
      BY <2>1, <2>2 DEF Receiver
    <2> QED BY <1>3, <1>4, <2>3 DEF Middle, Within
  <1> HIDE DEF R
  <1>6. /\ Middle(Sampled(R(3, TRUE), 1), 128, 9, 1, 0)
        /\ Posted(R(3, TRUE), Sampled(R(3, TRUE), 1), 128)
    <2> DEFINE r == R(3, TRUE)
    <2>1. Middle(r, 128, 8, FrameBit(128, 8), 3)
      BY <1>4, <1>5
    <2> HIDE DEF r
    <2>2. /\ Middle(Sampled(r, FrameBit(128, 8)), 128, 8 + 1, FrameBit(128, 8), 0)
          /\ Posted(r, Sampled(r, FrameBit(128, 8)), 128)
      BY <1>3, <2>1, SampleCompletes
    <2> QED BY <1>3, <1>4, <2>2 DEF r
  <1>7. /\ 0 \in 0 .. 2 /\ 1 \in 0 .. 2 /\ 2 \in 0 .. 2
        /\ 0 + 1 = 1 /\ 1 + 1 = 2 /\ 2 + 1 = 3
    BY SMT
  <1>8. Sampled(PowerUp, 1) = R(1, TRUE)
    BY <1>1, <1>2, <1>7
  <1>9. Sampled(R(1, TRUE), 1) = R(2, TRUE) /\ Sampled(R(2, TRUE), 1) = R(3, TRUE)
    BY <1>1, <1>7
  <1>10. start = Sampled(R(3, TRUE), 1)
    BY <1>8, <1>9 DEF Four, Three
  <1>11. /\ start \in Receiver /\ start.currentState = 1 /\ start.rawMidiByte = 255
         /\ start.nextBitFinal = FALSE /\ start.handed = <<128>>
    BY <1>3, <1>4, <1>6, <1>10 DEF Middle, Within
  <1>12. start.newByte = TRUE /\ start.midiByte = 128
    <2>1. <<128>> # <<>> /\ start.newByte \in BOOLEAN
      BY <1>11 DEF Receiver
    <2> DEFINE r == R(3, TRUE)
    <2>2. r.handed = <<>> /\ Posted(r, start, 128)
      BY <1>5, <1>6, <1>10
    <2> HIDE DEF r
    <2>3. start.newByte /\ start.midiByte = 128
      BY <1>11, <2>1, <2>2 DEF Posted
    <2> QED BY <2>1, <2>3
  <1> QED BY <1>11, <1>12 DEF Resting

LEMMA FourIdle ==
  ASSUME NEW r, Resting(r), NEW s, s = Four(r, 1)
  PROVE  Resting(s) /\ SameBox(r, s)
  <1>1. \A t : Resting(t) => Resting(Sampled(t, 1)) /\ SameBox(t, Sampled(t, 1))
    BY IdleSample
  <1> DEFINE first == Sampled(r, 1)
             second == Sampled(first, 1)
             third == Sampled(second, 1)
             fourth == Sampled(third, 1)
  <1>2. s = fourth
    BY DEF Four, Three
  <1>3. Resting(first) /\ SameBox(r, first)
    BY <1>1
  <1>4. Resting(second) /\ SameBox(first, second)
    BY <1>1, <1>3
  <1>5. Resting(third) /\ SameBox(second, third)
    BY <1>1, <1>4
  <1>6. Resting(fourth) /\ SameBox(third, fourth)
    BY <1>1, <1>5
  <1> HIDE DEF first, second, third, fourth
  <1> QED BY <1>2, <1>3, <1>4, <1>5, <1>6 DEF SameBox

LEMMA InitSound ==
  ASSUME Init
  PROVE  IInv
  <1>1. /\ rx = Four(Four(Four(Four(PowerUp, 1), 1), 1), 1)
        /\ pc = "opcode" /\ newNote = 0 /\ notes = [i \in Slot |-> 0] /\ noteIndex = 0
        /\ sounding = FALSE /\ period = 0 /\ todo = <<>> /\ at = 0 /\ status = 0
        /\ releases \in {"by_note_on", "by_note_off"} /\ pressed = <<>> /\ crowded = FALSE
    BY DEF Init
  <1>2. Resting(rx) /\ rx.newByte = TRUE /\ rx.midiByte = 128
    <2> DEFINE a == Four(PowerUp, 1)
               b == Four(a, 1)
               c == Four(b, 1)
    <2>1. Resting(a) /\ a.newByte = TRUE /\ a.midiByte = 128
      BY StartIsResting
    <2>2. rx = Four(c, 1)
      BY <1>1
    <2> HIDE DEF a
    <2>3. Resting(b) /\ SameBox(a, b)
      BY <2>1, FourIdle
    <2> HIDE DEF b
    <2>4. Resting(c) /\ SameBox(b, c)
      BY <2>3, FourIdle
    <2> HIDE DEF c
    <2>5. Resting(rx) /\ SameBox(c, rx)
      BY <2>2, <2>4, FourIdle
    <2> QED BY <2>1, <2>3, <2>4, <2>5 DEF SameBox
  <1>3. LineOK
    <2>1. <<>> \in Seq(0 .. 255) /\ 0 \in 0 .. 9
      BY SMT
    <2> QED BY <1>1, <1>2, <2>1 DEF LineOK
  <1>4. Coming = <<>>
    BY <1>1 DEF Coming
  <1>5. TodoOK
    <2>1. Len(<<>>) <= 3 /\ DOMAIN <<>> = {}
      BY SMT
    <2> QED BY <1>1, <1>4, <2>1 DEF TodoOK
  <1>6. PlayerOK
    <2>1. <<>> \in Seq(Note) /\ DOMAIN <<>> = {}
      BY SMT
    <2> QED BY <1>1, <2>1 DEF PlayerOK
  <1>7. Now = [pc |-> "opcode", newNote |-> 0, notes |-> notes, noteIndex |-> 0,
               sounding |-> FALSE, period |-> 0]
    BY <1>1 DEF Now
  <1>8. SynthOK
    <2>1. 0 \in Byte /\ 0 \in Data /\ 0 \in Index
      BY PolyphonyAssumption, SMT DEF Byte, Data, Index
    <2>2. notes \in Array
      BY <1>1, <2>1 DEF Array
    <2>3. "opcode" \in Handlers /\ "opcode" # "velocity"
      BY DEF Handlers
    <2> QED BY <1>7, <2>1, <2>2, <2>3 DEF SynthOK, Sane, Synth
  <1>9. Unread = <<128>>
    <2>1. ~ IsSilent(128)
      BY SMT DEF IsSilent, ActiveSensing, Reset
    <2>2. Boxed = <<128>> /\ <<128>> \o <<>> = <<128>>
      BY <1>2, <2>1, SMT DEF Boxed
    <2> QED BY <1>4, <2>2 DEF Unread
  <1>10. Reflects(Replay(Now, Unread))
    <2> DEFINE t == [pc |-> "note_off", newNote |-> 0, notes |-> notes, noteIndex |-> 0,
                     sounding |-> FALSE, period |-> 0]
               u == <<128>>
    <2>1. Len(u) = 1 /\ u[1] = 128
      OBVIOUS
    <2>2. Home(128) = "note_off" /\ Home(0) = "note_off"
      BY Homes DEF NoteOff
    <2>3. Take(Now, 128) = t
      <3>1. 128 >= 128
        BY SMT
      <3>2. Take(Now, 128) = Moved(Now, "note_off", 0)
        BY <1>7, <2>2, <3>1 DEF Take
      <3> QED BY <1>7, <3>2 DEF Moved
    <2>4. /\ t.pc = "note_off" /\ t.noteIndex = 0 /\ t.sounding = FALSE /\ t.notes = notes
      OBVIOUS
    <2> HIDE DEF t, u
    <2>5. Replay(Now, u) = t
      BY <2>1, <2>3, SMT DEF Replay
    <2>6. 0 .. 0 - 1 = {} /\ ~ (0 > 0) /\ Len(<<>>) = 0 /\ 0 <= 0 /\ 1 .. 0 - 0 = {}
      BY SMT
    <2>7. \A i \in Slot : notes[i] = 0
      BY <1>1
    <2>8. MAX_POLYPHONY - 1 \in Slot
      BY PolyphonyAssumption, SMT DEF Slot
    <2>9. ReflectsOn(t, <<>>, FALSE)
      BY <2>4, <2>6, <2>7, <2>8 DEF ReflectsOn
    <2>10. ReflectsOff(t, <<>>)
      BY <2>4, <2>6 DEF ReflectsOff
    <2>11. Mirrors(t, pressed, crowded)
      BY <1>1, <2>4, <2>6, <2>9, <2>10 DEF Mirrors
    <2> QED BY <1>1, <1>9, <2>2, <2>4, <2>5, <2>11 DEF Reflects, u
  <1> QED BY <1>3, <1>5, <1>6, <1>8, <1>10 DEF IInv
------------------------------------------------------------------------------
LEMMA InitIInv == Init => IInv
  BY InitSound

LEMMA NextIInv == IInv /\ [Next]_vars => IInv'
  BY MainKeeps, SenderKeeps, StutterKeeps DEF Next

LEMMA Invariance == Spec => []IInv
  <1> QED BY InitIInv, NextIInv, PTL DEF Spec

\* The receiver's arithmetic, the index and the array stay in their ranges.
THEOREM TypeCorrect == Spec => []TypeOK
  <1>1. IInv => TypeOK
    <2> SUFFICES ASSUME IInv PROVE TypeOK
      OBVIOUS
    <2>1. LineOK /\ TodoOK /\ SynthOK
      BY DEF IInv
    <2>2. rx \in Receiver
      BY <2>1, ReceiverTyped
    <2>3. todo \in Seq(0 .. 255) /\ at \in 0 .. 9
      BY <2>1 DEF LineOK
    <2> QED BY <2>1, <2>2, <2>3, NowFields DEF TypeOK, Handlers, Byte, Array, Index, Data
  <1> QED BY <1>1, Invariance, PTL

\* A frame hands over the byte that was sent, once, and before its stop bit
\* has ended, whatever the drift of the clocks between two edges.
THEOREM FrameIsReceivedHolds == Spec => FrameIsReceived
  <1> DEFINE Received == /\ at = 9 /\ at' = 0 => rx'.handed = <<Head(todo)>>
                         /\ at = 0 /\ at' = 0 => rx'.handed = rx.handed
  <1>1. IInv /\ [Next]_vars => [Received]_vars
    <2> SUFFICES ASSUME IInv, Next PROVE Received
      OBVIOUS
    <2>1. LineOK /\ TodoOK
      BY DEF IInv
    <2>2. CASE Main \/ (\E key \in Note : Press(key)) \/ (\E i \in DOMAIN pressed : Lift(i))
               \/ OtherMessage \/ Sense
      <3>1. rx'.handed = rx.handed
        BY <2>2, MainKeeps, PressKeeps, LiftKeeps, OtherMessageKeeps DEF Sense
      <3>2. at' = at
        BY <2>2 DEF Main, PassOver, Opcode, GiveBack, noteOn, noteOff, controlChange, line,
                    Press, Lift, OtherMessage, Message, Sense
      <3>3. 9 # 0
        BY SMT
      <3> QED BY <3>1, <3>2, <3>3
    <2>3. CASE SendBit
      BY <2>1, <2>3, SendBitKeeps
    <2>4. CASE Idle
      <3>1. at = 0 /\ rx'.handed = rx.handed /\ 9 # 0
        BY <2>1, <2>4, IdleKeeps, SMT DEF Idle
      <3> QED BY <3>1
    <2> QED BY <2>2, <2>3, <2>4 DEF Next, Sender
  <1>2. Spec => [][Received]_vars
    BY <1>1, Invariance, PTL DEF Spec
  <1> QED BY <1>2 DEF FrameIsReceived

\* At rest there is nothing left to replay.
LEMMA RestMirrors ==
  ASSUME IInv, AtRest
  PROVE  /\ Mirrors(Now, pressed, crowded) /\ noteIndex \in 0 .. MAX_POLYPHONY
         /\ pressed \in Seq(Note) /\ Len(pressed) \in Nat
         /\ DOMAIN pressed = 1 .. Len(pressed)
         /\ releases \in {"by_note_on", "by_note_off"}
         /\ Now.notes = notes /\ Now.noteIndex = noteIndex
         /\ Now.sounding = sounding /\ Now.period = period
  <1>1. Unread = <<>>
    <2>1. Boxed = <<>> /\ Coming = <<>>
      BY DEF AtRest, Boxed, Coming
    <2>2. <<>> \o <<>> = <<>>
      BY SMT
    <2> QED BY <2>1, <2>2 DEF Unread
  <1>2. Replay(Now, <<>>) = Now
    <2>1. Len(<<>>) = 0
      BY SMT
    <2> QED BY <2>1 DEF Replay
  <1>3. Mirrors(Now, pressed, crowded)
    BY <1>1, <1>2 DEF IInv, Reflects
  <1>4. noteIndex \in 0 .. MAX_POLYPHONY
    BY NowFields DEF IInv, Index
  <1>5. pressed \in Seq(Note) /\ releases \in {"by_note_on", "by_note_off"}
    BY DEF IInv, PlayerOK
  <1>6. Len(pressed) \in Nat /\ DOMAIN pressed = 1 .. Len(pressed)
    BY <1>5, LenProperties
  <1> QED BY <1>3, <1>4, <1>5, <1>6 DEF Now

LEMMA OnMirrors ==
  ASSUME IInv, AtRest, releases = "by_note_on"
  PROVE  /\ noteIndex <= Len(pressed)
         /\ \A i \in 1 .. noteIndex : notes[i - 1] = pressed[Len(pressed) - noteIndex + i]
         /\ crowded \/ noteIndex = Len(pressed)
         /\ ~ crowded /\ pressed # <<>> => period = pressed[Len(pressed)]
  <1>1. /\ noteIndex <= Len(pressed)
        /\ \A i \in 0 .. noteIndex - 1 : notes[i] = pressed[Len(pressed) - noteIndex + i + 1]
        /\ crowded \/ noteIndex = Len(pressed)
        /\ ~ crowded /\ pressed # <<>> => period = pressed[Len(pressed)]
    BY RestMirrors DEF Mirrors, ReflectsOn
  <1>2. ASSUME NEW i \in 1 .. noteIndex
        PROVE  notes[i - 1] = pressed[Len(pressed) - noteIndex + i]
    <2> DEFINE L == Len(pressed)
    <2>1. L \in Nat /\ noteIndex \in 0 .. MAX_POLYPHONY
      BY RestMirrors
    <2> HIDE DEF L
    <2>2. i - 1 \in 0 .. noteIndex - 1 /\ L - noteIndex + (i - 1) + 1 = L - noteIndex + i
      BY <1>2, <2>1, PolyphonyAssumption, SMT
    <2> QED BY <1>1, <2>2 DEF L
  <1> QED BY <1>1, <1>2

LEMMA Reversed ==
  ASSUME NEW S, NEW s \in Seq(S)
  PROVE  /\ Reverse(s) \in Seq(S) /\ Len(Reverse(s)) = Len(s)
         /\ \A i \in 1 .. Len(s) : Reverse(s)[i] = s[(Len(s) - i) + 1]
  <1>1. \A i \in 1 .. Len(s) : (Len(s) - i) + 1 \in 1 .. Len(s)
    <2> DEFINE L == Len(s)
    <2>1. L \in Nat
      BY LenProperties
    <2> HIDE DEF L
    <2>2. \A i \in 1 .. L : (L - i) + 1 \in 1 .. L
      BY <2>1, SMT
    <2> QED BY <2>2 DEF L
  <1>2. \A i \in 1 .. Len(s) : s[(Len(s) - i) + 1] \in S
    BY <1>1, ElementOfSeq
  <1>3. Len(s) \in Nat
    BY LenProperties
  <1> QED BY <1>2, <1>3 DEF Reverse

LEMMA SuffixIs ==
  ASSUME NEW S, NEW s \in Seq(S), NEW t \in Seq(S), Len(s) <= Len(t),
         \A i \in 1 .. Len(s) : s[i] = t[Len(t) - Len(s) + i]
  PROVE  IsSuffix(s, t) /\ (Len(s) = Len(t) => s = t)
  <1> DEFINE a == Reverse(s)
             b == Reverse(t)
             n == Len(s)
             L == Len(t)
  <1>1. n \in Nat /\ L \in Nat /\ n <= L
    BY LenProperties
  <1>2. /\ a \in Seq(S) /\ Len(a) = n /\ \A i \in 1 .. n : a[i] = s[(n - i) + 1]
        /\ b \in Seq(S) /\ Len(b) = L /\ \A i \in 1 .. L : b[i] = t[(L - i) + 1]
    BY Reversed
  <1> HIDE DEF a, b
  <1>3. \A i \in 1 .. n : a[i] = b[i]
    <2> TAKE i \in 1 .. n
    <2>1. \A j \in 1 .. n : s[j] = t[L - n + j]
      OBVIOUS
    <2> HIDE DEF n, L
    <2>2. i \in 1 .. L /\ (n - i) + 1 \in 1 .. n /\ L - n + ((n - i) + 1) = (L - i) + 1
      BY <1>1, SMT
    <2>3. a[i] = s[(n - i) + 1] /\ b[i] = t[(L - i) + 1]
      BY <1>2, <2>2
    <2>4. s[(n - i) + 1] = t[L - n + ((n - i) + 1)]
      BY <2>1, <2>2
    <2> QED BY <2>2, <2>3, <2>4
  <1>4. SubSeq(a, 1, Len(a)) = SubSeq(b, 1, Len(a))
    <2> DEFINE c == SubSeq(a, 1, n)
               d == SubSeq(b, 1, n)
    <2>1. /\ 1 \in 1 .. Len(a) + 1 /\ n \in 1 - 1 .. Len(a)
          /\ 1 \in 1 .. Len(b) + 1 /\ n \in 1 - 1 .. Len(b) /\ n - 1 + 1 = n
      <3> HIDE DEF n, L
      <3> QED BY <1>1, <1>2, SMT
    <2>2. /\ c \in Seq(S) /\ Len(c) = n /\ \A i \in 1 .. n : c[i] = a[1 + i - 1]
          /\ d \in Seq(S) /\ Len(d) = n /\ \A i \in 1 .. n : d[i] = b[1 + i - 1]
      BY <1>2, <2>1, SubSeqProperties
    <2> HIDE DEF c, d, n, L
    <2>3. \A i \in 1 .. n : c[i] = d[i]
      <3>1. \A i \in 1 .. n : 1 + i - 1 = i
        BY <1>1, SMT
      <3> QED BY <1>3, <2>2, <3>1
    <2>4. c = d
      BY <2>2, <2>3, SeqEqual
    <2> QED BY <1>2, <2>4 DEF c, d
  <1>5. IsPrefix(a, b)
    BY <1>1, <1>2, <1>4 DEF IsPrefix
  <1>6. ASSUME n = L
        PROVE  s = t
    <2>1. \A i \in 1 .. n : L - n + i = i
      <3> HIDE DEF n, L
      <3> QED BY <1>1, <1>6, SMT
    <2>2. \A i \in 1 .. Len(s) : s[i] = t[i]
      BY <2>1
    <2> QED BY <1>6, <2>2, SeqEqual
  <1> QED BY <1>5, <1>6 DEF IsSuffix, a, b

\* Nothing sounds when every key is up, and no note stays that nobody holds.
THEOREM NoHangingNoteHolds == Spec => []NoHangingNote
  <1>1. IInv => NoHangingNote
    <2> SUFFICES ASSUME IInv, AtRest
                 PROVE  Range(Held) \subseteq Range(pressed) /\ (sounding <=> noteIndex > 0)
      BY DEF NoHangingNote
    <2>1. sounding <=> noteIndex > 0
      BY RestMirrors DEF Mirrors
    <2>2. noteIndex \in 0 .. MAX_POLYPHONY /\ MAX_POLYPHONY \in Nat
      BY RestMirrors, PolyphonyAssumption
    <2>3. ASSUME NEW i \in 1 .. noteIndex
          PROVE  \E j \in DOMAIN pressed : notes[i - 1] = pressed[j]
      <3>1. i - 1 \in 0 .. noteIndex - 1
        BY <2>2, <2>3, SMT
      <3>2. CASE releases = "by_note_off"
        BY <3>1, <3>2, RestMirrors DEF Mirrors, ReflectsOff
      <3>3. CASE releases = "by_note_on"
        <4> DEFINE L == Len(pressed)
        <4>1. L \in Nat /\ noteIndex <= L /\ DOMAIN pressed = 1 .. L
              /\ notes[i - 1] = pressed[L - noteIndex + i]
          BY <2>3, <3>3, RestMirrors, OnMirrors
        <4> HIDE DEF L
        <4>2. L - noteIndex + i \in 1 .. L
          BY <2>2, <2>3, <4>1, SMT
        <4> QED BY <4>1, <4>2
      <3> QED BY <3>2, <3>3, RestMirrors
    <2>4. Range(Held) \subseteq Range(pressed)
      BY <2>3 DEF Range, Held
    <2> QED BY <2>1, <2>4
  <1> QED BY <1>1, Invariance, PTL

\* A keyboard that releases with "note on": the array is the newest of the
\* keys, all of them unless too many were down.
THEOREM NotForgottenHolds == Spec => []NotForgotten
  <1>1. IInv => NotForgotten
    <2> SUFFICES ASSUME IInv, AtRest, releases = "by_note_on"
                 PROVE  IsSuffix(Held, pressed) /\ (crowded \/ Held = pressed)
      BY DEF NotForgotten
    <2>1. /\ noteIndex <= Len(pressed)
          /\ \A i \in 1 .. noteIndex : notes[i - 1] = pressed[Len(pressed) - noteIndex + i]
          /\ crowded \/ noteIndex = Len(pressed)
      BY OnMirrors
    <2>2. noteIndex \in Nat /\ pressed \in Seq(Note) /\ Len(pressed) \in Nat
      BY RestMirrors, PolyphonyAssumption, SMT
    <2>3. ASSUME NEW i \in 1 .. noteIndex
          PROVE  notes[i - 1] \in Note
      <3> DEFINE L == Len(pressed)
      <3>1. L \in Nat /\ noteIndex <= L /\ noteIndex \in Nat
        BY <2>1, <2>2
      <3> HIDE DEF L
      <3>2. L - noteIndex + i \in 1 .. L
        BY <2>3, <3>1, SMT
      <3>3. pressed[L - noteIndex + i] \in Note
        BY <2>2, <3>2, ElementOfSeq DEF L
      <3> QED BY <2>1, <2>3, <3>3 DEF L
    <2>4. /\ Held \in Seq(Note) /\ Len(Held) = noteIndex
          /\ \A i \in 1 .. noteIndex : Held[i] = notes[i - 1]
      BY <2>2, <2>3 DEF Held
    <2> QED BY <2>1, <2>2, <2>4, SuffixIs
  <1> QED BY <1>1, Invariance, PTL

\* It is the newest key that sounds.
THEOREM NewestSoundsHolds == Spec => []NewestSounds
  <1>1. IInv => NewestSounds
    <2> SUFFICES ASSUME IInv, AtRest, releases = "by_note_on", ~ crowded, pressed # <<>>
                 PROVE  sounding /\ period = Last(pressed)
      BY DEF NewestSounds
    <2>1. noteIndex = Len(pressed) /\ period = pressed[Len(pressed)]
      BY OnMirrors
    <2>2. pressed \in Seq(Note) /\ Len(pressed) \in Nat \ {0}
      BY RestMirrors, EmptySeq
    <2>3. noteIndex > 0
      BY <2>1, <2>2, SMT
    <2>4. sounding <=> noteIndex > 0
      BY RestMirrors DEF Mirrors
    <2> QED BY <2>1, <2>3, <2>4 DEF Last
  <1> QED BY <1>1, Invariance, PTL
==============================================================================
