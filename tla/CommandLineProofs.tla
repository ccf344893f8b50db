-------------------------- MODULE CommandLineProofs --------------------------
(***************************************************************************)
(* For every size of the line buffer and lines of every length: the buffer *)
(* holds what the terminal shows, a line is taken for what it shows, and a *)
(* repeated one stays what it was.  And no temperature is printed that is  *)
(* older than the measurement before.                                      *)
(***************************************************************************)
EXTENDS CommandLine, SequenceTheorems, TLAPS

\* Counting up, seen from the remainder.
LEMMA Wraps ==
  ASSUME NEW M \in Nat \ {0}, NEW x \in Int
  PROVE  (x + 1) % M = IF x % M = M - 1 THEN 0 ELSE (x % M) + 1
  <1>1. ASSUME NEW q \in Int, NEW r \in 0 .. M - 1
        PROVE  ((M * q) + r) % M = r
    BY SMT
  <1> DEFINE q == x \div M
             r == x % M
  <1>2. r \in 0 .. M - 1 /\ q \in Int /\ x = (M * q) + r
    BY SMT
  <1> HIDE DEF q, r
  <1>3. x + 1 = (M * (q + 1)) + (r - (M - 1)) /\ q + 1 \in Int /\ x + 1 = (M * q) + (r + 1)
    BY <1>2, SMT
  <1>4. CASE r = M - 1
    <2>1. r - (M - 1) = 0 /\ 0 \in 0 .. M - 1
      BY <1>2, <1>4, SMT
    <2> QED BY <1>1, <1>3, <1>4, <2>1 DEF r
  <1>5. CASE r # M - 1
    <2>1. r + 1 \in 0 .. M - 1
      BY <1>2, <1>5, SMT
    <2> QED BY <1>1, <1>2, <1>3, <1>5, <2>1 DEF r
  <1> QED BY <1>4, <1>5

\* The types that the editor relies on.
EditorType == /\ cmdbuf \in [Index -> Nat] /\ cmdptr \in Index
              /\ shown \in Seq(Nat) /\ erased \in BOOLEAN

EditorInv == EditorType /\ LineIsShown

\* A measured value is of the running conversion or of the one before it, and
\* a conversion only runs within a measurement.
Measuring == pc \in {"measure", "print"}
Callers == {"loop", "main_test", "cmdhandler"}
AgeInv == /\ _adc10_value = IF converting THEN Older(0) ELSE 0
          /\ converting => Measuring
          /\ caller \in Callers
          /\ pc = "print" => temp \in 0 .. 1

------------------------------------------------------------------------------
(* The index.                                                              *)

LEMMA IndexFacts ==
  /\ CMDBUF_SIZE \in Nat \ {0} /\ CMDBUF_SIZE > 1 /\ 0 \in Index
  /\ Index = 0 .. CMDBUF_SIZE - 1
  BY BufferAssumption, SMT DEF Index

LEMMA RemainderIsSmaller ==
  ASSUME NEW n \in Nat
  PROVE  n % CMDBUF_SIZE <= n
  <1> DEFINE q == n \div CMDBUF_SIZE
             r == n % CMDBUF_SIZE
             full == CMDBUF_SIZE * q
  <1>1. r \in 0 .. CMDBUF_SIZE - 1 /\ q \in Int /\ n = full + r
    <2>1. n \in Int
      OBVIOUS
    <2> QED BY <2>1, IndexFacts, SMT
  <1>2. full \in Int /\ (q < 0 => full <= 0 - CMDBUF_SIZE) /\ (q >= 0 => full >= 0)
    <2> HIDE DEF q
    <2> QED BY <1>1, IndexFacts, SMT
  <1> HIDE DEF q, r, full
  <1>3. r <= n
    BY <1>1, <1>2, IndexFacts, SMT
  <1> QED BY <1>3 DEF r

LEMMA NextPtrValue ==
  ASSUME cmdptr \in Index
  PROVE  /\ NextPtr \in Index /\ NextPtr # cmdptr
         /\ NextPtr = IF cmdptr = CMDBUF_SIZE - 1 THEN 0 ELSE cmdptr + 1
  BY BufferAssumption, SMT DEF Index, NextPtr

------------------------------------------------------------------------------
(* What the keys do to the line.                                           *)

LEMMA ClearLineKeeps ==
  ASSUME EditorInv, ClearLine
  PROVE  EditorInv'
  <1>1. /\ cmdbuf' = [cmdbuf EXCEPT ![0] = 0] /\ cmdptr' = 0
        /\ shown' = <<>> /\ erased' = FALSE
    BY DEF ClearLine, EmptyBuffer
  <1>2. cmdbuf' \in [Index -> Nat] /\ cmdbuf'[0] = 0
    BY <1>1, IndexFacts DEF EditorInv, EditorType
  <1>3. Len(shown') = 0 /\ 0 % CMDBUF_SIZE = 0 /\ shown' \in Seq(Nat)
    BY <1>1, IndexFacts, SMT
  <1>4. EditorType'
    BY <1>1, <1>2, <1>3, IndexFacts DEF EditorType
  <1>5. LineIsShown'
    <2>1. 1 .. cmdptr' = {}
      BY <1>1, SMT
    <2> QED BY <1>1, <1>2, <1>3, <2>1 DEF LineIsShown
  <1> QED BY <1>4, <1>5 DEF EditorInv

LEMMA TakeBackKeeps ==
  ASSUME EditorInv, TakeBack, cmdptr > 0
  PROVE  EditorInv'
  <1> DEFINE n == Len(shown)
  <1>1. /\ cmdbuf' = [cmdbuf EXCEPT ![cmdptr] = 0]
        /\ cmdptr' = (cmdptr - 1) % CMDBUF_SIZE
        /\ shown' = SubSeq(shown, 1, n - 1) /\ erased' = TRUE
    BY DEF TakeBack
  <1>2. /\ cmdbuf \in [Index -> Nat] /\ cmdptr \in Index /\ shown \in Seq(Nat)
        /\ n \in Nat /\ cmdptr = n % CMDBUF_SIZE
        /\ \A i \in 1 .. cmdptr : cmdbuf[i - 1] = shown[n - cmdptr + i]
    BY DEF EditorInv, EditorType, LineIsShown
  <1>3. n > 0 /\ cmdptr <= n
    <2>1. n % CMDBUF_SIZE <= n
      BY <1>2, RemainderIsSmaller
    <2> QED BY <1>2, <2>1, SMT
  <1>4. cmdptr' = cmdptr - 1 /\ cmdptr' \in Index
    <2>1. cmdptr - 1 \in 0 .. CMDBUF_SIZE - 1 /\ cmdptr - 1 \in Index
      BY <1>2, IndexFacts, SMT
    <2>2. (cmdptr - 1) % CMDBUF_SIZE = cmdptr - 1
      BY <2>1, IndexFacts, SMT
    <2> QED BY <1>1, <2>1, <2>2
  <1>5. /\ shown' \in Seq(Nat) /\ Len(shown') = n - 1
        /\ \A i \in 1 .. n - 1 : shown'[i] = shown[i]
    <2>1. n - 1 \in Nat /\ \A i \in 1 .. n - 1 : shown[i] \in Nat
      BY <1>2, <1>3
    <2> HIDE DEF n
    <2> QED BY <1>1, <1>2, <2>1
  <1>6. cmdbuf' \in [Index -> Nat]
    BY <1>1, <1>2
  <1>7. (n - 1) % CMDBUF_SIZE = cmdptr'
    <2> DEFINE r == (n - 1) % CMDBUF_SIZE
    <2>1. n - 1 \in Int /\ (n - 1) + 1 = n /\ r \in Int
      BY <1>2, IndexFacts, SMT
    <2>2. n % CMDBUF_SIZE = IF r = CMDBUF_SIZE - 1 THEN 0 ELSE r + 1
      BY <2>1, IndexFacts, Wraps
    <2>3. cmdptr' = cmdptr - 1 /\ cmdptr = n % CMDBUF_SIZE /\ cmdptr \in Int /\ cmdptr # 0
      BY <1>2, <1>4, IndexFacts, SMT
    <2> HIDE DEF r
    <2>4. r = cmdptr - 1
      BY <2>1, <2>2, <2>3, SMT
    <2> QED BY <2>3, <2>4 DEF r
  <1>8. ASSUME NEW i \in 1 .. cmdptr'
        PROVE  cmdbuf'[i - 1] = shown'[Len(shown') - cmdptr' + i]
    <2>1. /\ i \in 1 .. cmdptr /\ i - 1 \in Index /\ i - 1 # cmdptr
          /\ Len(shown') - cmdptr' + i = n - cmdptr + i
          /\ n - cmdptr + i \in 1 .. n - 1
      <3> DEFINE k == Len(shown')
      <3>1. /\ k = n - 1 /\ n \in Nat /\ n > 0 /\ cmdptr <= n
            /\ cmdptr \in 0 .. CMDBUF_SIZE - 1 /\ cmdptr' = cmdptr - 1
            /\ i \in 1 .. cmdptr'
        BY <1>2, <1>3, <1>4, <1>5, IndexFacts
      <3> HIDE DEF n, k
      <3>2. /\ i \in 1 .. cmdptr /\ i - 1 \in 0 .. CMDBUF_SIZE - 1 /\ i - 1 # cmdptr
            /\ k - cmdptr' + i = n - cmdptr + i
            /\ n - cmdptr + i \in 1 .. n - 1
        BY <3>1, IndexFacts, SMT
      <3> QED BY <3>2, IndexFacts DEF k
    <2> QED BY <1>1, <1>2, <1>5, <2>1
  <1> QED BY <1>1, <1>4, <1>5, <1>6, <1>7, <1>8 DEF EditorInv, EditorType, LineIsShown

LEMMA AppendEchoKeeps ==
  ASSUME EditorInv, AppendEcho
  PROVE  EditorInv'
  <1> DEFINE n == Len(shown)
  <1>1. /\ cmdbuf' = [cmdbuf EXCEPT ![cmdptr] = byte, ![NextPtr] = 0]
        /\ cmdptr' = NextPtr /\ shown' = Append(shown, byte) /\ erased' = FALSE
        /\ byte \in Nat
    BY KeyAssumption DEF AppendEcho, Printable
  <1>2. /\ cmdbuf \in [Index -> Nat] /\ cmdptr \in Index /\ shown \in Seq(Nat)
        /\ n \in Nat /\ cmdptr = n % CMDBUF_SIZE
        /\ \A i \in 1 .. cmdptr : cmdbuf[i - 1] = shown[n - cmdptr + i]
    BY DEF EditorInv, EditorType, LineIsShown
  <1>3. /\ NextPtr \in Index /\ NextPtr # cmdptr
        /\ NextPtr = IF cmdptr = CMDBUF_SIZE - 1 THEN 0 ELSE cmdptr + 1
    BY <1>2, NextPtrValue
  <1>4. /\ shown' \in Seq(Nat) /\ Len(shown') = n + 1 /\ shown'[n + 1] = byte
        /\ \A i \in 1 .. n : shown'[i] = shown[i]
    BY <1>1, <1>2, AppendProperties
  <1>5. (n + 1) % CMDBUF_SIZE = NextPtr
    <2>1. n \in Int /\ CMDBUF_SIZE \in Nat \ {0}
      BY <1>2, IndexFacts
    <2>2. (n + 1) % CMDBUF_SIZE = IF n % CMDBUF_SIZE = CMDBUF_SIZE - 1 THEN 0 ELSE (n % CMDBUF_SIZE) + 1
      BY <2>1, Wraps
    <2> QED BY <1>2, <1>3, <2>2
  <1>6. /\ cmdbuf' \in [Index -> Nat] /\ cmdbuf'[NextPtr] = 0 /\ cmdbuf'[cmdptr] = byte
        /\ \A j \in Index : j # cmdptr /\ j # NextPtr => cmdbuf'[j] = cmdbuf[j]
    BY <1>1, <1>2, <1>3
  <1> HIDE DEF n
  <1>7. ASSUME NEW i \in 1 .. NextPtr
        PROVE  cmdbuf'[i - 1] = shown'[Len(shown') - NextPtr + i]
    <2>1. /\ NextPtr = cmdptr + 1 /\ cmdptr \in Nat
          /\ Len(shown') - NextPtr + i = n - cmdptr + i
      BY <1>2, <1>3, <1>4, <1>7, IndexFacts, SMT
    <2>2. CASE i = NextPtr
      <3>1. i - 1 = cmdptr /\ n - cmdptr + i = n + 1
        <4>1. n \in Nat /\ cmdptr \in Nat /\ i = cmdptr + 1
          BY <1>2, <2>1, <2>2
        <4> QED BY <4>1, SMT
      <3> QED BY <1>4, <1>6, <2>1, <3>1
    <2>3. CASE i # NextPtr
      <3>1. i \in 1 .. cmdptr /\ i - 1 \in Index /\ i - 1 # cmdptr /\ i - 1 # NextPtr
        BY <1>2, <2>1, <2>3, IndexFacts, SMT DEF Index
      <3>2. n - cmdptr + i \in 1 .. n
        <4>1. cmdptr <= n
          BY <1>2, RemainderIsSmaller
        <4> QED BY <1>2, <2>1, <3>1, <4>1, SMT
      <3> QED BY <1>2, <1>4, <1>6, <2>1, <3>1, <3>2
    <2> QED BY <2>2, <2>3
  <1> QED BY <1>1, <1>3, <1>4, <1>5, <1>6, <1>7 DEF EditorInv, EditorType, LineIsShown

\* A key, or anything else that happens.
LEMMA NextEditor ==
  ASSUME EditorInv, [Next]_vars
  PROVE  EditorInv'
  <1>1. ASSUME UNCHANGED <<cmdbuf, cmdptr, shown, erased>> PROVE EditorInv'
    BY <1>1 DEF EditorInv, EditorType, LineIsShown
  <1>2. CASE HandleByte
    <2>1. CASE Enter
      BY <1>1, <2>1, ClearLineKeeps DEF Enter, line, typed
    <2>2. CASE Abort
      BY <2>2, ClearLineKeeps DEF Abort
    <2>3. CASE Erase
      BY <1>1, <2>3, TakeBackKeeps DEF Erase, line, typed
    <2>4. CASE AppendEcho
      BY <2>4, AppendEchoKeeps
    <2>5. CASE Ignored
      BY <1>1, <2>5 DEF Ignored, line, typed
    <2> QED BY <1>2, <2>1, <2>2, <2>3, <2>4, <2>5 DEF HandleByte
  <1>3. CASE UNCHANGED vars
    BY <1>1, <1>3 DEF vars, line, typed
  <1>4. ASSUME Next, ~HandleByte PROVE UNCHANGED <<line, typed>>
    BY <1>4 DEF Next, Main, ByteComplete, BadFrame, ConversionEnds, Repeat, NoRepeat,
                TestWaiting, Sleep, CallReceive, ReturnByte, Measured, PrintTemperature
  <1> QED BY <1>1, <1>2, <1>3, <1>4 DEF line, typed

LEMMA InitEditor == Init => EditorInv
  <1> SUFFICES ASSUME Init PROVE EditorInv
    OBVIOUS
  <1>1. /\ cmdbuf = [i \in Index |-> 0] /\ cmdptr = 0 /\ shown = <<>> /\ erased = FALSE
    BY DEF Init
  <1>2. EditorType
    <2>1. cmdbuf \in [Index -> Nat] /\ shown \in Seq(Nat)
      BY <1>1
    <2> QED BY <1>1, <2>1, IndexFacts DEF EditorType
  <1>3. Len(shown) = 0 /\ 0 % CMDBUF_SIZE = 0
    BY <1>1, IndexFacts, SMT
  <1>4. 1 .. cmdptr = {}
    BY <1>1, SMT
  <1>5. LineIsShown
    BY <1>1, <1>3, <1>4, IndexFacts DEF LineIsShown
  <1> QED BY <1>2, <1>5 DEF EditorInv

\* The buffer holds what the terminal shows, at every statement and after any
\* number of wraps of its index.
THEOREM LineIsShownHolds == Spec => []LineIsShown
  <1>1. EditorInv => LineIsShown
    BY DEF EditorInv
  <1> QED BY <1>1, InitEditor, NextEditor, PTL DEF Spec

------------------------------------------------------------------------------
(* The age of the temperature.                                             *)

LEMMA OlderFacts == Older(0) \in 0 .. 1
  BY SMT DEF Older

\* cmdeval() starts a measurement or has nothing to do with the converter.
LEMMA EvaluationKeeps ==
  ASSUME AgeInv, ~Measuring, NEW next \in Callers, cmdeval(next)
  PROVE  AgeInv'
  <1>1. _adc10_value = 0 /\ ~converting
    BY DEF AgeInv
  <1>2. \/ pc' = "measure" /\ caller' = next /\ StartMeasure
        \/ pc' = next /\ UNCHANGED <<adc, caller>>
    BY DEF cmdeval, Evaluate
  <1>3. CASE pc' = "measure" /\ caller' = next /\ StartMeasure
    BY <1>1, <1>3 DEF AgeInv, StartMeasure, Measuring
  <1>4. CASE pc' = next /\ UNCHANGED <<adc, caller>>
    BY <1>1, <1>4 DEF AgeInv, adc, Measuring, Callers
  <1> QED BY <1>2, <1>3, <1>4

LEMMA NextAge ==
  ASSUME AgeInv, [Next]_vars
  PROVE  AgeInv'
  <1>1. ASSUME UNCHANGED <<adc, pc, temp, caller>> PROVE AgeInv'
    BY <1>1 DEF AgeInv, adc, Measuring
  <1>2. ASSUME ~Measuring, pc' \notin {"measure", "print"}, UNCHANGED <<adc, caller>> PROVE AgeInv'
    BY <1>2 DEF AgeInv, adc, Measuring
  <1>3. CASE \E k \in Key : ByteComplete(k)
    BY <1>1, <1>3 DEF ByteComplete
  <1>4. CASE BadFrame
    BY <1>1, <1>4 DEF BadFrame
  <1>5. CASE ConversionEnds
    BY <1>5 DEF ConversionEnds, ADC10_ISR, AgeInv, Measuring
  <1>6. CASE Repeat
    BY <1>6, EvaluationKeeps DEF Repeat, Measuring, Callers
  <1>7. CASE HandleByte
    <2>1. pc = "handle"
      BY <1>7 DEF HandleByte
    <2>2. Return \in Callers
      BY DEF Return, Callers
    <2>3. CASE Enter
      BY <2>1, <2>2, <2>3, EvaluationKeeps DEF Enter, Measuring
    <2>4. CASE Abort \/ Erase \/ AppendEcho \/ Ignored
      <3>1. pc' = Return /\ UNCHANGED <<adc, caller>>
        BY <2>4 DEF Abort, Erase, AppendEcho, Ignored, KeepsMode
      <3> QED BY <1>2, <2>1, <2>2, <3>1 DEF Measuring, Callers
    <2> QED BY <1>7, <2>3, <2>4 DEF HandleByte
  <1>8. CASE Measured
    <2>1. /\ pc = "measure" /\ pc' = "print" /\ temp' = _adc10_value
          /\ UNCHANGED <<adc, caller>>
      BY <1>8 DEF Measured, Goto
    <2>2. _adc10_value \in 0 .. 1
      BY OlderFacts DEF AgeInv
    <2> QED BY <2>1, <2>2 DEF AgeInv, adc, Measuring
  <1>9. CASE NoRepeat \/ TestWaiting \/ Sleep \/ CallReceive \/ ReturnByte
    <2>1. /\ pc \notin {"measure", "print"} /\ pc' \notin {"measure", "print"}
          /\ UNCHANGED <<adc, caller>>
      BY <1>9 DEF NoRepeat, TestWaiting, Sleep, CallReceive, ReturnByte, Goto, Return
    <2> QED BY <1>2, <2>1 DEF Measuring
  <1>10. CASE PrintTemperature
    BY <1>10 DEF PrintTemperature, Goto, AgeInv, adc, Measuring, Callers
  <1>11. CASE UNCHANGED vars
    BY <1>1, <1>11 DEF vars
  <1> QED BY <1>3, <1>4, <1>5, <1>6, <1>7, <1>8, <1>9, <1>10, <1>11 DEF Next, Main

LEMMA InitAge == Init => AgeInv
  BY DEF Init, AdcInit, AgeInv, Measuring, Callers

\* What is printed is the temperature of this measurement or of the last one.
THEOREM StaleByOneAtMostHolds == Spec => []StaleByOneAtMost
  <1>1. AgeInv => StaleByOneAtMost
    BY SMT DEF AgeInv, StaleByOneAtMost
  <1> QED BY <1>1, InitAge, NextAge, PTL DEF Spec

------------------------------------------------------------------------------
(* What a line is taken for.                                               *)

\* No character of a line is a terminator; and what runs is one of the two.
Readable == /\ \A i \in 1 .. Len(shown) : shown[i] # 0
            /\ program \in {"serial", "rtcctl"}

LEMMA NextReadable ==
  ASSUME EditorType, Readable, [Next]_vars
  PROVE  Readable'
  <1>1. program' = program
    BY DEF Next, Main, ByteComplete, BadFrame, ConversionEnds, Repeat, NoRepeat, TestWaiting,
           Sleep, CallReceive, ReturnByte, HandleByte, Measured, PrintTemperature, control, vars
  <1>2. CASE shown' = shown
    BY <1>1, <1>2 DEF Readable
  <1>3. CASE shown' = <<>>
    BY <1>1, <1>3 DEF Readable
  <1>4. CASE shown' = SubSeq(shown, 1, Len(shown) - 1)
    BY <1>1, <1>4 DEF Readable, EditorType
  <1>5. CASE HandleByte /\ AppendEcho
    <2>1. byte \in Nat /\ byte # 0 /\ shown' = Append(shown, byte)
      BY <1>5, KeyAssumption DEF AppendEcho, Printable
    <2>2. shown \in Seq(Nat)
      BY DEF EditorType
    <2>3. /\ Len(shown') = Len(shown) + 1
          /\ \A i \in 1 .. Len(shown) + 1 :
               shown'[i] = IF i = Len(shown) + 1 THEN byte ELSE shown[i]
      BY <2>1, <2>2, AppendProperties
    <2> QED BY <1>1, <2>1, <2>2, <2>3 DEF Readable
  <1>6. \/ shown' = shown \/ shown' = <<>> \/ shown' = SubSeq(shown, 1, Len(shown) - 1)
        \/ HandleByte /\ AppendEcho
    <2>1. CASE HandleByte
      BY <2>1 DEF HandleByte, Enter, Abort, Erase, Ignored, ClearLine, EmptyBuffer, TakeBack, typed
    <2>2. CASE ~HandleByte
      BY <2>2 DEF Next, Main, ByteComplete, BadFrame, ConversionEnds, Repeat, NoRepeat,
                  TestWaiting, Sleep, CallReceive, ReturnByte, Measured, PrintTemperature,
                  typed, vars
    <2> QED BY <2>1, <2>2
  <1> QED BY <1>2, <1>3, <1>4, <1>5, <1>6

Fits == ~erased /\ Len(shown) < CMDBUF_SIZE

LEMMA LineFits ==
  ASSUME EditorInv, Fits
  PROVE  /\ cmdptr = Len(shown) /\ Len(shown) \in 0 .. CMDBUF_SIZE - 1
         /\ \A i \in 1 .. Len(shown) : cmdbuf[i - 1] = shown[i]
         /\ cmdbuf[Len(shown)] = 0
  <1> DEFINE n == Len(shown)
  <1>1. n \in Nat /\ n < CMDBUF_SIZE /\ cmdptr = n % CMDBUF_SIZE
    BY DEF EditorInv, EditorType, LineIsShown, Fits
  <1>2. n % CMDBUF_SIZE = n /\ n \in 0 .. CMDBUF_SIZE - 1
    <2> HIDE DEF n
    <2> QED BY <1>1, IndexFacts, SMT
  <1>3. \A i \in 1 .. cmdptr : cmdbuf[i - 1] = shown[n - cmdptr + i]
    BY DEF EditorInv, LineIsShown
  <1>4. ASSUME NEW i \in 1 .. n PROVE cmdbuf[i - 1] = shown[i]
    <2>1. n - cmdptr + i = i /\ i \in 1 .. cmdptr
      <3> HIDE DEF n
      <3> QED BY <1>1, <1>2, SMT
    <2> QED BY <1>3, <2>1
  <1>5. cmdbuf[cmdptr] = 0
    BY DEF EditorInv, LineIsShown, Fits
  <1> QED BY <1>1, <1>2, <1>4, <1>5

\* strncmp() finds the words that the terminal shows, and no others.
LEMMA MatchesShown ==
  ASSUME EditorInv, Readable, Fits,
         NEW w \in Seq(Printable), Len(w) \in 2 .. CMDBUF_SIZE - 1
  PROVE  Matches(w) <=> shown = w
  <1> DEFINE n == Len(shown)
             m == Len(w)
  <1>1. n \in 0 .. CMDBUF_SIZE - 1 /\ m \in 2 .. CMDBUF_SIZE - 1 /\ CMDBUF_SIZE \in Nat
    BY LineFits, IndexFacts
  <1>2. /\ \A i \in 1 .. n : cmdbuf[i - 1] = shown[i] /\ shown[i] # 0
        /\ cmdbuf[n] = 0
    BY LineFits DEF Readable
  <1>3. \A i \in 1 .. m : w[i] # 0
    BY KeyAssumption, ElementOfSeq DEF Printable
  <1>4. w \in Seq(Nat) /\ shown \in Seq(Nat)
    <2>1. \A k \in Printable : k \in Nat
      BY KeyAssumption, SMT DEF Printable
    <2>2. \A i \in 1 .. Len(w) : w[i] \in Nat
      BY <2>1, ElementOfSeq
    <2>3. w \in Seq(Nat)
      BY <2>2
    <2>4. shown \in Seq(Nat)
      BY DEF EditorInv, EditorType
    <2> QED BY <2>3, <2>4
  <1>5. ASSUME shown = w PROVE Matches(w)
    BY <1>2, <1>5 DEF Matches
  <1>6. ASSUME Matches(w) PROVE shown = w
    <2>1. /\ \A i \in 1 .. m : cmdbuf[i - 1] = w[i]
          /\ cmdbuf[m] = 0
      BY <1>6 DEF Matches
    <2>2. ~(m < n)
      <3> SUFFICES ASSUME m < n PROVE FALSE
        OBVIOUS
      <3>1. m + 1 \in 1 .. n /\ (m + 1) - 1 = m
        <4> HIDE DEF n, m
        <4> QED BY <1>1, SMT
      <3> QED BY <1>2, <2>1, <3>1
    <2>3. ~(n < m)
      <3> SUFFICES ASSUME n < m PROVE FALSE
        OBVIOUS
      <3>1. n + 1 \in 1 .. m /\ (n + 1) - 1 = n
        <4> HIDE DEF n, m
        <4> QED BY <1>1, SMT
      <3> QED BY <1>2, <1>3, <2>1, <3>1
    <2>4. n = m
      <3> HIDE DEF n, m
      <3> QED BY <1>1, <2>2, <2>3, SMT
    <2>5. \A i \in 1 .. n : shown[i] = w[i]
      BY <1>2, <2>1, <2>4
    <2> QED BY <1>4, <2>4, <2>5, SeqEqual
  <1> QED BY <1>5, <1>6

LEMMA EvaluatedIsMeaning ==
  ASSUME EditorInv, Readable, Fits
  PROVE  Evaluated = Meaning(shown)
  <1> DEFINE found == {c \in Command[program] : Matches(Word[c])}
  <1>1. ASSUME NEW c \in Command[program]
        PROVE  /\ c \in Command.rtcctl
               /\ Word[c] \in Seq(Printable) /\ Len(Word[c]) \in 2 .. CMDBUF_SIZE - 1
    <2>1. c \in Command.rtcctl
      BY DEF Readable, Command
    <2> QED BY <2>1, WordAssumption
  <1>2. \A c \in Command[program] : Matches(Word[c]) <=> shown = Word[c]
    BY <1>1, MatchesShown
  <1>3. cmdptr = Len(shown) /\ (shown = <<>> <=> Len(shown) = 0)
    BY LineFits, EmptySeq DEF EditorInv, EditorType
  <1>4. CASE found = {}
    <2>1. ~\E c \in Command[program] : shown = Word[c]
      BY <1>2, <1>4
    <2> QED BY <1>3, <1>4, <2>1 DEF Evaluated, Meaning
  <1>5. CASE found # {}
    <2>1. PICK c \in Command[program] : Matches(Word[c])
      BY <1>5
    <2>2. shown = Word[c] /\ Len(shown) # 0
      <3>1. Len(Word[c]) # 0
        BY <1>1, SMT
      <3> QED BY <1>2, <2>1, <3>1
    <2>3. \A d \in Command[program] : shown = Word[d] => d = c
      BY <1>1, <2>2, WordAssumption
    <2>4. found = {c}
      BY <1>2, <2>1, <2>3
    <2>5. Meaning(shown) = c
      <3>1. (CHOOSE d \in Command[program] : shown = Word[d]) = c
        BY <2>2, <2>3
      <3> QED BY <1>3, <2>2, <3>1 DEF Meaning
    <2>6. Evaluated = c
      <3>1. (CHOOSE d \in found : TRUE) = c
        BY <2>4
      <3>2. CASE c = "help"
        BY <2>4, <3>2 DEF Evaluated
      <3>3. CASE c # "help"
        <4>1. "help" \notin found /\ cmdptr # 0
          BY <1>3, <2>2, <2>4, <3>3
        <4> QED BY <2>4, <3>1, <4>1 DEF Evaluated
      <3> QED BY <3>2, <3>3
    <2> QED BY <2>5, <2>6
  <1> QED BY <1>4, <1>5

LEMMA EvaluatesShown ==
  ASSUME EditorInv, Readable, [Next]_vars, Evaluates
  PROVE  CASE cmdmode = "INPUT" -> reply' = "answer"
           [] cmdmode # "INPUT" /\ ~erased /\ Len(shown) < CMDBUF_SIZE -> reply' = Meaning(shown)
           [] OTHER -> TRUE
  <1>1. \E next \in Callers : cmdeval(next)
    <2>1. pc' # pc
      BY DEF Evaluates
    <2>2. CASE HandleByte
      <3>1. pc = "handle" /\ byte = CR
        BY <2>2 DEF HandleByte, Evaluates
      <3>2. Enter
        BY <2>2, <3>1 DEF HandleByte, Abort, Erase, AppendEcho, Ignored, Printable,
                          CR, DEL, KEY_CTRL_C
      <3>3. cmdeval(Return) /\ Return \in Callers
        BY <3>2 DEF Enter, Return, Callers
      <3> QED BY <3>3
    <2>3. CASE Repeat
      BY <2>3 DEF Repeat, Callers
    <2>4. CASE ~HandleByte /\ ~Repeat
      BY <2>1, <2>4 DEF Next, Main, ByteComplete, BadFrame, ConversionEnds, NoRepeat,
                        TestWaiting, Sleep, CallReceive, ReturnByte, Measured, PrintTemperature,
                        Goto, Evaluates, vars
    <2> QED BY <2>2, <2>3, <2>4
  <1>2. IF cmdmode = "INPUT" THEN reply' = "answer" ELSE reply' = Evaluated
    BY <1>1 DEF cmdeval, Evaluate
  <1>3. ~erased /\ Len(shown) < CMDBUF_SIZE => Evaluated = Meaning(shown)
    BY EvaluatedIsMeaning DEF Fits
  <1> QED BY <1>2, <1>3

LEMMA InitReadable == Init => Readable
  <1> SUFFICES ASSUME Init PROVE Readable
    OBVIOUS
  <1>1. shown = <<>> /\ program \in {"serial", "rtcctl"}
    BY DEF Init
  <1> QED BY <1>1 DEF Readable

\* Every line that fits is taken for what the terminal shows, whatever the
\* buffer held before, in both programs and every mode.
THEOREM EvaluatesCompletedLineHolds == Spec => EvaluatesCompletedLine
  <1>1. EditorInv /\ Readable /\ [Next]_vars => EditorInv' /\ Readable'
    BY NextEditor, NextReadable DEF EditorInv
  <1>2. EditorInv /\ Readable /\ [Next]_vars
          => [Evaluates
                => CASE cmdmode = "INPUT" -> reply' = "answer"
                     [] cmdmode # "INPUT" /\ ~erased /\ Len(shown) < CMDBUF_SIZE -> reply' = Meaning(shown)
                     [] OTHER -> TRUE]_vars
    BY EvaluatesShown
  <1> QED BY <1>1, <1>2, InitEditor, InitReadable, PTL DEF Spec, EvaluatesCompletedLine

------------------------------------------------------------------------------
(* The repeated command.                                                   *)

\* The line that main() repeats asks for the temperature until somebody edits
\* it.
RepeatInv == cmdmode = "NONE" /\ ~edited => Evaluated = "gettemp"

LEMMA EvaluationMode ==
  ASSUME RepeatInv, NEW next, cmdeval(next), cmdmode' = "NONE", ~edited'
  PROVE  Evaluated = "gettemp"
  <1>1. CASE cmdmode = "NONE"
    BY <1>1 DEF RepeatInv, cmdeval
  <1>2. CASE cmdmode # "NONE"
    BY <1>2 DEF cmdeval, Evaluate, ModeAfter
  <1> QED BY <1>1, <1>2

LEMMA NextRepeat ==
  ASSUME RepeatInv, [Next]_vars
  PROVE  RepeatInv'
  <1>1. ASSUME Evaluated = "gettemp", UNCHANGED <<line, program>> PROVE RepeatInv'
    BY <1>1 DEF RepeatInv, Evaluated, Matches, line
  <1>2. ASSUME UNCHANGED <<line, program, cmdmode, edited>> PROVE RepeatInv'
    BY <1>2 DEF RepeatInv, Evaluated, Matches, line
  <1>3. CASE HandleByte
    <2>1. program' = program
      BY <1>3 DEF HandleByte, control
    <2>2. CASE Enter
      BY <1>1, <2>1, <2>2, EvaluationMode DEF Enter, RepeatInv
    <2>3. CASE Abort
      BY <2>3 DEF Abort, RepeatInv
    <2>4. CASE Erase
      BY <1>2, <2>1, <2>4 DEF Erase, TakeBack, KeepsMode, RepeatInv
    <2>5. CASE AppendEcho
      BY <2>5 DEF AppendEcho, RepeatInv
    <2>6. CASE Ignored
      BY <1>2, <2>1, <2>6 DEF Ignored, KeepsMode
    <2> QED BY <1>3, <2>2, <2>3, <2>4, <2>5, <2>6 DEF HandleByte
  <1>4. CASE Repeat
    BY <1>1, <1>4, EvaluationMode DEF Repeat, control, RepeatInv
  <1>5. CASE ~HandleByte /\ ~Repeat
    BY <1>2, <1>5 DEF Next, Main, ByteComplete, BadFrame, ConversionEnds, NoRepeat, TestWaiting,
                      Sleep, CallReceive, ReturnByte, Measured, PrintTemperature,
                      control, meaning, vars
  <1> QED BY <1>3, <1>4, <1>5

LEMMA RepeatStep ==
  ASSUME RepeatInv, [Next]_vars, cmdmode = "NONE", ~edited
  PROVE  /\ Evaluates /\ pc = "loop" => reply' = "gettemp"
         /\ cmdmode' # "NONE" => (pc = "handle" /\ byte = KEY_CTRL_C)
  <1>1. Evaluated = "gettemp"
    BY DEF RepeatInv
  <1>2. ASSUME NEW next, cmdeval(next) PROVE reply' = "gettemp" /\ cmdmode' = "NONE"
    BY <1>1, <1>2 DEF cmdeval, Evaluate, ModeAfter
  <1>3. CASE HandleByte
    BY <1>2, <1>3 DEF HandleByte, Enter, Abort, Erase, AppendEcho, Ignored, KeepsMode
  <1>4. CASE Repeat
    BY <1>2, <1>4 DEF Repeat
  <1>5. CASE ~HandleByte /\ ~Repeat
    <2>1. UNCHANGED cmdmode
      BY <1>5 DEF Next, Main, ByteComplete, BadFrame, ConversionEnds, NoRepeat, TestWaiting,
                  Sleep, CallReceive, ReturnByte, Measured, PrintTemperature, meaning, vars
    <2>2. ~(Evaluates /\ pc = "loop")
      BY <1>5 DEF Next, Main, ByteComplete, BadFrame, ConversionEnds, NoRepeat, TestWaiting,
                  Sleep, CallReceive, ReturnByte, Measured, PrintTemperature, Goto, Evaluates, vars
    <2> QED BY <2>1, <2>2
  <1> QED BY <1>3, <1>4, <1>5

\* main() repeats the temperature as long as nobody edits the line, and only
\* Ctrl-C ends that.
THEOREM RepeatsUntilAbortHolds == Spec => RepeatsUntilAbort
  <1>1. Init => RepeatInv
    BY DEF Init, RepeatInv
  <1>2. RepeatInv /\ [Next]_vars => RepeatInv'
    BY NextRepeat
  <1>3. RepeatInv /\ [Next]_vars
          => [cmdmode = "NONE" /\ ~edited
                => /\ Evaluates /\ pc = "loop" => reply' = "gettemp"
                   /\ cmdmode' # "NONE" => (pc = "handle" /\ byte = KEY_CTRL_C)]_vars
    BY RepeatStep
  <1> QED BY <1>1, <1>2, <1>3, PTL DEF Spec, RepeatsUntilAbort
==============================================================================
