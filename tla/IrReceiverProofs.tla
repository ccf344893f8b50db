-------------------------- MODULE IrReceiverProofs ---------------------------
(***************************************************************************)
(* For commands of any length, symbols of any times that stay apart, a     *)
(* timer that wraps anywhere and a remote whose clock lags: what the       *)
(* receiver of IrReceiver hands over.                                      *)
(***************************************************************************)
EXTENDS IrReceiver, TLAPS

------------------------------------------------------------------------------
(* The invariant: what the receiver has collected at each edge.            *)

\* The last k bits of the command collected are the first k of word.
Collects(command, k, word) ==
  \A i \in 1 .. k : command[(IR_BIT_COUNT - k) + i] = word[i]

\* It has taken k bits, and they are those of the command.
Collected(k) == irBitCount = k /\ Collects(irCommand, k, bits)

RemoteType == late \in Int /\ calm \in 0 .. 2 /\ begun \in 0 .. 2

\* Before the first burst: no bits, unless a burst was added just so that the
\* time since an earlier one looks like a start symbol.
AtFirst == IF calm = 0
           THEN irBitCount \in {Invalid, 0}
           ELSE /\ late \in {0, IR_SYMBOL_LONG, IR_SYMBOL_SHORT}
                /\ calm = 2 => late = 0 /\ irBitCount = Invalid

\* Before the start symbol: as before the first burst, or one bit more; or a
\* burst was added near the end of the symbol and taken for it.
AtStart == IF calm = 0
           THEN \/ irBitCount = Invalid
                \/ late = 0 /\ irBitCount \in {0, 1}
                \/ irBitCount = 0 /\ - late > IR_SYMBOL_START - TOLERANCE
           ELSE late = 0 /\ (begun = 2 => irBitCount = Invalid)

\* A burst was added within the interval, and the receiver has taken what it
\* has seen of it for a bit: a right one, or a 0 in place of a 1.
CutShort == /\ next < FinalEdge /\ irBitCount = next - 1
            /\ \/ - late > IR_SYMBOL_LONG - TOLERANCE
               \/ /\ - late > IR_SYMBOL_SHORT - TOLERANCE
                  /\ Collects(irCommand, next - 1, [bits EXCEPT ![next - 1] = 0])

\* It has taken two 0s for a 1, and is one bit ahead.
TwoForOne == /\ late = 0 /\ next < FinalEdge /\ irBitCount = next - 1
             /\ \E i \in 1 .. next - 2 :
                  bits[i] = 1 /\ Collects(irCommand, next - 1, Halved(i))

\* Before the edge that ends a bit: all bits up to here; or, in a command that
\* is disturbed, too few to become a command, or one of the two cases above.
AtBit == IF calm = 0
         THEN \/ irBitCount = Invalid
              \/ irBitCount <= next - 3
              \/ late = 0 /\ Collected(next - 2)
              \/ CutShort
              \/ TwoForOne
         ELSE late = 0 /\ Collected(next - 2)

Progress == begun > 0 =>
              /\ (next = First => AtFirst)
              /\ (next = Start => (calm > 0 \/ begun = 2 => AtStart))
              /\ (next > Start => (calm > 0 \/ begun = 2 => AtBit))

IInv == TypeOK /\ RemoteType /\ Progress

------------------------------------------------------------------------------
(* Numbers.                                                                *)

LEMMA Numbers ==
  /\ IR_SYMBOL_START \in Nat /\ IR_SYMBOL_LONG \in Nat /\ IR_SYMBOL_SHORT \in Nat
  /\ TOLERANCE \in Nat /\ TOLERANCE > 1
  /\ Wrap \in Nat /\ Wrap > 0 /\ Pause \in Nat /\ Pause > 0
  /\ IR_SYMBOL_LONG + TOLERANCE + TOLERANCE <= IR_SYMBOL_START + 1
  /\ IR_SYMBOL_SHORT + TOLERANCE + TOLERANCE <= IR_SYMBOL_LONG + 1
  /\ TOLERANCE + TOLERANCE + TOLERANCE <= IR_SYMBOL_SHORT + 2
  /\ IR_SYMBOL_START + TOLERANCE <= Wrap
  BY SymbolAssumption, TimerAssumption, ApartAssumption, SMT

LEMMA Edges ==
  /\ IR_BIT_COUNT \in Nat /\ IR_BIT_COUNT > 1
  /\ First = 0 /\ Start = 1
  /\ FinalEdge = IR_BIT_COUNT + 1 /\ Invalid = IR_BIT_COUNT + 1
  BY SymbolAssumption, ApartAssumption DEF First, Start, FinalEdge, Invalid

LEMMA Drifts == ASSUME NEW d \in Drift PROVE d \in Nat /\ d < TOLERANCE
  BY SymbolAssumption, SMT

LEMMA Division ==
  ASSUME NEW M \in Nat \ {0}, NEW x \in Int
  PROVE  x \div M \in Int /\ x % M \in 0 .. M - 1 /\ x = (M * (x \div M)) + (x % M)
  BY SMT

LEMMA Remainder ==
  ASSUME NEW M \in Nat \ {0}, NEW q \in Int, NEW r \in 0 .. M - 1
  PROVE  ((M * q) + r) % M = r
  BY SMT

\* A number and its remainder, moved by less than M either way.
LEMMA Moved ==
  ASSUME NEW M \in Nat \ {0}, NEW x \in Int, NEW p \in (0 - M) + 1 .. M - 1
  PROVE  (x + p) % M = IF (x % M) + p >= M THEN ((x % M) + p) - M
                       ELSE IF (x % M) + p < 0 THEN ((x % M) + p) + M
                       ELSE (x % M) + p
  <1> DEFINE q == x \div M
             r == x % M
             m == M * q
  <1>1. q \in Int /\ r \in 0 .. M - 1 /\ x = m + r
    BY Division
  <1> HIDE DEF q, r
  <1>2. m \in Int /\ M * (q + 1) = m + M /\ M * (q - 1) = m - M
        /\ q + 1 \in Int /\ q - 1 \in Int
    BY <1>1, SMT
  <1>3. CASE r + p >= M
    <2>1. (r + p) - M \in 0 .. M - 1 /\ x + p = (m + M) + ((r + p) - M)
      <3> HIDE DEF m
      <3> QED BY <1>1, <1>2, <1>3, SMT
    <2>2. ((M * (q + 1)) + ((r + p) - M)) % M = (r + p) - M
      BY <1>2, <2>1, Remainder
    <2> QED BY <1>2, <1>3, <2>1, <2>2 DEF r
  <1>4. CASE r + p < 0
    <2>1. (r + p) + M \in 0 .. M - 1 /\ x + p = (m - M) + ((r + p) + M)
      <3> HIDE DEF m
      <3> QED BY <1>1, <1>2, <1>4, SMT
    <2>2. ((M * (q - 1)) + ((r + p) + M)) % M = (r + p) + M
      BY <1>2, <2>1, Remainder
    <2>3. ~ (r + p >= M)
      BY <1>1, <1>4, SMT
    <2> QED BY <1>2, <1>4, <2>1, <2>2, <2>3 DEF r
  <1>5. CASE ~ (r + p >= M) /\ ~ (r + p < 0)
    <2>1. r + p \in 0 .. M - 1 /\ x + p = m + (r + p)
      <3> HIDE DEF m
      <3> QED BY <1>1, <1>2, <1>5, SMT
    <2>2. ((M * q) + (r + p)) % M = r + p
      BY <1>1, <2>1, Remainder
    <2> QED BY <1>5, <2>1, <2>2 DEF r
  <1> QED BY <1>3, <1>4, <1>5

LEMMA SmallRemainder ==
  ASSUME NEW M \in Nat \ {0}, NEW x \in 0 .. M - 1
  PROVE  x % M = x
  BY SMT

------------------------------------------------------------------------------
(* Measuring.                                                              *)

\* The time measured is right or one short, whatever the wraps.
LEMMA DeltaValue ==
  ASSUME prev \in 0 .. Wrap - 1, NEW time \in Int
  PROVE  /\ (prev + time) % Wrap \in 0 .. Wrap - 1
         /\ \/ Delta((prev + time) % Wrap) = time % Wrap
            \/ Delta((prev + time) % Wrap) = (time - 1) % Wrap
  <1> DEFINE now == (prev + time) % Wrap
             r == time % Wrap
             s == (time - 1) % Wrap
  <1>1. Wrap \in Nat \ {0} /\ prev \in Int /\ prev \in (0 - Wrap) + 1 .. Wrap - 1
    BY Numbers, SMT
  <1>2. r \in 0 .. Wrap - 1
    BY <1>1, Division
  <1>3. prev + time = time + prev
    BY <1>1, SMT
  <1>4. now = IF r + prev >= Wrap THEN (r + prev) - Wrap
              ELSE IF r + prev < 0 THEN (r + prev) + Wrap ELSE r + prev
    BY <1>1, <1>3, Moved
  <1>5. s = IF r = 0 THEN Wrap - 1 ELSE r - 1
    <2>1. CASE Wrap = 1
      <3>1. s \in 0 .. 0 /\ r \in 0 .. 0
        <4>1. time - 1 \in Int
          BY SMT
        <4> QED BY <1>1, <1>2, <2>1, <4>1, Division, SMT
      <3> QED BY <2>1, <3>1, SMT
    <2>2. CASE Wrap # 1
      <3>1. 0 - 1 \in (0 - Wrap) + 1 .. Wrap - 1 /\ time + (0 - 1) = time - 1
        BY <1>1, <2>2, SMT
      <3>2. s = IF r + (0 - 1) >= Wrap THEN (r + (0 - 1)) - Wrap
                ELSE IF r + (0 - 1) < 0 THEN (r + (0 - 1)) + Wrap ELSE r + (0 - 1)
        BY <1>1, <3>1, Moved
      <3> HIDE DEF r, s
      <3> QED BY <1>1, <1>2, <3>2, SMT
    <2> QED BY <2>1, <2>2
  <1> HIDE DEF now, r, s
  <1>6. now \in 0 .. Wrap - 1
    BY <1>1, <1>2, <1>4, SMT
  <1>7. (IF now > prev THEN now - prev ELSE (Wrap - 1) - (prev - now)) \in {r, s}
    BY <1>1, <1>2, <1>4, <1>5, SMT
  <1>8. Delta(now) \in {r, s}
    BY <1>7 DEF Delta
  <1> QED BY <1>6, <1>8 DEF now, r, s

\* What the handler does on a symbol.
Acts(symbol) == \/ symbol = "START" /\ StartSymbol
                \/ symbol = "ERROR" /\ ErrorSymbol
                \/ symbol = "LONG" /\ BitSymbol(1)
                \/ symbol = "SHORT" /\ BitSymbol(0)

LEMMA PortActs ==
  ASSUME prev \in 0 .. Wrap - 1, NEW time \in Int, Port_1(time)
  PROVE  /\ prev' \in 0 .. Wrap - 1
         /\ \E short \in {0, 1} : Acts(Symbol((time - short) % Wrap))
  <1> DEFINE now == (prev + time) % Wrap
  <1>1. prev' = now /\ Acts(Symbol(Delta(now)))
    BY DEF Port_1, Acts
  <1>2. now \in 0 .. Wrap - 1
    BY DeltaValue
  <1>3. Delta(now) = time % Wrap \/ Delta(now) = (time - 1) % Wrap
    BY DeltaValue
  <1>4. time - 0 = time
    BY SMT
  <1> HIDE DEF now
  <1> QED BY <1>1, <1>2, <1>3, <1>4

\* The symbols stay apart.
LEMMA Symbols ==
  ASSUME NEW delta \in Int
  PROVE  /\ Symbol(delta) \in {"START", "LONG", "SHORT", "ERROR"}
         /\ Symbol(delta) = "START" <=> Near(delta, IR_SYMBOL_START)
         /\ Symbol(delta) = "LONG" <=> Near(delta, IR_SYMBOL_LONG)
         /\ Symbol(delta) = "SHORT" <=> Near(delta, IR_SYMBOL_SHORT)
  <1>1. /\ ~ (Near(delta, IR_SYMBOL_START) /\ Near(delta, IR_SYMBOL_LONG))
        /\ ~ (Near(delta, IR_SYMBOL_START) /\ Near(delta, IR_SYMBOL_SHORT))
        /\ ~ (Near(delta, IR_SYMBOL_LONG) /\ Near(delta, IR_SYMBOL_SHORT))
    BY Numbers, SMT DEF Near
  <1>2. CASE Near(delta, IR_SYMBOL_START)
    BY <1>1, <1>2 DEF Symbol
  <1>3. CASE Near(delta, IR_SYMBOL_LONG)
    BY <1>1, <1>3 DEF Symbol
  <1>4. CASE Near(delta, IR_SYMBOL_SHORT)
    BY <1>1, <1>4 DEF Symbol
  <1>5. CASE /\ ~ Near(delta, IR_SYMBOL_START) /\ ~ Near(delta, IR_SYMBOL_LONG)
             /\ ~ Near(delta, IR_SYMBOL_SHORT)
    BY <1>5 DEF Symbol
  <1> QED BY <1>2, <1>3, <1>4, <1>5

\* A time that the timer can hold is measured as it is, or one short.
LEMMA Measured ==
  ASSUME NEW time \in 1 .. Wrap - 1, NEW short \in {0, 1}
  PROVE  (time - short) % Wrap = time - short /\ time - short \in Int
  <1>1. time - short \in 0 .. Wrap - 1 /\ Wrap \in Nat \ {0}
    BY Numbers, SMT
  <1> QED BY <1>1, SmallRemainder, SMT

BitTime(b) == IF b = 1 THEN IR_SYMBOL_LONG ELSE IR_SYMBOL_SHORT
SymbolOf(b) == IF b = 1 THEN "LONG" ELSE "SHORT"

LEMMA StartOnTime ==
  ASSUME NEW d \in Drift, NEW short \in {0, 1}
  PROVE  Symbol(((IR_SYMBOL_START + d) - short) % Wrap) = "START"
  <1>1. IR_SYMBOL_START + d \in 1 .. Wrap - 1
    BY Numbers, Drifts, SMT
  <1>2. /\ ((IR_SYMBOL_START + d) - short) % Wrap = (IR_SYMBOL_START + d) - short
        /\ (IR_SYMBOL_START + d) - short \in Int
    BY <1>1, Measured
  <1>3. Near((IR_SYMBOL_START + d) - short, IR_SYMBOL_START)
    BY Numbers, Drifts, SMT DEF Near
  <1> QED BY <1>2, <1>3, Symbols

LEMMA BitOnTime ==
  ASSUME NEW b \in {0, 1}, NEW d \in Drift, NEW short \in {0, 1}
  PROVE  Symbol(((d + BitTime(b)) - short) % Wrap) = SymbolOf(b)
  <1>1. d + BitTime(b) \in 1 .. Wrap - 1
    BY Numbers, Drifts, SMT DEF BitTime
  <1>2. /\ ((d + BitTime(b)) - short) % Wrap = (d + BitTime(b)) - short
        /\ (d + BitTime(b)) - short \in Int
    BY <1>1, Measured
  <1>3. Near((d + BitTime(b)) - short, BitTime(b))
    BY Numbers, Drifts, SMT DEF Near, BitTime
  <1> QED BY <1>2, <1>3, Symbols DEF BitTime, SymbolOf

\* A burst within a bit is not taken for a start symbol, nor for a bit unless
\* the time of one has passed.
LEMMA CutBit ==
  ASSUME NEW b \in {0, 1}, NEW time \in 1 .. BitTime(b) - 1, NEW short \in {0, 1},
         NEW symbol, symbol = Symbol((time - short) % Wrap)
  PROVE  /\ symbol \in {"LONG", "SHORT", "ERROR"}
         /\ symbol = "LONG" => time > IR_SYMBOL_LONG - TOLERANCE
         /\ symbol = "SHORT" => time > IR_SYMBOL_SHORT - TOLERANCE
         /\ symbol = "LONG" => b = 1
  <1> DEFINE delta == time - short
  <1>1. time \in 1 .. Wrap - 1
    BY Numbers, SMT DEF BitTime
  <1>2. symbol = Symbol(delta) /\ delta \in Int
    BY <1>1, Measured
  <1>3. ~ Near(delta, IR_SYMBOL_START)
    BY Numbers, SMT DEF BitTime, Near
  <1>4. Near(delta, IR_SYMBOL_LONG) => time > IR_SYMBOL_LONG - TOLERANCE /\ b = 1
    BY Numbers, SMT DEF BitTime, Near
  <1>5. Near(delta, IR_SYMBOL_SHORT) => time > IR_SYMBOL_SHORT - TOLERANCE
    BY Numbers, SMT DEF BitTime, Near
  <1> HIDE DEF delta
  <1> QED BY <1>2, <1>3, <1>4, <1>5, Symbols

\* Nor is what remains of the bit, unless it was a long one and the burst not
\* near its end: then it may look like a short one.
LEMMA RestOfBit ==
  ASSUME NEW b \in {0, 1}, NEW d \in Drift, NEW time \in Int,
         time > IR_SYMBOL_SHORT - TOLERANCE,
         (d + BitTime(b)) - time > 0, NEW short \in {0, 1},
         NEW symbol, symbol = Symbol((((d + BitTime(b)) - time) - short) % Wrap)
  PROVE  /\ symbol \in {"SHORT", "ERROR"}
         /\ time > IR_SYMBOL_LONG - TOLERANCE \/ b = 0 => symbol = "ERROR"
  <1> DEFINE rest == (d + BitTime(b)) - time
             delta == rest - short
  <1>1. rest \in 1 .. Wrap - 1 /\ rest <= IR_SYMBOL_LONG - TOLERANCE
    BY Numbers, Drifts, SMT DEF BitTime
  <1>2. time > IR_SYMBOL_LONG - TOLERANCE \/ b = 0 => rest <= IR_SYMBOL_SHORT - TOLERANCE
    BY Numbers, Drifts, SMT DEF BitTime
  <1> HIDE DEF rest
  <1>3. symbol = Symbol(delta) /\ delta \in Int
    BY <1>1, Measured DEF rest
  <1>4. ~ Near(delta, IR_SYMBOL_START) /\ ~ Near(delta, IR_SYMBOL_LONG)
    BY <1>1, Numbers, SMT DEF Near
  <1>5. time > IR_SYMBOL_LONG - TOLERANCE \/ b = 0 => ~ Near(delta, IR_SYMBOL_SHORT)
    BY <1>1, <1>2, Numbers, SMT DEF Near
  <1> HIDE DEF delta
  <1> QED BY <1>3, <1>4, <1>5, Symbols

\* The same of the start symbol.
LEMMA CutStart ==
  ASSUME NEW time \in 1 .. IR_SYMBOL_START - 1, NEW short \in {0, 1},
         Symbol((time - short) % Wrap) = "START"
  PROVE  time > IR_SYMBOL_START - TOLERANCE
  <1> DEFINE delta == time - short
  <1>1. time \in 1 .. Wrap - 1
    BY Numbers, SMT
  <1>2. Symbol(delta) = "START" /\ delta \in Int
    BY <1>1, Measured
  <1>3. Near(delta, IR_SYMBOL_START) => time > IR_SYMBOL_START - TOLERANCE
    BY Numbers, SMT DEF Near
  <1> HIDE DEF delta
  <1> QED BY <1>2, <1>3, Symbols

LEMMA RestOfStart ==
  ASSUME NEW d \in Drift, NEW time \in Int, time > IR_SYMBOL_START - TOLERANCE,
         (IR_SYMBOL_START + d) - time > 0, NEW short \in {0, 1}
  PROVE  Symbol((((IR_SYMBOL_START + d) - time) - short) % Wrap) = "ERROR"
  <1> DEFINE rest == (IR_SYMBOL_START + d) - time
             delta == rest - short
  <1>1. rest \in 1 .. Wrap - 1 /\ rest <= IR_SYMBOL_SHORT - TOLERANCE
    BY Numbers, Drifts, SMT
  <1> HIDE DEF rest
  <1>2. (rest - short) % Wrap = delta /\ delta \in Int
    BY <1>1, Measured
  <1>3. /\ ~ Near(delta, IR_SYMBOL_START) /\ ~ Near(delta, IR_SYMBOL_LONG)
        /\ ~ Near(delta, IR_SYMBOL_SHORT)
    BY <1>1, Numbers, SMT DEF Near
  <1>4. Symbol(delta) = "ERROR"
    <2> HIDE DEF delta
    <2> QED BY <1>2, <1>3, Symbols
  <1> QED BY <1>2, <1>4 DEF rest

------------------------------------------------------------------------------
(* What a symbol does to the command collected.                            *)

\* A bit is taken, the last one with the command handed over.
Takes(b) ==
  /\ irBitCount < IR_BIT_COUNT
  /\ irCommand' = Shift(irCommand, b)
  /\ IF irBitCount + 1 = IR_BIT_COUNT
     THEN irBitCount' = Invalid /\ irReceivedCommand' = Shift(irCommand, b)
     ELSE irBitCount' = irBitCount + 1 /\ irReceivedCommand' = irReceivedCommand

LEMMA ShiftType ==
  ASSUME NEW command \in Commands, NEW b \in {0, 1}
  PROVE  Shift(command, b) \in Commands
  <1> USE Edges
  <1>1. ASSUME NEW i \in 1 .. IR_BIT_COUNT
        PROVE  (IF i < IR_BIT_COUNT THEN command[i + 1] ELSE b) \in {0, 1}
    BY SMT DEF Commands
  <1> QED BY <1>1 DEF Shift, Commands

LEMMA ZeroType == Zero \in Commands
  BY DEF Zero, Commands

LEMMA Outcome ==
  ASSUME TypeOK, NEW symbol, Acts(symbol)
  PROVE  /\ symbol = "START" => irBitCount' = 0 /\ irReceivedCommand' = irReceivedCommand
         /\ symbol = "ERROR" => /\ irBitCount' = Invalid
                                /\ irReceivedCommand' = irReceivedCommand
         /\ symbol \in {"LONG", "SHORT"} /\ irBitCount = Invalid
              => irBitCount' = Invalid /\ irReceivedCommand' = irReceivedCommand
         /\ symbol = "LONG" /\ irBitCount # Invalid => Takes(1)
         /\ symbol = "SHORT" /\ irBitCount # Invalid => Takes(0)
         /\ symbol \in {"START", "ERROR", "LONG", "SHORT"}
         /\ irCommand' \in Commands /\ irReceivedCommand' \in Commands
         /\ irBitCount' \in (0 .. Invalid) \ {IR_BIT_COUNT}
  <1>1. /\ irCommand \in Commands /\ irReceivedCommand \in Commands
        /\ irBitCount \in 0 .. IR_BIT_COUNT + 1 /\ irBitCount # IR_BIT_COUNT
    BY Edges DEF TypeOK
  <1>2. CASE symbol = "START"
    <2>1. irCommand' = Zero /\ irBitCount' = 0 /\ irReceivedCommand' = irReceivedCommand
      BY <1>2, Edges DEF Acts, StartSymbol, Deliver
    <2>2. 0 \in (0 .. Invalid) \ {IR_BIT_COUNT}
      BY Edges, SMT
    <2> QED BY <1>1, <1>2, <2>1, <2>2, ZeroType
  <1>3. CASE symbol = "ERROR"
    <2>1. Invalid # IR_BIT_COUNT /\ Invalid \in (0 .. Invalid) \ {IR_BIT_COUNT}
      BY Edges, SMT
    <2>2. /\ irCommand' = irCommand /\ irBitCount' = Invalid
          /\ irReceivedCommand' = irReceivedCommand
      BY <1>3, <2>1 DEF Acts, ErrorSymbol, Deliver
    <2> QED BY <1>1, <1>3, <2>1, <2>2
  <1>4. ASSUME NEW b \in {0, 1}, BitSymbol(b)
        PROVE  /\ irBitCount = Invalid
                    => irBitCount' = Invalid /\ irReceivedCommand' = irReceivedCommand
               /\ irBitCount # Invalid => Takes(b)
               /\ irCommand' \in Commands /\ irReceivedCommand' \in Commands
               /\ irBitCount' \in (0 .. Invalid) \ {IR_BIT_COUNT}
    <2>1. CASE irBitCount = Invalid
      <3>1. ~ (irBitCount <= IR_BIT_COUNT) /\ irBitCount # IR_BIT_COUNT
            /\ irBitCount \in (0 .. Invalid) \ {IR_BIT_COUNT}
        BY <2>1, Edges, SMT
      <3>2. irCommand' = irCommand /\ irBitCount' = irBitCount
            /\ irReceivedCommand' = irReceivedCommand
        BY <1>4, <3>1 DEF BitSymbol, Deliver
      <3> QED BY <1>1, <2>1, <3>1, <3>2
    <2>2. CASE irBitCount # Invalid
      <3>1. irBitCount <= IR_BIT_COUNT /\ irBitCount < IR_BIT_COUNT
        BY <1>1, <2>2, Edges, SMT
      <3>2. irCommand' = Shift(irCommand, b) /\ Deliver(irBitCount + 1, irCommand')
        BY <1>4, <3>1 DEF BitSymbol
      <3>3. Takes(b)
        BY <3>1, <3>2 DEF Takes, Deliver
      <3>4. Shift(irCommand, b) \in Commands
        BY <1>1, ShiftType
      <3>5. irBitCount' \in (0 .. Invalid) \ {IR_BIT_COUNT}
        <4>1. CASE irBitCount + 1 = IR_BIT_COUNT
          <5>1. irBitCount' = Invalid
            BY <3>3, <4>1 DEF Takes
          <5> QED BY <5>1, Edges, SMT
        <4>2. CASE irBitCount + 1 # IR_BIT_COUNT
          <5>1. irBitCount' = irBitCount + 1
            BY <3>3, <4>2 DEF Takes
          <5> QED BY <1>1, <3>1, <4>2, <5>1, Edges, SMT
        <4> QED BY <4>1, <4>2
      <3>6. irReceivedCommand' \in Commands
        BY <1>1, <3>3, <3>4 DEF Takes
      <3> QED BY <2>2, <3>2, <3>3, <3>4, <3>5, <3>6
    <2> QED BY <2>1, <2>2
  <1>5. CASE symbol = "LONG"
    <2>1. BitSymbol(1)
      BY <1>5 DEF Acts
    <2> QED BY <1>4, <1>5, <2>1
  <1>6. CASE symbol = "SHORT"
    <2>1. BitSymbol(0)
      BY <1>6 DEF Acts
    <2> QED BY <1>4, <1>6, <2>1
  <1> QED BY <1>2, <1>3, <1>5, <1>6 DEF Acts

\* One more bit of the word that is collected.
LEMMA ShiftCollects ==
  ASSUME NEW command \in Commands, NEW b \in {0, 1}, NEW word,
         NEW k \in 0 .. IR_BIT_COUNT - 1, Collects(command, k, word), b = word[k + 1]
  PROVE  Collects(Shift(command, b), k + 1, word)
  <1> SUFFICES ASSUME NEW i \in 1 .. k + 1
               PROVE  Shift(command, b)[(IR_BIT_COUNT - (k + 1)) + i] = word[i]
    BY DEF Collects
  <1> DEFINE j == (IR_BIT_COUNT - (k + 1)) + i
  <1>1. /\ j \in 1 .. IR_BIT_COUNT /\ j + 1 = (IR_BIT_COUNT - k) + i
        /\ (j < IR_BIT_COUNT => i \in 1 .. k)
        /\ (~ (j < IR_BIT_COUNT) => i = k + 1)
    BY Edges, SMT
  <1> HIDE DEF j
  <1>2. Shift(command, b)[j] = IF j < IR_BIT_COUNT THEN command[j + 1] ELSE b
    BY <1>1 DEF Shift
  <1>3. CASE j < IR_BIT_COUNT
    <2>1. command[(IR_BIT_COUNT - k) + i] = word[i]
      BY <1>1, <1>3 DEF Collects
    <2> QED BY <1>1, <1>2, <1>3, <2>1 DEF j
  <1>4. CASE ~ (j < IR_BIT_COUNT)
    BY <1>1, <1>2, <1>4 DEF j
  <1> QED BY <1>3, <1>4

\* Two words that agree on the first k bits.
LEMMA SameCollects ==
  ASSUME NEW command, NEW k \in Nat, NEW word, NEW other,
         Collects(command, k, word), \A i \in 1 .. k : word[i] = other[i]
  PROVE  Collects(command, k, other)
  BY DEF Collects

LEMMA AllCollected ==
  ASSUME NEW command \in Commands, NEW word \in Commands,
         Collects(command, IR_BIT_COUNT, word)
  PROVE  command = word
  <1>1. ASSUME NEW i \in 1 .. IR_BIT_COUNT PROVE command[i] = word[i]
    <2>1. (IR_BIT_COUNT - IR_BIT_COUNT) + i = i
      BY Edges, SMT
    <2> QED BY <2>1 DEF Collects
  <1>2. /\ command \in [1 .. IR_BIT_COUNT -> {0, 1}]
        /\ word \in [1 .. IR_BIT_COUNT -> {0, 1}]
    BY DEF Commands
  <1>3. /\ command = [i \in 1 .. IR_BIT_COUNT |-> command[i]]
        /\ word = [i \in 1 .. IR_BIT_COUNT |-> word[i]]
    BY <1>2
  <1>4. [i \in 1 .. IR_BIT_COUNT |-> command[i]] = [i \in 1 .. IR_BIT_COUNT |-> word[i]]
    BY <1>1
  <1> QED BY <1>3, <1>4

\* A bit taken for the next bit of a word.
LEMMA TakesNext ==
  ASSUME TypeOK, NEW b \in {0, 1}, Takes(b), NEW word,
         Collects(irCommand, irBitCount, word), b = word[irBitCount + 1]
  PROVE  /\ Collects(irCommand', irBitCount + 1, word)
         /\ irBitCount + 1 = IR_BIT_COUNT
              => irBitCount' = Invalid /\ (word \in Commands => irReceivedCommand' = word)
         /\ irBitCount + 1 # IR_BIT_COUNT
              => irBitCount' = irBitCount + 1 /\ irReceivedCommand' = irReceivedCommand
  <1>1. irCommand \in Commands /\ irBitCount \in 0 .. IR_BIT_COUNT - 1
    BY Edges, SMT DEF TypeOK, Takes
  <1>2. irCommand' = Shift(irCommand, b) /\ Shift(irCommand, b) \in Commands
    BY <1>1, ShiftType DEF Takes
  <1>3. Collects(irCommand', irBitCount + 1, word)
    BY <1>1, <1>2, ShiftCollects
  <1>4. CASE irBitCount + 1 = IR_BIT_COUNT
    <2>1. irBitCount' = Invalid /\ irReceivedCommand' = irCommand'
      BY <1>2, <1>4 DEF Takes
    <2>2. word \in Commands => irCommand' = word
      BY <1>2, <1>3, <1>4, AllCollected
    <2> QED BY <1>3, <1>4, <2>1, <2>2
  <1>5. CASE irBitCount + 1 # IR_BIT_COUNT
    BY <1>3, <1>5 DEF Takes
  <1> QED BY <1>4, <1>5

------------------------------------------------------------------------------
(* The remote control.                                                     *)

LEMMA IntervalValue ==
  ASSUME TypeOK, NEW d \in Int
  PROVE  /\ next = First => Interval(d) = Pause
         /\ next = Start => Interval(d) = IR_SYMBOL_START + d
         /\ next > Start => /\ next - 1 \in 1 .. IR_BIT_COUNT
                            /\ bits[next - 1] \in {0, 1}
                            /\ Interval(d) = d + BitTime(bits[next - 1])
         /\ next \in Int /\ (next = First \/ next = Start \/ next > Start)
         /\ Interval(d) \in Int
  <1>1. next \in 0 .. IR_BIT_COUNT + 1 /\ bits \in Commands
    BY Edges DEF TypeOK
  <1>2. First # Start /\ (next > Start => next # First /\ next # Start)
        /\ next \in Int /\ (next = First \/ next = Start \/ next > Start)
    BY <1>1, Edges, SMT
  <1>3. CASE next = First
    <2>1. Interval(d) = Pause /\ ~ (next > Start)
      BY <1>2, <1>3 DEF Interval
    <2>2. Pause \in Int
      BY Numbers, SMT
    <2> QED BY <1>2, <1>3, <2>1, <2>2
  <1>4. CASE next = Start
    <2>1. Interval(d) = IR_SYMBOL_START + d /\ ~ (next > Start)
      BY <1>2, <1>4 DEF Interval
    <2>2. IR_SYMBOL_START + d \in Int
      BY Numbers, SMT
    <2> QED BY <1>2, <1>4, <2>1, <2>2
  <1>5. CASE next > Start
    <2>1. Interval(d) = d + BitTime(bits[next - 1])
      BY <1>2, <1>5 DEF Interval, BitTime
    <2>2. next - 1 \in 1 .. IR_BIT_COUNT
      BY <1>1, <1>5, Edges, SMT
    <2>3. bits[next - 1] \in {0, 1}
      BY <1>1, <2>2 DEF Commands
    <2>4. BitTime(bits[next - 1]) \in Int
      BY Numbers DEF BitTime
    <2>5. d + BitTime(bits[next - 1]) \in Int
      BY <2>4, SMT
    <2> QED BY <1>2, <1>5, <2>1, <2>2, <2>3, <2>5
  <1> QED BY <1>2, <1>3, <1>4, <1>5

LEMMA AdvanceValue ==
  ASSUME TypeOK, RemoteType, NEW calmness \in 0 .. 2, Advance(calmness)
  PROVE  /\ next = FinalEdge => /\ next' = First
                                /\ calm' = IF calmness < 2 THEN calmness + 1 ELSE 2
         /\ next # FinalEdge => next' = next + 1 /\ bits' = bits /\ calm' = calmness
         /\ begun' = IF next = First /\ begun < 2 THEN begun + 1 ELSE begun
         /\ next' \in First .. FinalEdge /\ bits' \in Commands
         /\ calm' \in 0 .. 2 /\ begun' \in 0 .. 2
  <1>1. next \in First .. FinalEdge /\ bits \in Commands /\ begun \in 0 .. 2
    BY DEF TypeOK, RemoteType
  <1>2. begun' = IF next = First /\ begun < 2 THEN begun + 1 ELSE begun
    BY DEF Advance
  <1>3. begun' \in 0 .. 2
    BY <1>1, <1>2, SMT
  <1>4. CASE next = FinalEdge
    <2>1. next' = First /\ bits' \in Commands
          /\ calm' = IF calmness < 2 THEN calmness + 1 ELSE 2
      BY <1>4 DEF Advance
    <2>2. First \in First .. FinalEdge
      BY Edges, SMT
    <2>3. calm' \in 0 .. 2
      BY <2>1, SMT
    <2> QED BY <1>2, <1>3, <1>4, <2>1, <2>2, <2>3
  <1>5. CASE next # FinalEdge
    <2>1. next' = next + 1 /\ bits' = bits /\ calm' = calmness
      BY <1>5 DEF Advance
    <2>2. next + 1 \in First .. FinalEdge
      BY <1>1, <1>5, Edges, SMT
    <2> QED BY <1>1, <1>2, <1>3, <1>5, <2>1, <2>2
  <1> QED BY <1>4, <1>5

LEMMA InitIInv == Init => IInv
  <1> SUFFICES ASSUME Init PROVE IInv
    OBVIOUS
  <1>1. 0 \in (0 .. Invalid) \ {IR_BIT_COUNT}
    BY Edges, SMT
  <1>2. 0 \in 0 .. Wrap - 1 /\ late \in Int
    BY Numbers, SMT DEF Init
  <1>3. TypeOK /\ RemoteType
    BY <1>1, <1>2, ZeroType DEF Init, TypeOK, RemoteType
  <1> QED BY <1>3 DEF Init, IInv, Progress

LEMMA TypeKeeps == IInv /\ [Next]_vars => TypeOK' /\ RemoteType'
  <1> SUFFICES ASSUME IInv, [Next]_vars PROVE TypeOK' /\ RemoteType'
    OBVIOUS
  <1>0. TypeOK /\ RemoteType
    BY DEF IInv
  <1>1. ASSUME NEW time \in Int, Port_1(time),
               next' \in First .. FinalEdge, bits' \in Commands
        PROVE  TypeOK'
    <2>1. prev' \in 0 .. Wrap - 1 /\ \E short \in {0, 1} : Acts(Symbol((time - short) % Wrap))
      BY <1>0, <1>1, PortActs DEF TypeOK
    <2>2. PICK short \in {0, 1} : Acts(Symbol((time - short) % Wrap))
      BY <2>1
    <2>3. /\ irCommand' \in Commands /\ irReceivedCommand' \in Commands
          /\ irBitCount' \in (0 .. Invalid) \ {IR_BIT_COUNT}
      BY <1>0, <2>2, Outcome
    <2> QED BY <1>1, <2>1, <2>3 DEF TypeOK
  <1>2. CASE Main \/ UNCHANGED vars
    BY <1>0, <1>2, ZeroType DEF Main, vars, device, remote, TypeOK, RemoteType
  <1>3. CASE Burst
    <2>1. PICK d \in Drift : /\ Port_1(late + Interval(d))
                            /\ Advance(calm) /\ late' = 0
      BY <1>3 DEF Burst
    <2>2. d \in Int
      BY Drifts, SMT
    <2>3. Interval(d) \in Int
      BY <1>0, <2>2, IntervalValue
    <2>4. late + Interval(d) \in Int /\ 0 \in Int
      BY <1>0, <2>3, SMT DEF RemoteType
    <2>5. /\ next' \in First .. FinalEdge /\ bits' \in Commands
          /\ calm' \in 0 .. 2 /\ begun' \in 0 .. 2
      BY <1>0, <2>1, AdvanceValue DEF RemoteType
    <2> QED BY <1>1, <2>1, <2>4, <2>5 DEF RemoteType
  <1>4. CASE LoseBurst
    <2>1. UNCHANGED device /\ Advance(0) /\ late' = (late + Interval(0)) % Wrap
      BY <1>4 DEF LoseBurst
    <2>2. 0 \in Int /\ 0 \in 0 .. 2 /\ Wrap \in Nat \ {0}
      BY Numbers, SMT
    <2>3. late + Interval(0) \in Int
      <3>1. Interval(0) \in Int
        BY <1>0, <2>2, IntervalValue
      <3> QED BY <1>0, <3>1, SMT DEF RemoteType
    <2>4. late' \in Int
      <3>1. late' \in 0 .. Wrap - 1
        BY <2>1, <2>2, <2>3, Division
      <3> QED BY <3>1, SMT
    <2>5. /\ next' \in First .. FinalEdge /\ bits' \in Commands
          /\ calm' \in 0 .. 2 /\ begun' \in 0 .. 2
      BY <1>0, <2>1, <2>2, AdvanceValue
    <2> QED BY <1>0, <2>1, <2>4, <2>5 DEF TypeOK, RemoteType, device
  <1>5. CASE AddBurst
    <2>1. PICK time \in 1 .. Interval(0) - 1 : Port_1(late + time) /\ late' = - time
      BY <1>5 DEF AddBurst
    <2>2. calm' = 0 /\ next' = next /\ bits' = bits /\ begun' = begun
      BY <1>5 DEF AddBurst
    <2>3. late + time \in Int /\ - time \in Int /\ 0 \in 0 .. 2
      BY <1>0, SMT DEF RemoteType
    <2>4. TypeOK'
      BY <1>0, <1>1, <2>1, <2>2, <2>3 DEF TypeOK
    <2> QED BY <1>0, <2>1, <2>2, <2>3, <2>4 DEF RemoteType
  <1> QED BY <1>2, <1>3, <1>4, <1>5 DEF Next

------------------------------------------------------------------------------
(* What a step hands over.                                                 *)

\* The two action properties, for one step.
Received == next = FinalEdge /\ late' = 0 /\ begun > 0 /\ calm > 0 /\ next' = First
              => irReceivedCommand' = bits

Honest == begun = 2 /\ irReceivedCommand' \notin {Zero, irReceivedCommand}
            => OwnCommand \/ HalvedCommand

\* A burst seen, d late.
Seen(d) == /\ \E short \in {0, 1} : Acts(Symbol(((late + Interval(d)) - short) % Wrap))
           /\ Advance(calm) /\ late' = 0 /\ late + Interval(d) > 0

LEMMA BurstIsSeen ==
  ASSUME IInv, Burst
  PROVE  \E d \in Drift : Seen(d)
  <1>1. PICK d \in Drift : /\ late + Interval(d) > 0 /\ Port_1(late + Interval(d))
                          /\ Advance(calm) /\ late' = 0
    BY DEF Burst
  <1>2. d \in Int
    BY Drifts, SMT
  <1>3. Interval(d) \in Int
    BY <1>2, IntervalValue DEF IInv
  <1>4. late + Interval(d) \in Int
    BY <1>3, SMT DEF IInv, RemoteType
  <1>5. \E short \in {0, 1} : Acts(Symbol(((late + Interval(d)) - short) % Wrap))
    BY <1>1, <1>4, PortActs DEF IInv, TypeOK
  <1> QED BY <1>1, <1>5 DEF Seen

LEMMA BurstAtFirst ==
  ASSUME IInv, NEW d \in Drift, Seen(d), next = First
  PROVE  Progress' /\ Received /\ Honest
  <1>1. TypeOK /\ RemoteType /\ Progress
    BY DEF IInv
  <1>2. PICK short \in {0, 1} : Acts(Symbol(((late + Interval(d)) - short) % Wrap))
    BY DEF Seen
  <1>3. Interval(d) = Pause
    <2>1. d \in Int
      BY Drifts, SMT
    <2> QED BY <1>1, <2>1, IntervalValue
  <1>4. First # FinalEdge /\ First + 1 = Start /\ Start # First /\ ~ (Start > Start)
    BY Edges, SMT
  <1>5. /\ next' = Start /\ calm' = calm /\ late' = 0
        /\ begun' = IF begun < 2 THEN begun + 1 ELSE begun
    BY <1>1, <1>4, AdvanceValue DEF Seen, RemoteType
  <1>6. begun \in 0 .. 2 /\ calm \in 0 .. 2
    BY <1>1 DEF RemoteType
  <1>7. /\ irBitCount' \in (0 .. Invalid) \ {IR_BIT_COUNT}
    BY <1>1, <1>2, Outcome
  <1>8. CASE begun = 0
    <2>1. begun' = 1
      BY <1>5, <1>8
    <2>2. calm > 0 => AtStart'
      BY <1>5, <1>6, <2>1, SMT DEF AtStart
    <2>3. Progress'
      BY <1>4, <1>5, <2>1, <2>2 DEF Progress
    <2> QED BY <1>4, <1>5, <1>8, <2>3 DEF Received, Honest
  <1>9. CASE begun > 0
    <2>1. AtFirst
      BY <1>1, <1>9 DEF Progress
    <2>2. CASE calm = 0
      <3>1. irBitCount = Invalid \/ irBitCount = 0
        BY <2>1, <2>2 DEF AtFirst
      <3>2. irBitCount' \in {Invalid, 0, 1} /\ irReceivedCommand' = irReceivedCommand
        <4>1. CASE irBitCount = Invalid
          BY <1>1, <1>2, <4>1, Outcome
        <4>2. CASE irBitCount = 0
          <5>1. 0 # Invalid /\ 0 + 1 # IR_BIT_COUNT /\ 0 + 1 = 1
            BY Edges, SMT
          <5>2. ASSUME NEW b, Takes(b)
                PROVE  irBitCount' = 1 /\ irReceivedCommand' = irReceivedCommand
            BY <4>2, <5>1, <5>2 DEF Takes
          <5> QED BY <1>1, <1>2, <4>2, <5>1, <5>2, Outcome
        <4> QED BY <3>1, <4>1, <4>2
      <3>3. AtStart'
        BY <1>5, <2>2, <3>2 DEF AtStart
      <3> QED BY <1>4, <1>5, <3>2, <3>3 DEF Progress, Received, Honest
    <2>3. CASE calm # 0
      <3>1. late \in {0, IR_SYMBOL_LONG, IR_SYMBOL_SHORT}
        BY <2>1, <2>3 DEF AtFirst
      <3>2. Symbol(((late + Interval(d)) - short) % Wrap) = "ERROR"
        BY <1>3, <3>1, PauseAssumption
      <3>3. irBitCount' = Invalid /\ irReceivedCommand' = irReceivedCommand
        BY <1>1, <1>2, <3>2, Outcome
      <3>4. AtStart'
        BY <1>5, <2>3, <3>3 DEF AtStart
      <3> QED BY <1>4, <1>5, <3>3, <3>4 DEF Progress, Received, Honest
    <2> QED BY <2>2, <2>3
  <1> QED BY <1>6, <1>8, <1>9, SMT

LEMMA CollectsNothing == ASSUME NEW command, NEW word PROVE Collects(command, 0, word)
  BY DEF Collects

LEMMA BurstAtStart ==
  ASSUME IInv, NEW d \in Drift, Seen(d), next = Start
  PROVE  Progress' /\ Received /\ Honest
  <1>1. TypeOK /\ RemoteType /\ Progress
    BY DEF IInv
  <1>2. PICK short \in {0, 1} : Acts(Symbol(((late + Interval(d)) - short) % Wrap))
    BY DEF Seen
  <1>3. Interval(d) = IR_SYMBOL_START + d
    <2>1. d \in Int
      BY Drifts, SMT
    <2> QED BY <1>1, <2>1, IntervalValue
  <1>4. Start # FinalEdge /\ Start + 1 = 2 /\ 2 # First /\ 2 # Start /\ 2 > Start
        /\ Start # First /\ 2 - 2 = 0
    BY Edges, SMT
  <1>5. next' = 2 /\ calm' = calm /\ late' = 0 /\ begun' = begun
    BY <1>1, <1>4, AdvanceValue DEF Seen, RemoteType
  <1>6. Received
    BY <1>4 DEF Received
  <1>7. calm \in 0 .. 2 /\ late \in Int /\ begun \in 0 .. 2
    BY <1>1 DEF RemoteType
  <1>8. late = 0 => Symbol(((late + Interval(d)) - short) % Wrap) = "START"
    <2>1. IR_SYMBOL_START + d \in Int
      BY Numbers, Drifts, SMT
    <2>2. 0 + (IR_SYMBOL_START + d) = IR_SYMBOL_START + d
      BY <2>1, SMT
    <2> QED BY <1>3, <2>2, StartOnTime
  <1>9. late = 0 => Collected(0)' /\ irReceivedCommand' = irReceivedCommand
    BY <1>1, <1>2, <1>8, Outcome, CollectsNothing DEF Collected
  <1>10. CASE ~ (begun > 0 /\ (calm > 0 \/ begun = 2))
    <2>1. begun # 2
      BY <1>7, <1>10, SMT
    <2>2. Progress'
      BY <1>4, <1>5, <1>10 DEF Progress
    <2> QED BY <1>6, <2>1, <2>2 DEF Honest
  <1>11. CASE begun > 0 /\ (calm > 0 \/ begun = 2)
    <2>1. AtStart
      BY <1>1, <1>11 DEF Progress
    <2>2. CASE calm = 0
      <3>1. /\ irReceivedCommand' = irReceivedCommand
            /\ irBitCount' = Invalid \/ Collected(0)'
        <4>1. CASE irBitCount = Invalid
          BY <1>1, <1>2, <4>1, Outcome, CollectsNothing DEF Collected
        <4>2. CASE late = 0
          BY <1>9, <4>2
        <4>3. CASE irBitCount = 0 /\ - late > IR_SYMBOL_START - TOLERANCE
          <5> DEFINE time == - late
          <5>1. /\ time \in Int /\ time > IR_SYMBOL_START - TOLERANCE
                /\ late + Interval(d) = (IR_SYMBOL_START + d) - time
            BY <1>3, <1>7, <4>3, Numbers, Drifts, SMT
          <5>2. (IR_SYMBOL_START + d) - time > 0
            BY <5>1 DEF Seen
          <5> HIDE DEF time
          <5>3. Symbol((((IR_SYMBOL_START + d) - time) - short) % Wrap) = "ERROR"
            BY <5>1, <5>2, RestOfStart
          <5>4. Symbol(((late + Interval(d)) - short) % Wrap) = "ERROR"
            BY <5>1, <5>3
          <5> QED BY <1>1, <1>2, <5>4, Outcome
        <4> QED BY <2>1, <2>2, <4>1, <4>2, <4>3 DEF AtStart
      <3>2. AtBit'
        BY <1>4, <1>5, <2>2, <3>1 DEF AtBit
      <3> QED BY <1>4, <1>5, <1>6, <3>1, <3>2 DEF Progress, Honest
    <2>3. CASE calm # 0
      <3>1. late = 0
        BY <2>1, <2>3 DEF AtStart
      <3>2. AtBit'
        BY <1>4, <1>5, <1>9, <2>3, <3>1 DEF AtBit
      <3> QED BY <1>4, <1>5, <1>6, <1>9, <3>1, <3>2 DEF Progress, Honest
    <2> QED BY <2>2, <2>3
  <1> QED BY <1>10, <1>11

\* An interval measured from its own beginning gives its bit.
LEMMA BitIsTaken ==
  ASSUME TypeOK, NEW d \in Drift, next > Start, late = 0, irBitCount < IR_BIT_COUNT,
         NEW short \in {0, 1}, Acts(Symbol(((late + Interval(d)) - short) % Wrap))
  PROVE  bits[next - 1] \in {0, 1} /\ Takes(bits[next - 1])
  <1> DEFINE b == bits[next - 1]
             symbol == Symbol(((late + Interval(d)) - short) % Wrap)
  <1>1. d \in Int
    BY Drifts, SMT
  <1>2. b \in {0, 1} /\ Interval(d) = d + BitTime(b) /\ Interval(d) \in Int
    BY <1>1, IntervalValue
  <1>3. late + Interval(d) = Interval(d)
    BY <1>2, SMT
  <1>4. symbol = SymbolOf(b)
    BY <1>2, <1>3, BitOnTime
  <1>5. irBitCount # Invalid
    BY Edges, SMT DEF TypeOK
  <1>6. Acts(symbol)
    OBVIOUS
  <1> HIDE DEF symbol, b
  <1>7. CASE b = 1
    <2>1. symbol = "LONG"
      BY <1>4, <1>7 DEF SymbolOf
    <2> QED BY <1>2, <1>5, <1>6, <1>7, <2>1, Outcome DEF b
  <1>8. CASE b = 0
    <2>1. symbol = "SHORT"
      BY <1>4, <1>8 DEF SymbolOf
    <2> QED BY <1>2, <1>5, <1>6, <1>8, <2>1, Outcome DEF b
  <1> QED BY <1>2, <1>7, <1>8

\* The next bit of the command, or the command.
LEMMA RightBit ==
  ASSUME TypeOK, NEW d \in Drift, next > Start, late = 0, Collected(next - 2),
         NEW short \in {0, 1}, Acts(Symbol(((late + Interval(d)) - short) % Wrap))
  PROVE  /\ next = FinalEdge => irBitCount' = Invalid /\ irReceivedCommand' = bits
         /\ next # FinalEdge => /\ irBitCount' = next - 1
                                /\ Collects(irCommand', next - 1, bits)
                                /\ irReceivedCommand' = irReceivedCommand
  <1>1. /\ irBitCount = next - 2 /\ irBitCount < IR_BIT_COUNT
        /\ irBitCount + 1 = next - 1
        /\ (next = FinalEdge <=> irBitCount + 1 = IR_BIT_COUNT)
    BY Edges, SMT DEF TypeOK, Collected
  <1>2. bits[next - 1] \in {0, 1} /\ Takes(bits[next - 1])
    BY <1>1, BitIsTaken
  <1>3. Collects(irCommand, irBitCount, bits)
    BY <1>1 DEF Collected
  <1>4. bits \in Commands
    BY DEF TypeOK
  <1> QED BY <1>1, <1>2, <1>3, <1>4, TakesNext

\* A count too low stays too low.
LEMMA CountStaysLow ==
  ASSUME TypeOK, next > Start, irBitCount <= next - 3, NEW symbol, Acts(symbol)
  PROVE  /\ irReceivedCommand' = irReceivedCommand
         /\ irBitCount' = Invalid \/ irBitCount' <= (next + 1) - 3
  <1>1. /\ irBitCount # Invalid /\ irBitCount + 1 # IR_BIT_COUNT
        /\ 0 <= (next + 1) - 3 /\ irBitCount + 1 <= (next + 1) - 3
    BY Edges, SMT DEF TypeOK
  <1>2. ASSUME NEW b, Takes(b)
        PROVE  /\ irReceivedCommand' = irReceivedCommand
               /\ irBitCount' <= (next + 1) - 3
    BY <1>1, <1>2 DEF Takes
  <1> QED BY <1>1, <1>2, Outcome

\* What Halved(i) is, bit by bit.
LEMMA HalvedValue ==
  ASSUME TypeOK, NEW i \in 1 .. IR_BIT_COUNT - 1
  PROVE  /\ Halved(i) \in Commands
         /\ \A k \in 1 .. IR_BIT_COUNT :
              Halved(i)[k] = IF k < i THEN bits[k]
                             ELSE IF k <= i + 1 THEN 0 ELSE bits[k - 1]
  <1>1. ASSUME NEW k \in 1 .. IR_BIT_COUNT
        PROVE  (IF k < i THEN bits[k] ELSE IF k <= i + 1 THEN 0 ELSE bits[k - 1]) \in {0, 1}
    <2>1. k < i \/ k <= i + 1 \/ k - 1 \in 1 .. IR_BIT_COUNT
      BY Edges, SMT
    <2>2. \A j \in 1 .. IR_BIT_COUNT : bits[j] \in {0, 1}
      BY DEF TypeOK, Commands
    <2> QED BY <2>1, <2>2
  <1> QED BY <1>1 DEF Halved, Commands

\* The rest of an interval that was cut: no bit, or the second 0 for a 1.
LEMMA CutIsSeen ==
  ASSUME TypeOK, RemoteType, NEW d \in Drift, next > Start, CutShort,
         NEW short \in {0, 1}, Acts(Symbol(((late + Interval(d)) - short) % Wrap)),
         late + Interval(d) > 0
  PROVE  \/ irBitCount' = Invalid /\ irReceivedCommand' = irReceivedCommand
         \/ /\ next = IR_BIT_COUNT /\ irBitCount' = Invalid
            /\ bits[next - 1] = 1 /\ irReceivedCommand' = Halved(next - 1)
         \/ /\ next < IR_BIT_COUNT /\ irBitCount' = next
            /\ irReceivedCommand' = irReceivedCommand
            /\ bits[next - 1] = 1 /\ Collects(irCommand', next, Halved(next - 1))
  <1> DEFINE b == bits[next - 1]
             time == - late
             symbol == Symbol(((late + Interval(d)) - short) % Wrap)
  <1>1. d \in Int
    BY Drifts, SMT
  <1>2. b \in {0, 1} /\ Interval(d) = d + BitTime(b) /\ d + BitTime(b) \in Int
    BY <1>1, IntervalValue
  <1>3. time \in Int /\ late + Interval(d) = (d + BitTime(b)) - time
    <2> HIDE DEF b
    <2> QED BY <1>2, SMT DEF RemoteType
  <1>4. time > IR_SYMBOL_SHORT - TOLERANCE
    BY <1>3, Numbers, SMT DEF CutShort
  <1>5. (d + BitTime(b)) - time > 0 /\ symbol = Symbol((((d + BitTime(b)) - time) - short) % Wrap)
    BY <1>3
  <1>6. Acts(symbol)
    OBVIOUS
  <1>7. time > IR_SYMBOL_LONG - TOLERANCE
        \/ Collects(irCommand, next - 1, [bits EXCEPT ![next - 1] = 0])
    BY DEF CutShort
  <1>8. next < FinalEdge /\ irBitCount = next - 1
    BY DEF CutShort
  <1> HIDE DEF b, time, symbol
  <1>9. /\ symbol \in {"SHORT", "ERROR"}
        /\ time > IR_SYMBOL_LONG - TOLERANCE \/ b = 0 => symbol = "ERROR"
    BY <1>2, <1>3, <1>4, <1>5, RestOfBit
  <1>10. CASE symbol = "ERROR"
    BY <1>6, <1>10, Outcome
  <1>11. CASE symbol = "SHORT"
    <2>1. b = 1 /\ Collects(irCommand, next - 1, [bits EXCEPT ![next - 1] = 0])
      BY <1>2, <1>7, <1>9, <1>11
    <2>2. /\ irBitCount # Invalid /\ next - 1 \in 1 .. IR_BIT_COUNT - 1
          /\ next - 1 \in Nat /\ next = (next - 1) + 1 /\ next \in 1 .. IR_BIT_COUNT
      BY <1>8, Edges, SMT DEF TypeOK
    <2>3. Takes(0)
      BY <1>6, <1>11, <2>2, Outcome
    <2>4. /\ Halved(next - 1) \in Commands
          /\ \A k \in 1 .. IR_BIT_COUNT :
               Halved(next - 1)[k] = IF k < next - 1 THEN bits[k]
                                     ELSE IF k <= (next - 1) + 1 THEN 0 ELSE bits[k - 1]
      BY <2>2, HalvedValue
    <2>5. ASSUME NEW k \in 1 .. next - 1
          PROVE  [bits EXCEPT ![next - 1] = 0][k] = Halved(next - 1)[k]
      <3>1. k \in 1 .. IR_BIT_COUNT /\ (k < next - 1 \/ k = next - 1)
            /\ (k = next - 1 => ~ (k < next - 1) /\ k <= (next - 1) + 1)
            /\ (k < next - 1 => k # next - 1)
        BY <2>2, Edges, SMT
      <3>2. bits \in [1 .. IR_BIT_COUNT -> {0, 1}]
        BY DEF TypeOK, Commands
      <3>3. [bits EXCEPT ![next - 1] = 0][k] = IF k = next - 1 THEN 0 ELSE bits[k]
        BY <3>1, <3>2
      <3> QED BY <2>4, <3>1, <3>3
    <2>6. Halved(next - 1)[next] = 0
      <3>1. ~ (next < next - 1) /\ next <= (next - 1) + 1
        BY <2>2, SMT
      <3> QED BY <2>2, <2>4, <3>1
    <2>7. Collects(irCommand, irBitCount, Halved(next - 1))
      BY <1>8, <2>1, <2>2, <2>5, SameCollects
    <2>8. /\ Collects(irCommand', irBitCount + 1, Halved(next - 1))
          /\ irBitCount + 1 = IR_BIT_COUNT
                => irBitCount' = Invalid /\ irReceivedCommand' = Halved(next - 1)
          /\ irBitCount + 1 # IR_BIT_COUNT
                => irBitCount' = irBitCount + 1 /\ irReceivedCommand' = irReceivedCommand
      <3>1. 0 = Halved(next - 1)[irBitCount + 1]
        BY <1>8, <2>2, <2>6
      <3> QED BY <2>3, <2>4, <2>7, <3>1, TakesNext
    <2>9. irBitCount + 1 = next /\ (next = IR_BIT_COUNT \/ next < IR_BIT_COUNT)
          /\ (next < IR_BIT_COUNT => next # IR_BIT_COUNT)
      BY <1>8, <2>2, Edges, SMT
    <2> QED BY <2>1, <2>8, <2>9 DEF b
  <1> QED BY <1>9, <1>10, <1>11

\* Two 0s for a 1: the next bit is taken all the same.
LEMMA OneAhead ==
  ASSUME TypeOK, NEW d \in Drift, next > Start, late = 0, next < FinalEdge,
         irBitCount = next - 1, NEW i \in 1 .. next - 2,
         Collects(irCommand, next - 1, Halved(i)),
         NEW short \in {0, 1}, Acts(Symbol(((late + Interval(d)) - short) % Wrap))
  PROVE  \/ /\ next = IR_BIT_COUNT /\ irBitCount' = Invalid
            /\ irReceivedCommand' = Halved(i)
         \/ /\ next < IR_BIT_COUNT /\ irBitCount' = next
            /\ irReceivedCommand' = irReceivedCommand
            /\ Collects(irCommand', next, Halved(i))
  <1>1. /\ irBitCount < IR_BIT_COUNT /\ irBitCount + 1 = next /\ i \in 1 .. IR_BIT_COUNT - 1
        /\ next \in 1 .. IR_BIT_COUNT /\ (next = IR_BIT_COUNT \/ next < IR_BIT_COUNT)
        /\ (next < IR_BIT_COUNT => next # IR_BIT_COUNT)
        /\ ~ (next < i) /\ ~ (next <= i + 1)
    BY Edges, SMT DEF TypeOK
  <1>2. bits[next - 1] \in {0, 1} /\ Takes(bits[next - 1])
    BY <1>1, BitIsTaken
  <1>3. Halved(i) \in Commands /\ Halved(i)[next] = bits[next - 1]
    BY <1>1, HalvedValue
  <1>4. Collects(irCommand, irBitCount, Halved(i)) /\ bits[next - 1] = Halved(i)[irBitCount + 1]
    BY <1>1, <1>3
  <1> QED BY <1>1, <1>2, <1>3, <1>4, TakesNext

\* The cases of a command that is disturbed.
LEMMA DisturbedBit ==
  ASSUME TypeOK, RemoteType, NEW d \in Drift, Seen(d), next > Start, calm = 0, AtBit
  PROVE  (next # FinalEdge => AtBit') /\ Honest
  <1>1. PICK short \in {0, 1} : Acts(Symbol(((late + Interval(d)) - short) % Wrap))
    BY DEF Seen
  <1>2. late' = 0 /\ late + Interval(d) > 0
    BY DEF Seen
  <1>3. next # FinalEdge => next' = next + 1 /\ bits' = bits /\ calm' = 0
    BY AdvanceValue DEF Seen, RemoteType
  <1>4. irReceivedCommand' = irReceivedCommand => Honest
    BY DEF Honest
  <1>5. /\ next \in Int /\ (next + 1) - 2 = next - 1 /\ (next + 1) - 1 = next
        /\ next < FinalEdge => next # FinalEdge
        /\ IR_BIT_COUNT # FinalEdge /\ IR_BIT_COUNT = FinalEdge - 1
        /\ next < IR_BIT_COUNT => next + 1 < FinalEdge
    BY Edges, SMT DEF TypeOK
  <1>6. irBitCount' = Invalid /\ next # FinalEdge => AtBit'
    BY <1>3 DEF AtBit
  <1>7. CASE irBitCount = Invalid
    <2>1. /\ irReceivedCommand' = irReceivedCommand
          /\ irBitCount' = Invalid \/ irBitCount' = 0
      BY <1>1, <1>7, Outcome
    <2>2. 0 <= (next + 1) - 3
      BY <1>5, Edges, SMT
    <2>3. irBitCount' = 0 /\ next # FinalEdge => AtBit'
      BY <1>3, <2>2 DEF AtBit
    <2> QED BY <1>4, <1>6, <2>1, <2>3
  <1>8. CASE irBitCount <= next - 3
    <2>1. /\ irReceivedCommand' = irReceivedCommand
          /\ irBitCount' = Invalid \/ irBitCount' <= (next + 1) - 3
      BY <1>1, <1>8, CountStaysLow
    <2>2. irBitCount' <= (next + 1) - 3 /\ next # FinalEdge => AtBit'
      BY <1>3 DEF AtBit
    <2> QED BY <1>4, <1>6, <2>1, <2>2
  <1>9. CASE late = 0 /\ Collected(next - 2)
    <2>1. /\ next = FinalEdge => irBitCount' = Invalid /\ irReceivedCommand' = bits
          /\ next # FinalEdge => /\ irBitCount' = next - 1
                                 /\ Collects(irCommand', next - 1, bits)
                                 /\ irReceivedCommand' = irReceivedCommand
      BY <1>1, <1>9, RightBit
    <2>2. next # FinalEdge => Collected(next - 2)'
      BY <1>3, <1>5, <2>1 DEF Collected
    <2>3. next # FinalEdge => AtBit'
      BY <1>2, <1>3, <2>2 DEF AtBit
    <2>4. next = FinalEdge => Honest
      BY <2>1 DEF Honest, OwnCommand
    <2> QED BY <1>4, <2>1, <2>3, <2>4
  <1>10. CASE CutShort
    <2>1. next < FinalEdge /\ next # FinalEdge /\ next - 1 \in 1 .. (next + 1) - 2
          /\ next - 1 \in 1 .. IR_BIT_COUNT - 1
      BY <1>10, <1>5, Edges, SMT DEF CutShort
    <2>2. CASE irBitCount' = Invalid /\ irReceivedCommand' = irReceivedCommand
      BY <1>4, <1>6, <2>2
    <2>3. CASE /\ next = IR_BIT_COUNT /\ irBitCount' = Invalid
               /\ bits[next - 1] = 1 /\ irReceivedCommand' = Halved(next - 1)
      BY <1>5, <1>6, <2>1, <2>3 DEF Honest, HalvedCommand
    <2>4. CASE /\ next < IR_BIT_COUNT /\ irBitCount' = next
               /\ irReceivedCommand' = irReceivedCommand
               /\ bits[next - 1] = 1 /\ Collects(irCommand', next, Halved(next - 1))
      <3>1. /\ next' = next + 1 /\ bits' = bits /\ calm' = 0 /\ late' = 0
        BY <1>2, <1>3, <2>1
      <3>2. Halved(next - 1) = [k \in 1 .. IR_BIT_COUNT |->
                                  IF k < next - 1 THEN bits'[k]
                                  ELSE IF k <= (next - 1) + 1 THEN 0 ELSE bits'[k - 1]]
        BY <3>1 DEF Halved
      <3>3. TwoForOne'
        BY <1>5, <2>1, <2>4, <3>1, <3>2 DEF TwoForOne, Halved
      <3> QED BY <1>4, <2>4, <3>1, <3>3 DEF AtBit
    <2> QED BY <1>1, <1>2, <1>10, <2>2, <2>3, <2>4, CutIsSeen
  <1>11. CASE TwoForOne
    <2>1. PICK i \in 1 .. next - 2 :
                 bits[i] = 1 /\ Collects(irCommand, next - 1, Halved(i))
      BY <1>11 DEF TwoForOne
    <2>2. /\ late = 0 /\ next < FinalEdge /\ irBitCount = next - 1
      BY <1>11 DEF TwoForOne
    <2>3. i \in 1 .. IR_BIT_COUNT - 1 /\ i \in 1 .. (next + 1) - 2
      BY <2>2, Edges, SMT DEF TypeOK
    <2>4. CASE /\ next = IR_BIT_COUNT /\ irBitCount' = Invalid
               /\ irReceivedCommand' = Halved(i)
      BY <1>5, <1>6, <2>1, <2>3, <2>4 DEF Honest, HalvedCommand
    <2>5. CASE /\ next < IR_BIT_COUNT /\ irBitCount' = next
               /\ irReceivedCommand' = irReceivedCommand
               /\ Collects(irCommand', next, Halved(i))
      <3>1. /\ next' = next + 1 /\ bits' = bits /\ calm' = 0 /\ late' = 0
        BY <1>2, <1>3, <1>5, <2>2
      <3>2. TwoForOne'
        BY <1>5, <2>1, <2>3, <2>5, <3>1 DEF TwoForOne, Halved
      <3> QED BY <1>4, <2>5, <3>1, <3>2 DEF AtBit
    <2> QED BY <1>1, <2>1, <2>2, <2>4, <2>5, OneAhead
  <1> QED BY <1>7, <1>8, <1>9, <1>10, <1>11 DEF AtBit

LEMMA BurstAtBit ==
  ASSUME IInv, NEW d \in Drift, Seen(d), next > Start
  PROVE  Progress' /\ Received /\ Honest
  <1>1. TypeOK /\ RemoteType /\ Progress
    BY DEF IInv
  <1>2. PICK short \in {0, 1} : Acts(Symbol(((late + Interval(d)) - short) % Wrap))
    BY DEF Seen
  <1>3. calm \in 0 .. 2 /\ begun \in 0 .. 2
    BY <1>1 DEF RemoteType
  <1>4. next \in Int /\ next # First /\ (next + 1) - 2 = next - 1
        /\ next + 1 # First /\ next + 1 # Start
        /\ First # Start /\ ~ (First > Start)
    BY <1>1, Edges, SMT DEF TypeOK
  <1>5. /\ next = FinalEdge => /\ next' = First
                               /\ calm' = IF calm < 2 THEN calm + 1 ELSE 2
        /\ next # FinalEdge => next' = next + 1 /\ bits' = bits /\ calm' = calm
        /\ begun' = begun /\ late' = 0
    BY <1>1, <1>3, <1>4, AdvanceValue DEF Seen
  <1>6. next = FinalEdge => calm' \in 1 .. 2 /\ (calm' = 2 => calm > 0)
    BY <1>3, <1>5, SMT
  <1>7. ASSUME begun > 0 /\ (calm > 0 \/ begun = 2) /\ next # FinalEdge => AtBit',
               begun > 0 /\ calm > 0 /\ next = FinalEdge => irBitCount' = Invalid
        PROVE  Progress'
    <2>1. CASE next = FinalEdge
      <3>1. begun > 0 => AtFirst'
        BY <1>5, <1>6, <1>7, <2>1, SMT DEF AtFirst
      <3> QED BY <1>4, <1>5, <2>1, <3>1 DEF Progress
    <2>2. CASE next # FinalEdge
      BY <1>4, <1>5, <1>7, <2>2 DEF Progress
    <2> QED BY <2>1, <2>2
  <1>8. CASE ~ (begun > 0 /\ (calm > 0 \/ begun = 2))
    <2>1. begun # 2
      BY <1>3, <1>8, SMT
    <2>2. Received /\ Honest
      BY <1>8, <2>1 DEF Received, Honest
    <2> QED BY <1>7, <1>8, <2>2
  <1>9. CASE begun > 0 /\ (calm > 0 \/ begun = 2)
    <2>1. AtBit
      BY <1>1, <1>9 DEF Progress
    <2>2. CASE calm = 0
      <3>1. (next # FinalEdge => AtBit') /\ Honest
        BY <1>1, <2>1, <2>2, DisturbedBit
      <3>2. ~ (calm > 0)
        BY <2>2, SMT
      <3> QED BY <1>7, <3>1, <3>2 DEF Received
    <2>3. CASE calm # 0
      <3>1. late = 0 /\ Collected(next - 2)
        BY <2>1, <2>3 DEF AtBit
      <3>2. /\ next = FinalEdge => irBitCount' = Invalid /\ irReceivedCommand' = bits
            /\ next # FinalEdge => /\ irBitCount' = next - 1
                                   /\ Collects(irCommand', next - 1, bits)
                                   /\ irReceivedCommand' = irReceivedCommand
        BY <1>1, <1>2, <3>1, RightBit
      <3>3. next # FinalEdge => Collected(next - 2)'
        BY <1>4, <1>5, <3>2 DEF Collected
      <3>4. next # FinalEdge => AtBit'
        BY <1>5, <2>3, <3>3 DEF AtBit
      <3>5. Received /\ Honest
        BY <3>2 DEF Received, Honest, OwnCommand
      <3> QED BY <1>7, <3>2, <3>4, <3>5
    <2> QED BY <2>2, <2>3
  <1> QED BY <1>8, <1>9

\* A burst that the receiver does not see.
LEMMA LoseBurstKeeps ==
  ASSUME IInv, LoseBurst
  PROVE  Progress' /\ Received /\ Honest
  <1>1. TypeOK /\ RemoteType /\ Progress
    BY DEF IInv
  <1>2. /\ calm = 2 /\ late' = (late + Interval(0)) % Wrap /\ Advance(0)
        /\ irCommand' = irCommand /\ irBitCount' = irBitCount
        /\ irReceivedCommand' = irReceivedCommand
    BY DEF LoseBurst, device
  <1>3. Honest
    BY <1>2 DEF Honest
  <1>4. /\ next = FinalEdge => next' = First /\ calm' = 1
        /\ next # FinalEdge => next' = next + 1 /\ bits' = bits /\ calm' = 0
        /\ begun' = IF next = First /\ begun < 2 THEN begun + 1 ELSE begun
    <2>1. 0 \in 0 .. 2 /\ 0 + 1 = 1 /\ 0 < 2
      BY SMT
    <2> QED BY <1>1, <1>2, <2>1, AdvanceValue
  <1>5. /\ 0 \in Int /\ next \in Int /\ begun \in 0 .. 2 /\ calm > 0 /\ ~ (0 > 0) /\ calm # 0
        /\ (next = First \/ next = Start \/ next > Start)
        /\ First # FinalEdge /\ Start # FinalEdge /\ First # Start
        /\ First + 1 = Start /\ Start + 1 = 2 /\ 2 > Start /\ 2 # First /\ 2 # Start
        /\ ~ (First > Start) /\ ~ (Start > Start)
    BY <1>1, <1>2, Edges, IntervalValue, SMT DEF RemoteType
  <1>6. CASE next = First
    <2>1. next' = Start /\ calm' = 0
      BY <1>4, <1>5, <1>6
    <2>2. CASE begun = 0
      <3>1. begun' # 2
        BY <1>4, <2>2, SMT
      <3> QED BY <1>3, <1>5, <1>6, <2>1, <3>1 DEF Progress, Received
    <2>3. CASE begun # 0
      <3>1. begun > 0
        BY <1>5, <2>3, SMT
      <3>2. irBitCount' = Invalid
        BY <1>1, <1>2, <1>5, <1>6, <3>1 DEF Progress, AtFirst
      <3>3. AtStart'
        BY <2>1, <3>2 DEF AtStart
      <3> QED BY <1>3, <1>5, <1>6, <2>1, <3>3 DEF Progress, Received
    <2> QED BY <2>2, <2>3
  <1>7. CASE next = Start
    <2>1. next' = 2 /\ calm' = 0 /\ begun' = begun
      BY <1>4, <1>5, <1>7
    <2>2. begun > 0 /\ begun = 2 => irBitCount' = Invalid
      BY <1>1, <1>2, <1>5, <1>7 DEF Progress, AtStart
    <2>3. begun > 0 /\ begun = 2 => AtBit'
      BY <2>1, <2>2 DEF AtBit
    <2> QED BY <1>3, <1>5, <1>7, <2>1, <2>3 DEF Progress, Received
  <1>8. CASE next > Start
    <2>1. next # First /\ next # Start /\ next + 1 # First /\ next + 1 # Start
          /\ next - 2 <= (next + 1) - 3
      BY <1>5, <1>8, Edges, SMT
    <2>2. begun' = begun
      BY <1>4, <2>1
    <2>3. begun > 0 => late = 0 /\ irBitCount = next - 2
      BY <1>1, <1>2, <1>5, <1>8 DEF Progress, AtBit, Collected
    <2>4. CASE next = FinalEdge
      <3>1. next' = First /\ calm' = 1
        BY <1>4, <2>4
      <3>2. begun > 0 => late' \in {IR_SYMBOL_LONG, IR_SYMBOL_SHORT} /\ late' # 0
        <4> SUFFICES ASSUME begun > 0
                     PROVE  late' \in {IR_SYMBOL_LONG, IR_SYMBOL_SHORT} /\ late' # 0
          OBVIOUS
        <4> DEFINE t == BitTime(bits[next - 1])
        <4>1. Interval(0) = 0 + t
          BY <1>1, <1>5, <1>8, IntervalValue
        <4>2. t \in {IR_SYMBOL_LONG, IR_SYMBOL_SHORT}
          BY DEF BitTime
        <4> HIDE DEF t
        <4>3. t \in 0 .. Wrap - 1 /\ t # 0 /\ Wrap \in Nat \ {0} /\ 0 + (0 + t) = t
          BY <4>2, Numbers, SMT
        <4>4. late' = t % Wrap
          BY <1>2, <2>3, <4>1, <4>3
        <4>5. late' = t
          BY <4>3, <4>4, SmallRemainder
        <4> QED BY <4>2, <4>3, <4>5
      <3>3. 1 # 0 /\ 1 # 2
        BY SMT
      <3>4. begun > 0 => AtFirst'
        BY <3>1, <3>2, <3>3 DEF AtFirst
      <3> QED BY <1>3, <1>5, <2>2, <3>1, <3>2, <3>4 DEF Progress, Received
    <2>5. CASE next # FinalEdge
      <3>1. next' = next + 1 /\ calm' = 0
        BY <1>4, <2>5
      <3>2. begun > 0 => AtBit'
        BY <1>2, <2>1, <2>3, <3>1 DEF AtBit
      <3> QED BY <1>3, <2>1, <2>2, <2>5, <3>1, <3>2 DEF Progress, Received
    <2> QED BY <2>4, <2>5
  <1> QED BY <1>5, <1>6, <1>7, <1>8

\* A burst within the interval of a bit.
LEMMA AddedAtBit ==
  ASSUME TypeOK, next > Start, late = 0, Collected(next - 2),
         NEW time \in 1 .. Interval(0) - 1, NEW short \in {0, 1},
         Acts(Symbol((time - short) % Wrap)),
         calm' = 0, next' = next, bits' = bits, late' = - time
  PROVE  AtBit' /\ Honest
  <1> DEFINE b == bits[next - 1]
             symbol == Symbol((time - short) % Wrap)
             cut == [bits EXCEPT ![next - 1] = 0]
  <1>1. b \in {0, 1} /\ Interval(0) = BitTime(b) /\ next - 1 \in 1 .. IR_BIT_COUNT
    <2>1. 0 \in Int
      BY SMT
    <2>2. b \in {0, 1} /\ Interval(0) = 0 + BitTime(b) /\ next - 1 \in 1 .. IR_BIT_COUNT
      BY <2>1, IntervalValue
    <2>3. BitTime(b) \in Nat
      BY Numbers DEF BitTime
    <2> QED BY <2>2, <2>3, SMT
  <1>2. /\ symbol \in {"LONG", "SHORT", "ERROR"}
        /\ symbol = "LONG" => time > IR_SYMBOL_LONG - TOLERANCE
        /\ symbol = "SHORT" => time > IR_SYMBOL_SHORT - TOLERANCE
        /\ symbol = "LONG" => b = 1
    BY <1>1, CutBit
  <1>3. /\ irBitCount = next - 2 /\ irBitCount # Invalid /\ irBitCount + 1 = next - 1
        /\ irBitCount \in Nat /\ next \in Int
        /\ (next = FinalEdge <=> irBitCount + 1 = IR_BIT_COUNT)
        /\ (next # FinalEdge => next < FinalEdge)
    BY Edges, SMT DEF TypeOK, Collected
  <1>4. bits \in [1 .. IR_BIT_COUNT -> {0, 1}] /\ Collects(irCommand, irBitCount, bits)
    BY <1>3 DEF TypeOK, Commands, Collected
  <1>5. irReceivedCommand' = irReceivedCommand => Honest
    BY DEF Honest
  <1>6. irBitCount' = Invalid => AtBit'
    BY DEF AtBit
  <1>7. - (- time) = time /\ time \in Int
    BY SMT
  <1>8. CASE symbol = "ERROR"
    BY <1>5, <1>6, <1>8, Outcome
  <1>9. CASE symbol = "LONG"
    <2>1. Takes(1) /\ b = 1 /\ time > IR_SYMBOL_LONG - TOLERANCE
      BY <1>2, <1>3, <1>9, Outcome
    <2>2. 1 = bits[irBitCount + 1] /\ bits \in Commands
      BY <1>3, <2>1 DEF TypeOK
    <2>3. /\ irBitCount + 1 = IR_BIT_COUNT => irBitCount' = Invalid /\ irReceivedCommand' = bits
          /\ irBitCount + 1 # IR_BIT_COUNT
               => irBitCount' = irBitCount + 1 /\ irReceivedCommand' = irReceivedCommand
      BY <1>4, <2>1, <2>2, TakesNext
    <2>4. CASE next = FinalEdge
      BY <1>3, <1>6, <2>3, <2>4 DEF Honest, OwnCommand
    <2>5. CASE next # FinalEdge
      <3>1. CutShort'
        BY <1>3, <1>7, <2>1, <2>3, <2>5 DEF CutShort, FinalEdge
      <3> QED BY <1>3, <1>5, <2>3, <2>5, <3>1 DEF AtBit
    <2> QED BY <2>4, <2>5
  <1>10. CASE symbol = "SHORT"
    <2>1. Takes(0) /\ time > IR_SYMBOL_SHORT - TOLERANCE
      BY <1>2, <1>3, <1>10, Outcome
    <2>2. cut \in Commands /\ cut[irBitCount + 1] = 0
      BY <1>1, <1>3, <1>4 DEF Commands
    <2>3. \A i \in 1 .. irBitCount : bits[i] = cut[i]
      <3>1. ASSUME NEW i \in 1 .. irBitCount PROVE i \in 1 .. IR_BIT_COUNT /\ i # next - 1
        BY <1>1, <1>3, Edges, SMT
      <3> QED BY <1>4, <3>1
    <2>4. Collects(irCommand, irBitCount, cut)
      BY <1>3, <1>4, <2>3, SameCollects
    <2>5. /\ Collects(irCommand', irBitCount + 1, cut)
          /\ irBitCount + 1 = IR_BIT_COUNT => irBitCount' = Invalid /\ irReceivedCommand' = cut
          /\ irBitCount + 1 # IR_BIT_COUNT
               => irBitCount' = irBitCount + 1 /\ irReceivedCommand' = irReceivedCommand
      <3> HIDE DEF cut
      <3>1. 0 \in {0, 1}
        OBVIOUS
      <3> QED BY <2>1, <2>2, <2>4, <3>1, TakesNext
    <2>6. CASE next = FinalEdge
      <3>1. \A i \in 1 .. IR_BIT_COUNT - 1 : cut[i] = bits[i]
        <4>1. ASSUME NEW i \in 1 .. IR_BIT_COUNT - 1
              PROVE  i \in 1 .. IR_BIT_COUNT /\ i # next - 1
          BY <2>6, Edges, SMT
        <4> QED BY <1>4, <4>1
      <3>2. irReceivedCommand' = cut /\ irBitCount' = Invalid
        BY <1>3, <2>5, <2>6
      <3> HIDE DEF cut
      <3> QED BY <1>6, <2>6, <3>1, <3>2 DEF Honest, OwnCommand
    <2>7. CASE next # FinalEdge
      <3>1. CutShort'
        BY <1>3, <1>7, <2>1, <2>5, <2>7 DEF CutShort, FinalEdge
      <3> QED BY <1>3, <1>5, <2>5, <2>7, <3>1 DEF AtBit
    <2> QED BY <2>6, <2>7
  <1> QED BY <1>2, <1>8, <1>9, <1>10

LEMMA AddBurstKeeps ==
  ASSUME IInv, AddBurst
  PROVE  Progress' /\ Received /\ Honest
  <1>1. TypeOK /\ RemoteType /\ Progress
    BY DEF IInv
  <1>2. calm = 2 /\ calm' = 0 /\ next' = next /\ bits' = bits /\ begun' = begun
    BY DEF AddBurst
  <1>3. PICK time \in 1 .. Interval(0) - 1 : Port_1(late + time) /\ late' = - time
    BY DEF AddBurst
  <1>4. time \in Int /\ late + time \in Int /\ 0 \in Int
    BY <1>1, SMT DEF RemoteType
  <1>5. PICK short \in {0, 1} : Acts(Symbol(((late + time) - short) % Wrap))
    BY <1>1, <1>3, <1>4, PortActs DEF TypeOK
  <1>6. late = 0 => Acts(Symbol((time - short) % Wrap))
    <2>1. 0 + time = time
      BY <1>4, SMT
    <2> QED BY <1>5, <2>1
  <1>7. /\ (next = First \/ next = Start \/ next > Start)
        /\ First # FinalEdge /\ First # Start
        /\ ~ (First > Start) /\ ~ (Start > Start) /\ calm > 0 /\ calm # 0 /\ ~ (0 > 0)
        /\ (next > Start => next # First /\ next # Start)
    BY <1>1, <1>2, <1>4, Edges, IntervalValue, SMT
  <1>8. Received
    BY <1>2, <1>7 DEF Received
  <1>9. irReceivedCommand' = irReceivedCommand => Honest
    BY DEF Honest
  <1>10. CASE ~ (begun > 0)
    <2>1. begun # 2
      BY <1>10, SMT
    <2> QED BY <1>2, <1>8, <1>10, <2>1 DEF Progress, Honest
  <1>11. CASE begun > 0 /\ next = First
    <2>1. late = 0 /\ irBitCount = Invalid
      BY <1>1, <1>2, <1>7, <1>11 DEF Progress, AtFirst
    <2>2. irBitCount' \in {Invalid, 0} /\ irReceivedCommand' = irReceivedCommand
      BY <1>1, <1>6, <2>1, Outcome
    <2>3. AtFirst'
      BY <1>2, <2>2 DEF AtFirst
    <2> QED BY <1>2, <1>7, <1>8, <1>9, <1>11, <2>2, <2>3 DEF Progress
  <1>12. CASE begun > 0 /\ next = Start
    <2>1. CASE begun # 2
      BY <1>2, <1>7, <1>8, <1>12, <2>1 DEF Progress, Honest
    <2>2. CASE begun = 2
      <3>1. late = 0 /\ irBitCount = Invalid
        BY <1>1, <1>2, <1>7, <1>12, <2>2 DEF Progress, AtStart
      <3>2. time \in 1 .. IR_SYMBOL_START - 1
        <4>1. Interval(0) = IR_SYMBOL_START + 0
          BY <1>1, <1>4, <1>12, IntervalValue
        <4> QED BY <4>1, Numbers, SMT
      <3>3. /\ irReceivedCommand' = irReceivedCommand
            /\ \/ irBitCount' = Invalid
               \/ irBitCount' = 0 /\ Symbol((time - short) % Wrap) = "START"
        BY <1>1, <1>6, <3>1, Outcome
      <3>4. Symbol((time - short) % Wrap) = "START" => time > IR_SYMBOL_START - TOLERANCE
        BY <3>2, CutStart
      <3>5. - (- time) = time
        BY <1>4, SMT
      <3>6. AtStart'
        BY <1>2, <1>3, <3>3, <3>4, <3>5 DEF AtStart
      <3> QED BY <1>2, <1>7, <1>8, <1>9, <1>12, <3>3, <3>6 DEF Progress
    <2> QED BY <2>1, <2>2
  <1>13. CASE begun > 0 /\ next > Start
    <2>1. late = 0 /\ Collected(next - 2)
      BY <1>1, <1>2, <1>7, <1>13 DEF Progress, AtBit
    <2>2. AtBit' /\ Honest
      BY <1>1, <1>2, <1>3, <1>6, <1>13, <2>1, AddedAtBit
    <2> QED BY <1>2, <1>7, <1>8, <1>13, <2>2 DEF Progress
  <1> QED BY <1>7, <1>10, <1>11, <1>12, <1>13

------------------------------------------------------------------------------
(* The results.                                                            *)

LEMMA Step == IInv /\ [Next]_vars => IInv' /\ ((Received /\ Honest) \/ UNCHANGED vars)
  <1> SUFFICES ASSUME IInv, [Next]_vars
               PROVE  IInv' /\ ((Received /\ Honest) \/ UNCHANGED vars)
    OBVIOUS
  <1>1. TypeOK' /\ RemoteType'
    BY TypeKeeps
  <1>2. CASE Main
    <2>1. UNCHANGED <<irCommand, irBitCount, remote>> /\ irReceivedCommand' = Zero
      BY <1>2 DEF Main
    <2>2. Progress'
      BY <2>1 DEF IInv, remote, Progress, AtFirst, AtStart, AtBit, Collected, CutShort,
                  TwoForOne, Halved
    <2>3. First # FinalEdge
      BY Edges, SMT
    <2>4. Received /\ Honest
      BY <2>1, <2>3 DEF remote, Received, Honest
    <2> QED BY <1>1, <2>2, <2>4 DEF IInv
  <1>3. CASE Burst
    <2>1. PICK d \in Drift : Seen(d)
      BY <1>3, BurstIsSeen
    <2>2. next = First \/ next = Start \/ next > Start
      <3>1. 0 \in Int
        BY SMT
      <3> QED BY <3>1, IntervalValue DEF IInv
    <2>3. Progress' /\ Received /\ Honest
      BY <2>1, <2>2, BurstAtFirst, BurstAtStart, BurstAtBit
    <2> QED BY <1>1, <2>3 DEF IInv
  <1>4. CASE LoseBurst
    BY <1>1, <1>4, LoseBurstKeeps DEF IInv
  <1>5. CASE AddBurst
    BY <1>1, <1>5, AddBurstKeeps DEF IInv
  <1>6. CASE UNCHANGED vars
    <2>1. Progress'
      BY <1>6 DEF vars, device, remote, IInv, Progress, AtFirst, AtStart, AtBit, Collected,
                  CutShort, TwoForOne, Halved
    <2> QED BY <1>1, <1>6, <2>1 DEF IInv
  <1> QED BY <1>2, <1>3, <1>4, <1>5, <1>6 DEF Next

LEMMA Invariance == Spec => []IInv
  BY InitIInv, Step, PTL DEF Spec

\* The count of bits never exceeds the mark of an invalid command, and the
\* last edge stays within the timer's range.
THEOREM TypeCorrect == Spec => []TypeOK
  <1>1. IInv => TypeOK
    BY DEF IInv
  <1> QED BY <1>1, Invariance, PTL

\* A command that is not disturbed arrives with its last edge, whatever came
\* before, however the timer wraps and however the clock lags.
THEOREM CleanCommandIsReceivedHolds == Spec => CleanCommandIsReceived
  <1>1. IInv /\ [Next]_vars
          => [next = FinalEdge /\ late' = 0 /\ begun > 0 /\ calm > 0 /\ next' = First
                => irReceivedCommand' = bits]_vars
    BY Step DEF Received
  <1> QED BY <1>1, Invariance, PTL DEF Spec, CleanCommandIsReceived

\* A burst lost never makes a command of another, and a burst added does so in
\* two ways only.
THEOREM NothingInventedHolds == Spec => NothingInvented
  <1>1. IInv /\ [Next]_vars
          => [begun = 2 /\ irReceivedCommand' \notin {Zero, irReceivedCommand}
                => OwnCommand \/ HalvedCommand]_vars
    BY Step DEF Honest
  <1> QED BY <1>1, Invariance, PTL DEF Spec, NothingInvented
==============================================================================
