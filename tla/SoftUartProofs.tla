---------------------------- MODULE SoftUartProofs ---------------------------
(***************************************************************************)
(* For every bit time, every delay of the handlers, every set of bytes and *)
(* every liberty of the other end: the receiver of suart.c never goes      *)
(* deaf.  NeverDeaf is inductive: whoever takes CCIE away in the middle of *)
(* a byte is suart_transmit(), on its way to set it again.                 *)
(*                                                                         *)
(* And for every bit time and a first sample that falls in the first data  *)
(* bit (Timely): a polite sender's bytes are received, and the kit's sent, *)
(* whole; one that hurries loses bytes but never the newest.               *)
(***************************************************************************)
EXTENDS SoftUart, SequenceTheorems, TLAPS

LEMMA Quotient ==
  ASSUME NEW M \in Nat \ {0}, NEW q \in Int, NEW r \in 0 .. M - 1
  PROVE  ((M * q) + r) \div M = q
  BY SMT

\* At the start nothing is received and the port listens.
LEMMA InitNeverDeaf == Init => NeverDeaf
  BY DEF Init, NeverDeaf

\* The other end of the line and the passing of time touch none of it.
LEMMA LineKeeps ==
  ASSUME NeverDeaf, (\E b \in Byte : PeerStart(b)) \/ PeerGlitch \/ Tick
  PROVE  NeverDeaf'
  BY DEF PeerStart, PeerGlitch, Falls, Tick, NeverDeaf, shared, timer

\* The handlers: the port's starts a reception, the timer's ends it; while
\* it lasts the timer's leaves CCIE as it found it, on.
LEMMA HandlersKeep ==
  ASSUME NeverDeaf, PORT1_ISR \/ TIMERA0_ISR
  PROVE  NeverDeaf'
  <1>1. CASE PORT1_ISR
    BY <1>1 DEF PORT1_ISR, NeverDeaf
  <1>2. CASE TIMERA0_ISR /\ RxFinished
    BY <1>2 DEF TIMERA0_ISR, RxFinished, RearmPort, NeverDeaf
  <1>3. CASE TIMERA0_ISR /\ RxSample
    BY <1>3 DEF TIMERA0_ISR, TimerPending, RxSample, port, NeverDeaf
  <1>4. CASE TIMERA0_ISR /\ ~isReceiving /\ (TxFinished \/ TxNextBit)
    BY <1>4 DEF TIMERA0_ISR, TxFinished, TxNextBit, shared, port, NeverDeaf
  <1> QED BY <1>1, <1>2, <1>3, <1>4 DEF TIMERA0_ISR

\* The main program: from TxMark, which clears CCIE, it goes straight to
\* TxEnable, which sets it.
LEMMA MainKeeps ==
  ASSUME NeverDeaf, (\E b \in Byte : TxCall(b)) \/ Main
  PROVE  NeverDeaf'
  <1> USE DEF NeverDeaf, Goto, shared, timer, port
  <1>1. ASSUME NEW b \in Byte, TxCall(b) PROVE NeverDeaf'
    BY <1>1 DEF TxCall
  <1>2. CASE TxWaitRx \/ TxMark
    BY <1>2 DEF TxWaitRx, TxMark
  <1>3. CASE TxLoad \/ TxCompare \/ TxFrame
    BY <1>3 DEF TxLoad, TxCompare, TxFrame
  <1>4. CASE TxEnable \/ TxReturn
    BY <1>4 DEF TxEnable, TxReturn
  <1>5. CASE RxClear \/ RxReturn
    BY <1>5 DEF RxClear, RxReturn
  <1> QED BY <1>1, <1>2, <1>3, <1>4, <1>5 DEF Main, suart_transmit

LEMMA NeverDeafStays == NeverDeaf /\ [Next]_vars => NeverDeaf'
  <1>1. NeverDeaf /\ UNCHANGED vars => NeverDeaf'
    BY DEF NeverDeaf, vars, shared, timer, port
  <1> QED BY <1>1, LineKeeps, HandlersKeep, MainKeeps DEF Next

\* The edge interrupt on RXD (P1IE) is off only while a byte is clocked in, and
\* then the compare interrupt that will turn it on again is enabled, or
\* suart_transmit() is about to enable it.
THEOREM NeverDeafHolds == Spec => []NeverDeaf
  BY InitNeverDeaf, NeverDeafStays, PTL DEF Spec

------------------------------------------------------------------------------
(* With a sender whose frames are legible, and handlers as slow as the     *)
(* code takes them to be: what is on the line, and how far a byte has come.*)

\* The first sample falls in the first data bit.
Timely == \A late \in Latency : Bit_time_5 + late \in Bit_time .. 2 * Bit_time - 1

\* Only a reception or a transmission has the timer's interrupt enabled.
TimerIsUsed == CCIE /\ ~isReceiving => pc = "tx_wait_tx"

\* RXByte when n samples of the byte b are still to be taken.
Sampled(b, n) == CASE n = 9 -> 0
                   [] n = 8 -> 512 * (b % 2)
                   [] n = 7 -> 256 * (b % 4)
                   [] n = 6 -> 128 * (b % 8)
                   [] n = 5 -> 64 * (b % 16)
                   [] n = 4 -> 32 * (b % 32)
                   [] n = 3 -> 16 * (b % 64)
                   [] n = 2 -> 8 * (b % 128)
                   [] n = 1 -> 4 * b
                   [] n = 0 -> 2 * b + 512

\* What the other end has sent and the kit has read are bytes.
Histories == sent \in Seq(Byte) /\ got \in Seq(0 .. 255)

\* The newest byte waits or has been read.
Known == IF hasReceived \/ pc = "rx_return"
         THEN sent # <<>> /\ RXByte = Newest /\ RXByte \in 0 .. 255
         ELSE sent # <<>> => got # <<>> /\ got[Len(got)] = Newest

Silent == ~isReceiving /\ ~P1IFG /\ peer = Idle /\ Known

\* A start bit has come and PORT1_ISR is about to run.
Started == /\ ~isReceiving /\ P1IFG /\ pc \in {"idle", "rx_return"} /\ sent # <<>>
           /\ \E b \in Byte : /\ peer = [kind |-> "frame", byte |-> b, at |-> 0]
                              /\ Newest = b

\* Where the next compare finds the sender: in the bit that is to be sampled.
\* It has finished when only the last compare is left.
InTime(b) == \/ peer = Idle /\ BitCnt = 0
             \/ /\ peer = [kind |-> "frame", byte |-> b, at |-> peer.at]
                /\ peer.at \in 0 .. 10 * Bit_time - 1
                /\ peer.at + due >= (10 - BitCnt) * Bit_time
                /\ peer.at + due < (10 - BitCnt) * Bit_time + Bit_time

\* A frame is being clocked in.
Clocked == /\ isReceiving /\ pc \in {"idle", "tx_wait_rx", "rx_return"} /\ sent # <<>>
           /\ CCIE /\ BitCnt \in 0 .. 9 /\ due \in Nat
           /\ \E b \in Byte : /\ Newest = b
                              /\ RXByte = Sampled(b, BitCnt)
                              /\ InTime(b)

\* TXByte when n levels of the frame of b have been chosen.
Shifted(b, n) == CASE n = 0 -> 2 * (b + 256)
                   [] n = 1 -> b + 256
                   [] n = 2 -> (b + 256) \div 2
                   [] n = 3 -> (b + 256) \div 4
                   [] n = 4 -> (b + 256) \div 8
                   [] n = 5 -> (b + 256) \div 16
                   [] n = 6 -> (b + 256) \div 32
                   [] n = 7 -> (b + 256) \div 64
                   [] n = 8 -> (b + 256) \div 128
                   [] n = 9 -> 1
                   [] n = 10 -> 0

Line(b) == <<1>> \o Frame(b)

\* The first n levels of the line are out.
Out(n) == /\ txd \in Seq({0, 1}) /\ Len(txd) = n
          /\ \A i \in 1 .. n : txd[i] = Line(sending)[i]

Shifting == /\ BitCnt \in 0 .. 10 /\ due \in Nat
            /\ TXByte = Shifted(sending, 10 - BitCnt)
            /\ outmod \in {"set", "reset"} /\ OutLevel[outmod] = Line(sending)[11 - BitCnt]
            /\ Out(IF due = 0 THEN 11 - BitCnt ELSE 10 - BitCnt)

\* What suart_transmit() has done so far.
Prepared ==
  /\ pc \in {"tx_wait_rx", "tx_mark", "tx_load", "tx_compare", "tx_frame"} => TXByte = sending
  /\ pc \notin {"idle", "rx_return"} => sending \in Byte
  /\ pc \notin {"idle", "rx_return", "tx_wait_rx"} => Silent
  /\ pc \in {"tx_load", "tx_compare", "tx_frame", "tx_enable"} => txd = <<>>
  /\ pc \in {"tx_compare", "tx_frame", "tx_enable"} => BitCnt = 10
  /\ pc \in {"tx_frame", "tx_enable"} => due = Bit_time
  /\ pc = "tx_enable" => TXByte = Shifted(sending, 0)
  /\ pc = "tx_wait_tx" => IF CCIE THEN Shifting ELSE due = Off /\ Out(11)

Situation == Silent \/ Started \/ Clocked
Orderly == Situation /\ Prepared

\* With a polite sender, besides: no byte waits when a frame comes, and all but
\* the newest have been read.
Books == /\ isReceiving \/ P1IFG => ~hasReceived /\ pc # "rx_return"
         /\ ~(hasReceived /\ pc = "rx_return")
         /\ sent = CASE isReceiving \/ P1IFG            -> Append(got, Newest)
                     [] hasReceived \/ pc = "rx_return" -> Append(got, RXByte)
                     [] OTHER                           -> got

IInv == /\ NeverDeaf /\ TimerIsUsed
        /\ legible => Orderly /\ Histories
        /\ polite => legible /\ Books

------------------------------------------------------------------------------
(* The bits of a byte.                                                     *)

LEMMA BitValues ==
  ASSUME NEW b \in 0 .. 255
  PROVE  /\ Bit(b, 0) = b % 2 /\ Bit(b, 1) = (b \div 2) % 2
         /\ Bit(b, 2) = (b \div 4) % 2 /\ Bit(b, 3) = (b \div 8) % 2
         /\ Bit(b, 4) = (b \div 16) % 2 /\ Bit(b, 5) = (b \div 32) % 2
         /\ Bit(b, 6) = (b \div 64) % 2 /\ Bit(b, 7) = (b \div 128) % 2
  BY SMT DEF Bit

LEMMA FrameValues ==
  ASSUME NEW b \in 0 .. 255
  PROVE  /\ FrameBit(b, 0) = 0 /\ FrameBit(b, 1) = b % 2
         /\ FrameBit(b, 2) = (b \div 2) % 2 /\ FrameBit(b, 3) = (b \div 4) % 2
         /\ FrameBit(b, 4) = (b \div 8) % 2 /\ FrameBit(b, 5) = (b \div 16) % 2
         /\ FrameBit(b, 6) = (b \div 32) % 2 /\ FrameBit(b, 7) = (b \div 64) % 2
         /\ FrameBit(b, 8) = (b \div 128) % 2 /\ FrameBit(b, 9) = 1
  BY BitValues, SMT DEF FrameBit

\* A sample more: the receiver shifts the level in.
LEMMA SampleStep ==
  ASSUME NEW b \in 0 .. 255, NEW n \in 1 .. 9
  PROVE  ShiftIn(Sampled(b, n), FrameBit(b, 10 - n)) = Sampled(b, n - 1)
  <1>1. CASE n = 1
    BY <1>1, FrameValues, SMT DEF ShiftIn, Sampled
  <1>2. CASE n = 2
    BY <1>2, FrameValues, SMT DEF ShiftIn, Sampled
  <1>3. CASE n = 3
    BY <1>3, FrameValues, SMT DEF ShiftIn, Sampled
  <1>4. CASE n = 4
    BY <1>4, FrameValues, SMT DEF ShiftIn, Sampled
  <1>5. CASE n = 5
    BY <1>5, FrameValues, SMT DEF ShiftIn, Sampled
  <1>6. CASE n = 6
    BY <1>6, FrameValues, SMT DEF ShiftIn, Sampled
  <1>7. CASE n = 7
    BY <1>7, FrameValues, SMT DEF ShiftIn, Sampled
  <1>8. CASE n = 8
    BY <1>8, FrameValues, SMT DEF ShiftIn, Sampled
  <1>9. CASE n = 9
    BY <1>9, FrameValues, SMT DEF ShiftIn, Sampled
  <1> QED BY <1>1, <1>2, <1>3, <1>4, <1>5, <1>6, <1>7, <1>8, <1>9, SMT

\* The last sample is the stop bit, and before it are the bits of the byte.
LEMMA SampledByte ==
  ASSUME NEW b \in 0 .. 255
  PROVE  FrameValid(Sampled(b, 0)) /\ (Sampled(b, 0) \div 2) % 256 = b
  <1>1. Bit(2 * b + 512, 9) = 1 /\ Bit(2 * b + 512, 0) = 0
    BY SMT DEF Bit
  <1>2. ((2 * b + 512) \div 2) % 256 = b
    BY SMT
  <1>3. Sampled(b, 0) = 2 * b + 512
    BY SMT DEF Sampled
  <1> QED BY <1>1, <1>2, <1>3 DEF FrameValid

LEMMA SampledType ==
  ASSUME NEW b \in 0 .. 255, NEW n \in 0 .. 9
  PROVE  Sampled(b, n) \in Nat
  <1>1. /\ Sampled(b, 0) \in Nat /\ Sampled(b, 1) \in Nat /\ Sampled(b, 9) \in Nat
        /\ Sampled(b, 2) \in Nat /\ Sampled(b, 3) \in Nat
    BY SMT DEF Sampled
  <1>2. /\ Sampled(b, 4) \in Nat /\ Sampled(b, 5) \in Nat /\ Sampled(b, 6) \in Nat
        /\ Sampled(b, 7) \in Nat /\ Sampled(b, 8) \in Nat
    BY SMT DEF Sampled
  <1>3. \/ n = 0 \/ n = 1 \/ n = 2 \/ n = 3 \/ n = 4
        \/ n = 5 \/ n = 6 \/ n = 7 \/ n = 8 \/ n = 9
    BY SMT
  <1> QED BY <1>1, <1>2, <1>3, Zenon

LEMMA ByteStays == ASSUME NEW x \in 0 .. 255 PROVE x % 256 = x
  BY SMT

\* A level more: the transmitter shifts it out.
LEMMA ShiftStep ==
  ASSUME NEW b \in 0 .. 255, NEW n \in 0 .. 9
  PROVE  Shifted(b, n) \div 2 = Shifted(b, n + 1) /\ Shifted(b, n) % 2 = FrameBit(b, n)
  <1>0. CASE n = 0
    BY <1>0, FrameValues, SMT DEF Shifted
  <1>1. CASE n = 1
    BY <1>1, FrameValues, SMT DEF Shifted
  <1>2. CASE n = 2
    BY <1>2, FrameValues, SMT DEF Shifted
  <1>3. CASE n = 3
    BY <1>3, FrameValues, SMT DEF Shifted
  <1>4. CASE n = 4
    BY <1>4, FrameValues, SMT DEF Shifted
  <1>5. CASE n = 5
    BY <1>5, FrameValues, SMT DEF Shifted
  <1>6. CASE n = 6
    BY <1>6, FrameValues, SMT DEF Shifted
  <1>7. CASE n = 7
    BY <1>7, FrameValues, SMT DEF Shifted
  <1>8. CASE n = 8
    BY <1>8, FrameValues, SMT DEF Shifted
  <1>9. CASE n = 9
    BY <1>9, FrameValues, SMT DEF Shifted
  <1> QED BY <1>0, <1>1, <1>2, <1>3, <1>4, <1>5, <1>6, <1>7, <1>8, <1>9, SMT

LEMMA LineShape ==
  ASSUME NEW b \in 0 .. 255
  PROVE  /\ Line(b) \in Seq({0, 1}) /\ Len(Line(b)) = 11
         /\ Line(b)[1] = 1
         /\ \A i \in 0 .. 9 : Line(b)[i + 2] = FrameBit(b, i)
  <1>1. \A i \in 0 .. 9 : FrameBit(b, i) \in {0, 1}
    BY FrameValues, SMT
  <1>2. Frame(b) \in Seq({0, 1}) /\ Len(Frame(b)) = 10
    <2>1. \A i \in 1 .. 10 : FrameBit(b, i - 1) \in {0, 1}
      BY <1>1, SMT
    <2> QED BY <2>1, SMT DEF Frame
  <1>3. <<1>> \in Seq({0, 1}) /\ Len(<<1>>) = 1 /\ <<1>>[1] = 1
    BY SMT
  <1>4. /\ Line(b) \in Seq({0, 1}) /\ Len(Line(b)) = 11
        /\ \A i \in 1 .. 11 : Line(b)[i] = IF i <= 1 THEN 1 ELSE Frame(b)[i - 1]
    <2> DEFINE s == <<1>>
               t == Frame(b)
               u == s \o t
    <2> HIDE DEF s, t
    <2>1. s \in Seq({0, 1}) /\ t \in Seq({0, 1}) /\ Len(s) = 1 /\ Len(t) = 10 /\ s[1] = 1
      BY <1>2, <1>3 DEF s, t
    <2>2. /\ u \in Seq({0, 1}) /\ Len(u) = Len(s) + Len(t)
          /\ \A i \in 1 .. Len(s) + Len(t) : u[i] = IF i <= Len(s) THEN s[i] ELSE t[i - Len(s)]
      BY <2>1, ConcatProperties
    <2>3. Line(b) = u
      BY DEF Line, s, t
    <2> HIDE DEF u
    <2>4. Len(u) = 11 /\ \A i \in 1 .. 11 : u[i] = IF i <= 1 THEN s[1] ELSE t[i - 1]
      BY <2>1, <2>2, SMT
    <2> QED BY <2>1, <2>2, <2>3, <2>4 DEF t
  <1>5. ASSUME NEW i \in 0 .. 9 PROVE Line(b)[i + 2] = FrameBit(b, i)
    <2>1. Line(b)[i + 2] = Frame(b)[i + 1]
      <3>1. i + 2 \in 1 .. 11 /\ ~(i + 2 <= 1) /\ (i + 2) - 1 = i + 1
        BY SMT
      <3> QED BY <1>4, <3>1
    <2>2. Frame(b)[i + 1] = FrameBit(b, i)
      BY SMT DEF Frame
    <2> QED BY <2>1, <2>2
  <1> QED BY <1>4, <1>5, SMT

------------------------------------------------------------------------------
(* What leaves the situation as it is.                                     *)

\* Manners do not improve.
LEMMA Politeness ==
  ASSUME [Next]_vars
  PROVE  (legible' => legible) /\ (polite' => polite) /\ (polite' /\ legible => legible')
  <1>1. CASE (\E b \in Byte : PeerStart(b)) \/ PeerGlitch
    BY <1>1 DEF PeerStart, PeerGlitch, Falls
  <1>2. CASE Tick \/ PORT1_ISR \/ TIMERA0_ISR
    BY <1>2 DEF Tick, PORT1_ISR, TIMERA0_ISR, history
  <1>3. CASE (\E b \in Byte : TxCall(b)) \/ Main
    BY <1>3 DEF TxCall, Main, suart_transmit, TxWaitRx, TxMark, TxLoad, TxCompare, TxFrame,
                TxEnable, TxReturn, RxClear, RxReturn, history
  <1>4. CASE UNCHANGED vars
    BY <1>4 DEF vars, history
  <1> QED BY <1>1, <1>2, <1>3, <1>4 DEF Next

LEMMA SilentStays ==
  ASSUME Silent, (pc' = "rx_return") = (pc = "rx_return"),
         UNCHANGED <<isReceiving, hasReceived, RXByte, P1IFG, peer, sent, got>>
  PROVE  Silent'
  BY DEF Silent, Known, Newest

LEMMA ClockedStays ==
  ASSUME Clocked, pc' \in {"idle", "tx_wait_rx", "rx_return"},
         UNCHANGED <<isReceiving, RXByte, BitCnt, due, CCIE, peer, sent>>
  PROVE  Clocked'
  BY Zenon DEF Clocked, InTime, Newest

LEMMA SendingStays ==
  ASSUME Prepared, pc = "tx_wait_tx", Silent',
         UNCHANGED <<pc, BitCnt, TXByte, due, CCIE, outmod, txd, sending>>
  PROVE  Prepared'
  BY DEF Prepared, Shifting, Out

LEMMA TimerStays == ASSUME TimerIsUsed, [Next]_vars, NeverDeaf PROVE TimerIsUsed'
  <1> USE DEF TimerIsUsed, Goto
  <1>1. CASE (\E b \in Byte : PeerStart(b)) \/ PeerGlitch \/ Tick \/ UNCHANGED vars
    BY <1>1 DEF PeerStart, PeerGlitch, Falls, Tick, vars, shared, timer
  <1>2. CASE PORT1_ISR
    BY <1>2 DEF PORT1_ISR
  <1>3. CASE TIMERA0_ISR
    BY <1>3 DEF TIMERA0_ISR, RxFinished, RxSample, TxFinished, TxNextBit, StopTimer, shared, port
  <1>4. CASE (\E b \in Byte : TxCall(b)) \/ TxWaitRx \/ TxMark \/ TxLoad \/ TxCompare \/ TxFrame
    BY <1>4 DEF TxCall, TxWaitRx, TxMark, TxLoad, TxCompare, TxFrame, shared, timer
  <1>5. CASE TxEnable \/ TxReturn \/ RxClear \/ RxReturn
    BY <1>5 DEF TxEnable, TxReturn, RxClear, RxReturn, shared, timer
  <1> QED BY <1>1, <1>2, <1>3, <1>4, <1>5 DEF Next, Main, suart_transmit

\* Before the main program executes, the edge of a start bit has been served.
LEMMA MainIsServed ==
  ASSUME NeverDeaf, ~Preempted, Situation
  PROVE  Silent \/ Clocked
  BY DEF NeverDeaf, Preempted, PortPending, Situation, Started

------------------------------------------------------------------------------
(* The other end of the line, and time.                                    *)

\* The frame that starts is the newest.
LEMMA NewestStarted ==
  ASSUME sent \in Seq(Byte), NEW b \in Byte, sent' = Append(sent, b)
  PROVE  sent' \in Seq(Byte) /\ sent' # <<>> /\ Newest' = b
  BY AppendProperties, SMT DEF Newest

LEMMA LastAppended ==
  ASSUME NEW S, NEW s \in Seq(S), NEW x \in S
  PROVE  Append(s, x) # <<>> /\ Append(s, x)[Len(Append(s, x))] = x
  BY AppendProperties

LEMMA StartKeeps ==
  ASSUME Orderly, Histories, NEW b \in Byte, PeerStart(b), legible'
  PROVE  Orderly'
  <1>1. Liberties \subseteq {"hurry"} /\ LineQuiet
    BY DEF PeerStart, Falls
  <1>2. ~isReceiving /\ pc \in {"idle", "rx_return"}
    <2>1. "crowd" \notin Liberties /\ "overlap" \notin Liberties
      BY <1>1
    <2> QED BY <2>1 DEF Liberties
  <1>3. sent \in Seq(Byte) /\ sent' = Append(sent, b)
    BY DEF Histories, PeerStart
  <1>4. /\ ~isReceiving' /\ P1IFG' /\ pc' = pc /\ got' = got
        /\ peer' = [kind |-> "frame", byte |-> b, at |-> 0]
    BY <1>2 DEF PeerStart, Falls, shared
  <1>5. Started'
    BY <1>2, <1>3, <1>4, NewestStarted DEF Started
  <1>6. Prepared'
    BY <1>2, <1>4 DEF Prepared
  <1> QED BY <1>5, <1>6 DEF Orderly, Situation

LEMMA GlitchIsIllegible == ASSUME PeerGlitch PROVE ~legible'
  BY DEF PeerGlitch, Falls

\* Multiples of a bit.
LEMMA BitTimes ==
  ASSUME NEW n \in 0 .. 9
  PROVE  /\ Bit_time \in Nat \ {0} /\ (10 - n) * Bit_time \in Nat
         /\ (11 - n) * Bit_time = (10 - n) * Bit_time + Bit_time
         /\ n # 0 => (10 - n) * Bit_time + Bit_time <= 10 * Bit_time
         /\ n = 0 => (10 - n) * Bit_time = 10 * Bit_time
  BY TimingAssumption, SMT

LEMMA IdleLine == Level(Idle) = 1
  BY DEF Level, Idle

\* A tick brings the sender and the next compare closer by as much.
LEMMA InTimeTicks ==
  ASSUME NEW b \in Byte, InTime(b), BitCnt \in 0 .. 9, due \in Nat \ {0},
         due' = due - 1, BitCnt' = BitCnt, peer' = PeerAfterTick
  PROVE  InTime(b)'
  <1>1. CASE peer = Idle /\ BitCnt = 0
    BY <1>1 DEF InTime, PeerAfterTick, Idle
  <1>2. CASE peer # Idle \/ BitCnt # 0
    <2> DEFINE p == (10 - BitCnt) * Bit_time
               a == peer.at
    <2>1. /\ peer.kind = "frame" /\ peer.byte = b
          /\ a \in 0 .. 10 * Bit_time - 1
          /\ a + due >= p /\ a + due < p + Bit_time
          /\ peer = [kind |-> "frame", byte |-> b, at |-> a]
      BY <1>2 DEF InTime
    <2>2. /\ Bit_time \in Nat \ {0} /\ p \in Nat
          /\ BitCnt # 0 => p + Bit_time <= 10 * Bit_time
          /\ BitCnt = 0 => p = 10 * Bit_time
      BY BitTimes
    <2>3. p' = p
      BY Zenon
    <2> HIDE DEF p
    <2>4. CASE a + 1 < 10 * Bit_time
      <3>1. peer' = [kind |-> "frame", byte |-> b, at |-> a + 1]
        BY <2>1, <2>4 DEF PeerAfterTick
      <3>2. a' = a + 1
        BY <3>1
      <3> HIDE DEF a
      <3>3. /\ a' \in 0 .. 10 * Bit_time - 1
            /\ a' + due' >= p' /\ a' + due' < p' + Bit_time
        BY <2>1, <2>2, <2>3, <2>4, <3>2, SMT
      <3>4. peer' = [kind |-> "frame", byte |-> b, at |-> a']
        BY <3>1, <3>2
      <3> QED BY <3>1, <3>3, <3>4 DEF InTime, a, p
    <2>5. CASE ~(a + 1 < 10 * Bit_time)
      <3>1. peer' = Idle
        BY <2>1, <2>5 DEF PeerAfterTick
      <3> HIDE DEF a
      <3>2. BitCnt = 0
        BY <2>1, <2>2, <2>5, SMT
      <3> QED BY <3>1, <3>2 DEF InTime
    <2> QED BY <2>4, <2>5
  <1> QED BY <1>1, <1>2

\* A level more is out.
LEMMA OutOneMore ==
  ASSUME NEW n \in 0 .. 10, Out(n), sending \in 0 .. 255,
         sending' = sending, txd' = Append(txd, Line(sending)[n + 1])
  PROVE  Out(n + 1)'
  <1> DEFINE l == Line(sending)
  <1>1. l \in Seq({0, 1}) /\ Len(l) = 11 /\ l' = l
    BY LineShape DEF Line, Frame
  <1> HIDE DEF l
  <1>2. n + 1 \in 1 .. 11
    BY SMT
  <1>3. l[n + 1] \in {0, 1}
    BY <1>1, <1>2, ElementOfSeq
  <1>4. /\ txd \in Seq({0, 1}) /\ Len(txd) = n
        /\ \A i \in 1 .. n : txd[i] = l[i]
        /\ txd' = Append(txd, l[n + 1])
    BY DEF Out, l
  <1>5. /\ txd' \in Seq({0, 1}) /\ Len(txd') = n + 1
        /\ \A i \in 1 .. n + 1 : txd'[i] = IF i = n + 1 THEN l[n + 1] ELSE txd[i]
    BY <1>3, <1>4, AppendProperties
  <1>6. \A i \in 1 .. n + 1 : txd'[i] = l[i]
    BY <1>4, <1>5, SMT
  <1> QED BY <1>1, <1>5, <1>6 DEF Out, l

\* No edge comes while the line is idle.
LEMMA TickIsQuiet == ASSUME Silent, Tick PROVE peer' = Idle /\ ~P1IFG'
  <1>1. peer' = Idle
    BY DEF Silent, Tick, PeerAfterTick, Idle
  <1>2. Level(peer') # 0
    BY <1>1, IdleLine
  <1> QED BY <1>1, <1>2 DEF Silent, Tick

LEMMA TickKeeps ==
  ASSUME Orderly, NeverDeaf, TimerIsUsed, Tick
  PROVE  Orderly'
  <1>1. /\ ~Preempted /\ pc \in {"idle", "tx_wait_rx", "tx_wait_tx", "rx_return"}
        /\ peer' = PeerAfterTick
        /\ P1IFG' = (P1IFG \/ (Level(peer) = 1 /\ Level(peer') = 0))
        /\ due' = IF due > 0 THEN due - 1 ELSE due
        /\ txd' = IF due = 1 /\ outmod \in DOMAIN OutLevel
                  THEN Append(txd, OutLevel[outmod]) ELSE txd
        /\ UNCHANGED <<isReceiving, hasReceived, RXByte, BitCnt, TXByte, CCIE, outmod, pc,
                       sending, sent, got>>
    BY DEF Tick, Waiting, shared
  <1>2. Silent \/ Clocked
    BY <1>1, MainIsServed DEF Orderly
  <1>3. CASE Clocked
    <2>1. due \in Nat \ {0}
      BY <1>1, <1>3 DEF Clocked, Preempted, TimerPending
    <2>2. due' = due - 1
      BY <1>1, <2>1, SMT
    <2>3. due' \in Nat
      BY <2>1, <2>2, SMT
    <2>4. Clocked'
      BY <1>1, <1>3, <2>1, <2>2, <2>3, InTimeTicks DEF Clocked, Sampled, Newest
    <2>5. Prepared'
      BY <1>1, <1>3, <2>4 DEF Orderly, Prepared, Clocked
    <2> QED BY <2>4, <2>5 DEF Orderly, Situation
  <1>4. CASE Silent
    <2>1. peer' = Idle /\ ~P1IFG'
      BY <1>4, TickIsQuiet
    <2>3. Silent'
      BY <1>1, <1>4, <2>1 DEF Silent, Known, Newest
    <2>4. CASE pc = "tx_wait_tx"
      <3>1. sending \in 0 .. 255
        BY <2>4, ByteAssumption DEF Orderly, Prepared
      <3>2. CASE ~CCIE
        <4>1. due = Off /\ Out(11)
          BY <2>4, <3>2 DEF Orderly, Prepared
        <4>2. due' = Off /\ txd' = txd
          BY <1>1, <4>1, SMT DEF Off
        <4>3. Out(11)'
          BY <1>1, <4>1, <4>2 DEF Out
        <4> QED BY <1>1, <2>3, <2>4, <3>2, <4>2, <4>3 DEF Orderly, Situation, Prepared
      <3>3. CASE CCIE
        <4>1. Shifting
          BY <2>4, <3>3 DEF Orderly, Prepared
        <4>2. due \in Nat \ {0}
          BY <1>1, <3>3, <4>1 DEF Shifting, Preempted, TimerPending
        <4>3. due' = due - 1 /\ due' \in Nat
          BY <1>1, <4>2, SMT
        <4>4. Out(10 - BitCnt) /\ BitCnt \in 0 .. 10
          BY <4>1, <4>2 DEF Shifting
        <4>5. CASE due = 1
          <5>1. outmod \in DOMAIN OutLevel /\ due' = 0
            BY <4>1, <4>3, <4>5, SMT DEF Shifting, OutLevel
          <5>2. 10 - BitCnt \in 0 .. 10 /\ (10 - BitCnt) + 1 = 11 - BitCnt
            BY <4>4, SMT
          <5>3. txd' = Append(txd, Line(sending)[(10 - BitCnt) + 1])
            BY <1>1, <4>1, <4>5, <5>1, <5>2 DEF Shifting
          <5>4. Out(11 - BitCnt)'
            <6>1. PICK n \in 0 .. 10 : n = 10 - BitCnt /\ n + 1 = 11 - BitCnt
              BY <5>2
            <6>2. Out(n) /\ txd' = Append(txd, Line(sending)[n + 1])
              BY <4>4, <5>3, <6>1
            <6>3. Out(n + 1)'
              BY <1>1, <3>1, <6>2, OutOneMore
            <6>4. n + 1 = 11 - BitCnt'
              BY <1>1, <6>1
            <6> QED BY <1>1, <6>1, <6>3, <6>4
          <5>5. Shifting'
            BY <1>1, <4>1, <4>3, <5>1, <5>4, Zenon DEF Shifting, Shifted, OutLevel
          <5> QED BY <1>1, <2>3, <2>4, <3>3, <5>5 DEF Orderly, Situation, Prepared
        <4>6. CASE due # 1
          <5>1. txd' = txd /\ due' # 0 /\ due # 0
            BY <1>1, <4>2, <4>3, <4>6, SMT
          <5>2. Shifting'
            BY <1>1, <4>1, <4>3, <5>1 DEF Shifting, Out
          <5> QED BY <1>1, <2>3, <2>4, <3>3, <5>2 DEF Orderly, Situation, Prepared
        <4> QED BY <4>5, <4>6
      <3> QED BY <3>2, <3>3
    <2>5. CASE pc \in {"idle", "tx_wait_rx", "rx_return"}
      BY <1>1, <2>3, <2>5 DEF Orderly, Situation, Prepared
    <2> QED BY <1>1, <2>4, <2>5
  <1> QED BY <1>2, <1>3, <1>4

------------------------------------------------------------------------------
(* The handlers.                                                           *)

LEMMA PortKeeps ==
  ASSUME Timely, Orderly, NeverDeaf, PORT1_ISR
  PROVE  Orderly'
  <1>1. Started
    BY DEF Orderly, Situation, Silent, Clocked, NeverDeaf, PORT1_ISR, PortPending
  <1>2. PICK b \in Byte : peer = [kind |-> "frame", byte |-> b, at |-> 0] /\ Newest = b
    BY <1>1 DEF Started
  <1>3. PICK late \in Latency : due' = Bit_time_5 + late
    BY DEF PORT1_ISR
  <1>4. /\ isReceiving' /\ CCIE' /\ RXByte' = 0 /\ BitCnt' = 9
        /\ UNCHANGED <<hasReceived, pc, peer, sent, got, txd, sending>>
    BY DEF PORT1_ISR, history
  <1>5. /\ due' \in Nat /\ due' >= Bit_time /\ due' < Bit_time + Bit_time
        /\ Bit_time \in Nat \ {0}
    <2>1. Bit_time_5 + late \in Bit_time .. 2 * Bit_time - 1
      BY DEF Timely
    <2>2. Bit_time \in Nat \ {0}
      BY TimingAssumption
    <2> QED BY <1>3, <2>1, <2>2, SMT
  <1>6. InTime(b)'
    <2>1. /\ peer'.at = 0 /\ peer'.kind = "frame" /\ peer'.byte = b
          /\ peer' = [kind |-> "frame", byte |-> b, at |-> peer'.at]
      BY <1>2, <1>4
    <2>2. (10 - BitCnt') * Bit_time = Bit_time
      BY <1>4, <1>5, SMT
    <2>3. /\ peer'.at \in 0 .. 10 * Bit_time - 1
          /\ peer'.at + due' >= Bit_time /\ peer'.at + due' < Bit_time + Bit_time
      BY <2>1, <1>5, SMT
    <2> QED BY <2>1, <2>2, <2>3 DEF InTime
  <1>7. RXByte' = Sampled(b, BitCnt') /\ BitCnt' \in 0 .. 9
    BY <1>4, SMT DEF Sampled
  <1>8. Clocked'
    BY <1>1, <1>2, <1>4, <1>5, <1>6, <1>7 DEF Clocked, Started, Newest
  <1>9. Prepared'
    BY <1>1, <1>4 DEF Started, Prepared
  <1> QED BY <1>8, <1>9 DEF Orderly, Situation

\* A sample: the sender is in the bit that the receiver takes it to be in.
LEMMA SampleKeeps ==
  ASSUME Orderly, Clocked, TIMERA0_ISR, RxSample
  PROVE  Orderly'
  <1>1. PICK b \in Byte : Newest = b /\ RXByte = Sampled(b, BitCnt) /\ InTime(b)
    BY DEF Clocked
  <1>2. /\ due = 0 /\ BitCnt \in 1 .. 9
        /\ due' = Bit_time /\ BitCnt' = BitCnt - 1
        /\ RXByte' = ShiftIn(RXByte, Level(peer))
        /\ UNCHANGED <<isReceiving, hasReceived, CCIE, TXByte, pc, peer, sent, got, txd, sending>>
    <2>1. BitCnt \in 1 .. 9
      BY SMT DEF Clocked, RxSample
    <2> QED BY <2>1 DEF TIMERA0_ISR, TimerPending, RxSample, NextCompare, history
  <1>3. Bit_time \in Nat \ {0}
    BY TimingAssumption
  <1> DEFINE p == (10 - BitCnt) * Bit_time
             a == peer.at
  <1>4. /\ peer.kind = "frame" /\ peer.byte = b
        /\ a \in 0 .. 10 * Bit_time - 1 /\ a + due >= p /\ a + due < p + Bit_time
        /\ peer = [kind |-> "frame", byte |-> b, at |-> a]
    BY <1>1, <1>2, SMT DEF InTime
  <1>5. /\ p \in Nat /\ (10 - BitCnt') * Bit_time = p + Bit_time
        /\ p = Bit_time * (10 - BitCnt)
    <2>1. BitCnt \in 0 .. 9 /\ 10 - BitCnt' = 11 - BitCnt
      BY <1>2, SMT
    <2>2. p = Bit_time * (10 - BitCnt)
      BY <1>2, <1>3, SMT
    <2> QED BY <2>1, <2>2, BitTimes
  <1>6. Level(peer) = FrameBit(b, 10 - BitCnt)
    <2> HIDE DEF p, a
    <2>1. a - p \in 0 .. Bit_time - 1 /\ a = p + (a - p) /\ 10 - BitCnt \in Int
      BY <1>2, <1>3, <1>4, <1>5, SMT
    <2>2. a \div Bit_time = 10 - BitCnt
      BY <1>3, <1>5, <2>1, Quotient
    <2> QED BY <1>4, <2>2 DEF Level, a
  <1>7. RXByte' = Sampled(b, BitCnt') /\ BitCnt' \in 0 .. 9
    <2>1. b \in 0 .. 255
      BY ByteAssumption
    <2>2. RXByte' = Sampled(b, BitCnt - 1)
      BY <1>1, <1>2, <1>6, <2>1, SampleStep
    <2> QED BY <1>2, <2>2, SMT
  <1>8. InTime(b)'
    <2>1. a' = a /\ a + due' >= p + Bit_time /\ a + due' < (p + Bit_time) + Bit_time
      <3>1. a' = a
        BY <1>2
      <3> HIDE DEF p, a
      <3> QED BY <1>2, <1>3, <1>4, <1>5, <3>1, SMT
    <2> QED BY <1>2, <1>4, <1>5, <2>1 DEF InTime
  <1>9. due' \in Nat
    BY <1>2, <1>3
  <1>10. Clocked'
    BY <1>1, <1>2, <1>7, <1>8, <1>9 DEF Clocked, Newest
  <1>11. Prepared'
    BY <1>2, <1>10 DEF Orderly, Prepared, Clocked
  <1> QED BY <1>10, <1>11 DEF Orderly, Situation

\* The last compare finds the sender silent and the whole byte in RXByte.
LEMMA ReceptionKeeps ==
  ASSUME Orderly, Clocked, TIMERA0_ISR, RxFinished
  PROVE  Orderly'
  <1>1. PICK b \in Byte : Newest = b /\ RXByte = Sampled(b, BitCnt) /\ InTime(b)
    BY DEF Clocked
  <1>2. /\ BitCnt = 0 /\ due = 0 /\ ~isReceiving' /\ ~P1IFG'
        /\ IF FrameValid(RXByte)
           THEN RXByte' = (RXByte \div 2) % 256 /\ hasReceived'
           ELSE UNCHANGED <<RXByte, hasReceived>>
        /\ UNCHANGED <<TXByte, pc, peer, sent, got, txd, sending>>
    BY DEF TIMERA0_ISR, TimerPending, RxFinished, RearmPort, TakeByte, history
  <1>3. b \in 0 .. 255
    BY ByteAssumption
  <1>4. RXByte' = b /\ hasReceived'
    BY <1>1, <1>2, <1>3, SampledByte
  <1>5. peer = Idle
    <2>1. Bit_time \in Nat \ {0} /\ (10 - BitCnt) * Bit_time = 10 * Bit_time
      BY <1>2, BitTimes
    <2> QED BY <1>1, <1>2, <2>1, SMT DEF InTime
  <1>6. pc \in {"idle", "tx_wait_rx", "rx_return"} /\ sent # <<>>
    BY DEF Clocked
  <1>7. Silent'
    BY <1>1, <1>2, <1>3, <1>4, <1>5, <1>6 DEF Silent, Known, Newest, Idle
  <1>8. Prepared'
    BY <1>2, <1>6, <1>7 DEF Orderly, Prepared
  <1> QED BY <1>7, <1>8 DEF Orderly, Situation

\* The next level, or the end of the transmission.
LEMMA TransmissionKeeps ==
  ASSUME Orderly, TimerIsUsed, TIMERA0_ISR, ~isReceiving, TxFinished \/ TxNextBit
  PROVE  Orderly'
  <1>1. CCIE /\ due = 0 /\ pc = "tx_wait_tx" /\ pc' = pc
    BY DEF TIMERA0_ISR, TimerPending, TimerIsUsed
  <1>2. Shifting /\ Silent /\ sending \in Byte
    BY <1>1 DEF Orderly, Prepared
  <1>3. UNCHANGED <<isReceiving, hasReceived, RXByte, P1IFG, peer, sent, got, txd, sending>>
    BY DEF TIMERA0_ISR, TxFinished, TxNextBit, shared, port, history
  <1>4. Silent'
    BY <1>1, <1>2, <1>3, SilentStays
  <1>5. Out(11 - BitCnt) /\ BitCnt \in 0 .. 10
    BY <1>1, <1>2 DEF Shifting
  <1>6. CASE TxFinished
    <2>1. BitCnt = 0 /\ ~CCIE' /\ due' = Off
      BY <1>6 DEF TxFinished, StopTimer
    <2>2. 11 - BitCnt = 11
      BY <2>1, SMT
    <2>3. Out(11)'
      BY <1>3, <1>5, <2>2 DEF Out
    <2> QED BY <1>1, <1>2, <1>3, <1>4, <2>1, <2>3 DEF Orderly, Situation, Prepared
  <1>7. CASE TxNextBit
    <2>1. /\ BitCnt \in 1 .. 10 /\ BitCnt' = BitCnt - 1 /\ due' = Bit_time
          /\ TXByte' = TXByte \div 2 /\ CCIE' = CCIE
          /\ outmod' = IF TXByte % 2 = 1 THEN "set" ELSE "reset"
      <3>1. BitCnt \in 1 .. 10
        BY <1>5, <1>7, SMT DEF TxNextBit
      <3> QED BY <1>7, <3>1 DEF TxNextBit, NextCompare
    <2>2. PICK n \in 0 .. 9 : n = 10 - BitCnt
      BY <2>1, SMT
    <2>3. n + 1 = 11 - BitCnt /\ n + 1 = 10 - BitCnt' /\ n + 2 = 11 - BitCnt' /\ BitCnt' \in 0 .. 10
      BY <2>1, <2>2, SMT
    <2>4. sending \in 0 .. 255
      BY <1>2, ByteAssumption
    <2>5. TXByte = Shifted(sending, n)
      BY <1>2, <2>2 DEF Shifting
    <2>6. TXByte' = Shifted(sending', 10 - BitCnt')
      BY <1>3, <2>1, <2>3, <2>4, <2>5, ShiftStep
    <2>7. TXByte % 2 = Line(sending)[n + 2] /\ TXByte % 2 \in {0, 1}
      <3>1. TXByte % 2 = FrameBit(sending, n)
        BY <2>4, <2>5, ShiftStep
      <3>2. Line(sending)[n + 2] = FrameBit(sending, n)
        BY <2>4, LineShape
      <3>3. FrameBit(sending, n) \in {0, 1}
        BY <2>4, FrameValues, SMT
      <3> QED BY <3>1, <3>2, <3>3
    <2>8. outmod' \in {"set", "reset"} /\ OutLevel[outmod'] = Line(sending')[11 - BitCnt']
      <3>1. OutLevel["set"] = 1 /\ OutLevel["reset"] = 0
        BY DEF OutLevel
      <3>2. OutLevel[outmod'] = TXByte % 2
        BY <2>1, <2>7, <3>1
      <3> QED BY <1>3, <2>1, <2>3, <2>7, <3>2
    <2>9. Bit_time \in Nat \ {0}
      BY TimingAssumption
    <2>10. Out(n + 1)'
      BY <1>3, <1>5, <2>3 DEF Out
    <2>11. Shifting'
      BY <2>1, <2>3, <2>6, <2>8, <2>9, <2>10 DEF Shifting
    <2> QED BY <1>1, <1>2, <1>3, <1>4, <2>1, <2>11 DEF Orderly, Situation, Prepared
  <1> QED BY <1>6, <1>7

LEMMA TimerKeeps ==
  ASSUME Orderly, NeverDeaf, TimerIsUsed, TIMERA0_ISR
  PROVE  Orderly'
  <1>1. CASE isReceiving
    <2>1. Clocked
      BY <1>1 DEF Orderly, Situation, Silent, Started
    <2> QED BY <1>1, <2>1, SampleKeeps, ReceptionKeeps DEF TIMERA0_ISR
  <1>2. CASE ~isReceiving
    BY <1>2, TransmissionKeeps DEF TIMERA0_ISR
  <1> QED BY <1>1, <1>2

------------------------------------------------------------------------------
(* The main program.                                                       *)

\* A statement of suart_transmit() changes nothing of the situation.
LEMMA CallKeeps ==
  ASSUME Orderly, NeverDeaf, ~Preempted, NEW b \in Byte, TxCall(b)
  PROVE  Orderly'
  <1>1. /\ pc = "idle" /\ pc' = "tx_wait_rx" /\ TXByte' = b /\ sending' = b
        /\ UNCHANGED <<isReceiving, hasReceived, RXByte, BitCnt, due, CCIE, P1IFG, peer, sent, got>>
    BY DEF TxCall, Goto, timer, port
  <1>2. Situation'
    <2>1. CASE Silent
      BY <1>1, <2>1, SilentStays DEF Situation
    <2>2. CASE Clocked
      BY <1>1, <2>2, ClockedStays DEF Situation
    <2> QED BY <2>1, <2>2, MainIsServed DEF Orderly
  <1>3. Prepared'
    BY <1>1 DEF Prepared
  <1> QED BY <1>2, <1>3 DEF Orderly

LEMMA WaitedKeeps ==
  ASSUME Orderly, NeverDeaf, ~Preempted, TxWaitRx
  PROVE  Orderly'
  <1>1. /\ pc = "tx_wait_rx" /\ pc' = "tx_mark" /\ ~isReceiving
        /\ UNCHANGED <<isReceiving, hasReceived, RXByte, TXByte, P1IFG, peer, sent, got, sending>>
    BY DEF TxWaitRx, Goto, shared, port, history
  <1>2. Silent
    BY <1>1, MainIsServed DEF Orderly, Clocked
  <1>3. Silent'
    BY <1>1, <1>2, SilentStays
  <1>4. Prepared'
    BY <1>1, <1>3 DEF Orderly, Prepared
  <1> QED BY <1>3, <1>4 DEF Orderly, Situation

LEMMA SetUpKeeps ==
  ASSUME Orderly, TxMark \/ TxLoad \/ TxCompare \/ TxFrame \/ TxEnable
  PROVE  Orderly'
  <1> USE DEF Goto, shared, timer, port, history
  <1>1. /\ pc \in {"tx_mark", "tx_load", "tx_compare", "tx_frame", "tx_enable"}
        /\ pc' \in {"tx_load", "tx_compare", "tx_frame", "tx_enable", "tx_wait_tx"}
        /\ UNCHANGED <<isReceiving, hasReceived, RXByte, P1IFG, peer, sent, got, sending>>
    BY DEF TxMark, TxLoad, TxCompare, TxFrame, TxEnable
  <1>2. Silent /\ sending \in Byte
    BY <1>1 DEF Orderly, Prepared
  <1>3. Silent'
    BY <1>1, <1>2, SilentStays
  <1>4. CASE TxMark
    <2>1. Prepared'
      BY <1>2, <1>3, <1>4 DEF Orderly, Prepared, TxMark
    <2> QED BY <1>3, <2>1 DEF Orderly, Situation
  <1>5. CASE TxLoad
    <2>1. Prepared'
      BY <1>2, <1>3, <1>5 DEF Orderly, Prepared, TxLoad
    <2> QED BY <1>3, <2>1 DEF Orderly, Situation
  <1>6. CASE TxCompare
    <2>1. Prepared'
      BY <1>2, <1>3, <1>6 DEF Orderly, Prepared, TxCompare
    <2> QED BY <1>3, <2>1 DEF Orderly, Situation
  <1>7. CASE TxFrame
    <2>1. TXByte' = Shifted(sending', 0)
      BY <1>7 DEF Orderly, Prepared, TxFrame, Shifted
    <2>2. Prepared'
      BY <1>2, <1>3, <1>7, <2>1 DEF Orderly, Prepared, TxFrame
    <2> QED BY <1>3, <2>2 DEF Orderly, Situation
  <1>8. CASE TxEnable
    <2>1. /\ pc = "tx_enable" /\ pc' = "tx_wait_tx" /\ CCIE' /\ outmod' = "set"
          /\ UNCHANGED <<BitCnt, TXByte, due, txd, sending>>
      BY <1>8 DEF TxEnable
    <2>2. BitCnt = 10 /\ due = Bit_time /\ txd = <<>> /\ TXByte = Shifted(sending, 0)
      BY <2>1 DEF Orderly, Prepared
    <2>3. Bit_time \in Nat /\ Bit_time # 0
      BY TimingAssumption
    <2>4. BitCnt' \in 0 .. 10 /\ 10 - BitCnt' = 0 /\ 11 - BitCnt' = 1
      BY <2>1, <2>2, SMT
    <2>5. OutLevel["set"] = 1 /\ Line(sending)[1] = 1
      BY <1>2, ByteAssumption, LineShape DEF OutLevel
    <2>6. Out(0)'
      BY <2>1, <2>2, SMT DEF Out
    <2>7. Shifting'
      BY <2>1, <2>2, <2>3, <2>4, <2>5, <2>6 DEF Shifting
    <2>8. Prepared'
      BY <1>2, <1>3, <2>1, <2>7 DEF Prepared
    <2> QED BY <1>3, <2>8 DEF Orderly, Situation
  <1> QED BY <1>4, <1>5, <1>6, <1>7, <1>8

\* suart_transmit() returns, or suart_receive() takes what is in RXByte.
LEMMA ReturnKeeps ==
  ASSUME Orderly, Histories, NeverDeaf, ~Preempted, TxReturn \/ RxClear \/ RxReturn
  PROVE  Orderly'
  <1> USE DEF Goto, shared, timer, port, history
  <1>1. CASE TxReturn
    <2>1. /\ pc = "tx_wait_tx" /\ pc' = "idle"
          /\ UNCHANGED <<isReceiving, hasReceived, RXByte, P1IFG, peer, sent, got>>
      BY <1>1 DEF TxReturn
    <2>2. Silent'
      BY <2>1, SilentStays DEF Orderly, Prepared
    <2>3. Prepared'
      BY <2>1 DEF Prepared
    <2> QED BY <2>2, <2>3 DEF Orderly, Situation
  <1>2. CASE RxClear
    <2>1. /\ pc = "idle" /\ pc' = "rx_return" /\ hasReceived
          /\ UNCHANGED <<isReceiving, RXByte, BitCnt, due, CCIE, P1IFG, peer, sent, got>>
      BY <1>2 DEF RxClear, suart_datawaiting
    <2>2. Silent => Silent'
      BY <2>1 DEF Silent, Known, Newest
    <2>3. Clocked => Clocked'
      BY <2>1, ClockedStays
    <2>4. Prepared'
      BY <2>1 DEF Prepared
    <2> QED BY <2>2, <2>3, <2>4, MainIsServed DEF Orderly, Situation
  <1>3. CASE RxReturn
    <2>1. /\ pc = "rx_return" /\ pc' = "idle" /\ got' = Append(got, RXByte % 256)
          /\ UNCHANGED <<isReceiving, hasReceived, RXByte, BitCnt, due, CCIE, P1IFG, peer, sent>>
      BY <1>3 DEF RxReturn
    <2>2. ASSUME Silent PROVE Silent'
      <3>1. RXByte \in 0 .. 255 /\ RXByte = Newest /\ sent # <<>>
        BY <2>1, <2>2 DEF Silent, Known
      <3>2. got' = Append(got, RXByte)
        BY <2>1, <3>1, ByteStays
      <3>3. got' # <<>> /\ got'[Len(got')] = RXByte
        BY <3>1, <3>2, LastAppended DEF Histories
      <3> QED BY <2>1, <2>2, <3>1, <3>3 DEF Silent, Known, Newest
    <2>3. Clocked => Clocked'
      BY <2>1, ClockedStays
    <2>4. Prepared'
      BY <2>1 DEF Prepared
    <2> QED BY <2>2, <2>3, <2>4, MainIsServed DEF Orderly, Situation
  <1> QED BY <1>1, <1>2, <1>3

------------------------------------------------------------------------------
(* The results.                                                            *)

LEMMA OrderlyStays ==
  ASSUME Timely, NeverDeaf, TimerIsUsed, Orderly, Histories, [Next]_vars, legible'
  PROVE  Orderly'
  <1>1. CASE UNCHANGED vars
    BY <1>1 DEF vars, shared, timer, port, history, Orderly, Situation, Silent, Known, Started,
                Clocked, Newest, InTime, Prepared, Shifting, Out
  <1>2. CASE \E b \in Byte : PeerStart(b)
    BY <1>2, StartKeeps
  <1>3. CASE PeerGlitch
    BY <1>3, GlitchIsIllegible
  <1>4. CASE Tick \/ PORT1_ISR \/ TIMERA0_ISR
    BY <1>4, TickKeeps, PortKeeps, TimerKeeps
  <1>5. CASE ~Preempted /\ \E b \in Byte : TxCall(b)
    BY <1>5, CallKeeps
  <1>6. CASE Main
    BY <1>6, WaitedKeeps, SetUpKeeps, ReturnKeeps DEF Main, suart_transmit
  <1> QED BY <1>1, <1>2, <1>3, <1>4, <1>5, <1>6 DEF Next

\* What suart_receive() returns is a byte, of a frame or of its first samples.
LEMMA HistoriesStay ==
  ASSUME NeverDeaf, Orderly, Histories, [Next]_vars
  PROVE  Histories'
  <1> USE DEF Histories
  <1>1. ASSUME NEW b \in Byte, PeerStart(b) PROVE Histories'
    BY <1>1, NewestStarted DEF PeerStart, Falls
  <1>2. CASE PeerGlitch \/ Tick \/ UNCHANGED vars
    BY <1>2 DEF PeerGlitch, Falls, Tick, vars, history
  <1>3. CASE PORT1_ISR \/ TIMERA0_ISR
    BY <1>3 DEF PORT1_ISR, TIMERA0_ISR, history
  <1>4. CASE (\E b \in Byte : TxCall(b)) \/ suart_transmit \/ RxClear
    BY <1>4 DEF TxCall, suart_transmit, TxWaitRx, TxMark, TxLoad, TxCompare, TxFrame,
                TxEnable, TxReturn, RxClear, history
  <1>5. CASE ~Preempted /\ RxReturn
    <2>1. pc = "rx_return" /\ sent' = sent /\ got' = Append(got, RXByte % 256)
      BY <1>5 DEF RxReturn, Goto
    <2>2. RXByte \in Nat
      <3>1. CASE Silent
        <4>1. RXByte \in 0 .. 255
          BY <2>1, <3>1 DEF Silent, Known
        <4> QED BY <4>1
      <3>2. CASE Clocked
        <4>1. PICK b \in Byte : RXByte = Sampled(b, BitCnt)
          BY <3>2 DEF Clocked
        <4>2. b \in 0 .. 255 /\ BitCnt \in 0 .. 9
          BY <3>2, ByteAssumption DEF Clocked
        <4> QED BY <4>1, <4>2, SampledType
      <3> QED BY <1>5, <3>1, <3>2, MainIsServed DEF Orderly
    <2>3. RXByte % 256 \in 0 .. 255
      BY <2>2, SMT
    <2> QED BY <2>1, <2>3, AppendProperties
  <1> QED BY <1>1, <1>2, <1>3, <1>4, <1>5 DEF Next, Main

\* A polite sender's byte is read before the next one comes.
LEMMA BooksStay ==
  ASSUME NeverDeaf, TimerIsUsed, Orderly, Histories, Books, [Next]_vars, polite'
  PROVE  Books'
  <1> USE DEF Books, Newest
  <1>1. ASSUME NEW b \in Byte, PeerStart(b) PROVE Books'
    <2>1. Liberties = {} /\ ~P1IFG
      BY <1>1 DEF PeerStart, Falls, LineQuiet
    <2>2. ~(isReceiving \/ hasReceived \/ pc = "rx_return")
      <3>1. "hurry" \notin Liberties /\ "crowd" \notin Liberties
        BY <2>1
      <3> QED BY <3>1 DEF Liberties
    <2>3. sent' = Append(got', b) /\ Newest' = b
      BY <1>1, <2>1, <2>2, NewestStarted DEF PeerStart, Falls, Histories
    <2>4. ~hasReceived' /\ pc' # "rx_return" /\ P1IFG'
      BY <1>1, <2>2 DEF PeerStart, Falls, shared
    <2> QED BY <2>3, <2>4
  <1>2. CASE PeerGlitch
    BY <1>2 DEF PeerGlitch, Falls
  <1>3. CASE Tick
    <2>1. UNCHANGED <<isReceiving, hasReceived, RXByte, pc, sent, got>>
      BY <1>3 DEF Tick, shared
    <2>2. isReceiving \/ (~P1IFG /\ ~P1IFG')
      BY <1>3, TickIsQuiet, MainIsServed DEF Orderly, Clocked, Silent, Tick
    <2> QED BY <2>1, <2>2
  <1>4. CASE PORT1_ISR
    BY <1>4 DEF PORT1_ISR, PortPending, history
  <1>5. CASE TIMERA0_ISR
    <2>1. CASE isReceiving /\ RxFinished
      <3>1. PICK b \in Byte : Newest = b /\ RXByte = Sampled(b, BitCnt)
        BY <2>1 DEF Orderly, Situation, Silent, Started, Clocked
      <3>2. BitCnt = 0 /\ b \in 0 .. 255
        BY <2>1, ByteAssumption DEF RxFinished
      <3>3. RXByte' = b /\ hasReceived'
        BY <2>1, <3>1, <3>2, SampledByte DEF RxFinished, TakeByte
      <3>4. /\ ~isReceiving' /\ ~P1IFG' /\ pc' # "rx_return"
            /\ UNCHANGED <<sent, got>>
        BY <1>5, <2>1 DEF TIMERA0_ISR, RxFinished, RearmPort, history
      <3> QED BY <2>1, <3>1, <3>3, <3>4
    <2>2. CASE isReceiving /\ RxSample
      BY <1>5, <2>2 DEF TIMERA0_ISR, RxSample, port, history
    <2>3. CASE TxFinished \/ TxNextBit
      BY <1>5, <2>3 DEF TIMERA0_ISR, TxFinished, TxNextBit, shared, port, history
    <2> QED BY <1>5, <2>1, <2>2, <2>3 DEF TIMERA0_ISR
  <1>6. CASE (\E b \in Byte : TxCall(b)) \/ suart_transmit
    <2>1. /\ pc # "rx_return" /\ pc' # "rx_return"
          /\ UNCHANGED <<isReceiving, hasReceived, RXByte, P1IFG, sent, got>>
      BY <1>6 DEF TxCall, suart_transmit, TxWaitRx, TxMark, TxLoad, TxCompare, TxFrame,
                  TxEnable, TxReturn, Goto, shared, port, history
    <2> QED BY <2>1
  <1>7. CASE ~Preempted /\ RxClear
    BY <1>7 DEF RxClear, Goto, suart_datawaiting, port, history
  <1>8. CASE ~Preempted /\ RxReturn
    <2>1. /\ pc = "rx_return" /\ pc' = "idle" /\ got' = Append(got, RXByte % 256)
          /\ UNCHANGED <<isReceiving, hasReceived, P1IFG, sent>>
      BY <1>8 DEF RxReturn, Goto, shared, port
    <2>2. ~isReceiving /\ ~P1IFG /\ ~hasReceived /\ sent = Append(got, RXByte)
      BY <2>1
    <2>3. RXByte \in 0 .. 255
      BY <1>8, <2>1, <2>2, MainIsServed DEF Orderly, Clocked, Silent, Known
    <2>4. RXByte % 256 = RXByte
      BY <2>3, ByteStays
    <2> QED BY <2>1, <2>2, <2>4
  <1>9. CASE UNCHANGED vars
    BY <1>9 DEF vars, shared, port, history
  <1> QED BY <1>1, <1>2, <1>3, <1>4, <1>5, <1>6, <1>7, <1>8, <1>9 DEF Next, Main

LEMMA InitIInv == Init => IInv
  <1> SUFFICES ASSUME Init PROVE IInv
    OBVIOUS
  <1>1. TimerIsUsed
    BY DEF Init, TimerIsUsed
  <1>2. Silent /\ Prepared /\ Histories /\ Books
    BY DEF Init, Silent, Known, Prepared, Histories, Books
  <1>3. legible
    BY DEF Init
  <1> QED BY <1>1, <1>2, <1>3, InitNeverDeaf DEF IInv, Orderly, Situation

LEMMA NextIInv == ASSUME Timely PROVE IInv /\ [Next]_vars => IInv'
  <1> SUFFICES ASSUME IInv, [Next]_vars PROVE IInv'
    OBVIOUS
  <1>1. NeverDeaf'
    BY NeverDeafStays DEF IInv
  <1>2. TimerIsUsed'
    BY TimerStays DEF IInv
  <1>3. ASSUME legible' PROVE Orderly' /\ Histories'
    BY <1>3, Politeness, OrderlyStays, HistoriesStay DEF IInv
  <1>4. ASSUME polite' PROVE legible' /\ Books'
    BY <1>4, Politeness, BooksStay DEF IInv
  <1> QED BY <1>1, <1>2, <1>3, <1>4 DEF IInv

LEMMA Invariance == ASSUME Timely PROVE Spec => []IInv
  BY InitIInv, NextIInv, PTL DEF Spec

\* From a polite sender, and with a first sample that falls in the first data
\* bit, suart_receive() returns every byte, once and in order: for every bit
\* time, every such delay of the handlers, and between any transmissions.
THEOREM ReceivesWhatWasSentHolds ==
  ASSUME Timely
  PROVE  Spec => []ReceivesWhatWasSent
  <1>1. IInv => ReceivesWhatWasSent
    BY DEF IInv, Books, ReceivesWhatWasSent, LineQuiet
  <1> QED BY <1>1, Invariance, PTL

\* From one that hurries, but leaves each frame a line and a receiver that are
\* free, the newest byte is never lost or garbled: whenever nothing is clocked in
\* it waits, or is what suart_receive() has returned last.
THEOREM NewestByteIsReadHolds ==
  ASSUME Timely
  PROVE  Spec => []NewestByteIsRead
  <1>1. IInv => NewestByteIsRead
    BY DEF IInv, Orderly, Situation, Silent, Known, Started, Clocked, NewestByteIsRead
  <1> QED BY <1>1, Invariance, PTL

\* The same of the transmitter: at the return of suart_transmit() the whole
\* frame has been on the line, whatever reception it had to wait for.
THEOREM PoliteTransmitIsCompleteHolds ==
  ASSUME Timely
  PROVE  Spec => PoliteTransmitIsComplete
  <1>1. IInv /\ [Next]_vars
          => [polite /\ Goto("tx_wait_tx", "idle") => txd = <<1>> \o Frame(sending)]_vars
    <2> SUFFICES ASSUME IInv, [Next]_vars, polite, Goto("tx_wait_tx", "idle")
                 PROVE  txd = Line(sending)
      BY DEF Line
    <2>1. pc = "tx_wait_tx" /\ pc' = "idle"
      BY DEF Goto
    <2>2. ~CCIE
      <3>1. TxReturn
        BY <2>1 DEF Next, PeerStart, PeerGlitch, Falls, Tick, PORT1_ISR, TIMERA0_ISR, TxCall,
                    Main, suart_transmit, TxWaitRx, TxMark, TxLoad, TxCompare, TxFrame, TxEnable,
                    RxClear, RxReturn, Goto, vars
      <3> QED BY <3>1 DEF TxReturn
    <2>3. Out(11) /\ sending \in 0 .. 255
      BY <2>1, <2>2, ByteAssumption DEF IInv, Orderly, Prepared
    <2> DEFINE l == Line(sending)
    <2>4. l \in Seq({0, 1}) /\ Len(l) = 11
      BY <2>3, LineShape
    <2>5. txd \in Seq({0, 1}) /\ Len(txd) = 11 /\ \A i \in 1 .. 11 : txd[i] = l[i]
      BY <2>3 DEF Out
    <2> HIDE DEF l
    <2>6. txd = l
      BY <2>4, <2>5, SeqEqual
    <2> QED BY <2>6 DEF l
  <1> QED BY <1>1, Invariance, PTL DEF Spec, PoliteTransmitIsComplete
==============================================================================
