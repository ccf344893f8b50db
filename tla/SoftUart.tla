------------------------------ MODULE SoftUart -------------------------------
(***************************************************************************)
(* The half-duplex software UART of shared/suart.c.  Three parties share   *)
(* BitCnt, RXByte, TXByte, the timer and CCTL0: the main program in        *)
(* suart_transmit() and suart_receive(), the port interrupt that sees a    *)
(* start bit, and the timer interrupt that clocks bits in and out.         *)
(*                                                                         *)
(* Time is counted in ticks, Bit_time of them to a bit.  The timer is the  *)
(* number of ticks until TAR reaches CCR0.  A statement of the main        *)
(* program and a handler take no time of their own, except that the first  *)
(* sample is late by one of the delays in Latency: the cycles between the  *)
(* start bit's edge and the read of TAR, and between the compare and the   *)
(* read of P1IN.                                                           *)
(***************************************************************************)
EXTENDS Integers, Sequences

CONSTANTS Bit_time,    \* ticks in a bit
          Bit_time_5,  \* "Time for half a bit" (suart.h)
          Latency,     \* the delays of the first sample, see above
          Byte,        \* the bytes the two sides send, numbers of eight bits
          MaxFrames,   \* bound: frames and glitches on the receive line
          MaxSends,    \* bound: calls of suart_transmit()
          PeerMay      \* liberties the sender at the other end takes:
                       \*   "overlap"  it starts a frame while the kit transmits
                       \*   "crowd"    it starts one while the last is clocked in
                       \*   "hurry"    it starts one before the last was read
                       \*   "glitch"   a spike that is no start bit

ASSUME TimingAssumption == /\ Bit_time \in Nat \ {0}
                           /\ Bit_time_5 \in 1 .. Bit_time
                           /\ Latency \subseteq Nat
ASSUME ByteAssumption == Byte \subseteq 0 .. 255
ASSUME BoundAssumption == MaxFrames \in Nat /\ MaxSends \in Nat
ASSUME PeerAssumption == PeerMay \subseteq {"overlap", "crowd", "hurry", "glitch"}

VARIABLES BitCnt, TXByte, RXByte, isReceiving, hasReceived,  \* suart.c's own
          due,          \* ticks to the compare; Off while the timer is stopped
          CCIE,         \* CCTL0: the compare interrupt is enabled
          outmod,       \* CCTL0: what the next compare does to the TXD line
          P1IE, P1IFG,  \* the port's edge interrupt on RXD: enable and flag
          pc,           \* the main program's next statement
          peer,         \* what the other end is sending
          txd,          \* history: levels put on TXD since suart_transmit() began
          sending,      \* history: the byte suart_transmit() was called with
          sent,         \* history: bytes the other end has sent in full frames
          got,          \* history: bytes suart_receive() returned
          spikes, sends, \* history: glitches seen, transmissions begun
          polite,       \* history: the other end has taken no liberty so far,
          legible       \*   and none but to hurry

shared == <<BitCnt, TXByte, RXByte, isReceiving, hasReceived>>
timer == <<due, CCIE, outmod>>
port == <<P1IE, P1IFG>>
history == <<txd, sending, sent, got,
                       spikes, sends, polite, legible>>
vars == <<shared, timer, port, pc, peer, history>>

Off == -1                                  \* TACTL = TASSEL_2: no compare comes
OutLevel == [set |-> 1, reset |-> 0]       \* OUTMOD0, and with OUTMOD2
Idle == [kind |-> "idle", byte |-> 0, at |-> 0]

Bit(n, k) == (n \div 2 ^ k) % 2

\* The level of a frame's n-th bit: start, eight data bits, stop.
FrameBit(b, n) == CASE n = 0 -> 0
                    [] n \in 1 .. 8 -> Bit(b, n - 1)
                    [] OTHER -> 1
Frame(b) == [n \in 1 .. 10 |-> FrameBit(b, n - 1)]

\* P1IN & RXD while the other end is p.at ticks into what it sends.
Level(p) == CASE p.kind = "idle" -> 1
              [] p.kind = "glitch" -> 0
              [] p.kind = "frame" -> FrameBit(p.byte, p.at \div Bit_time)

Init == /\ BitCnt = 0 /\ TXByte = 0 /\ RXByte = 0
        /\ isReceiving = FALSE /\ hasReceived = FALSE
        /\ due = Off /\ CCIE = FALSE /\ outmod = "out"
        /\ P1IE = TRUE /\ P1IFG = FALSE
        /\ pc = "idle"
        /\ peer = Idle
        /\ txd = <<>> /\ sending = 0 /\ sent = <<>> /\ got = <<>>
        /\ spikes = 0 /\ sends = 0 /\ polite = TRUE /\ legible = TRUE

------------------------------------------------------------------------------
(* The other end of the line.                                              *)

LineQuiet == peer = Idle /\ ~P1IFG

\* A polite sender waits until the kit has read its last byte, and keeps
\* silent while the kit transmits.
Liberties == {l \in {"hurry"} : hasReceived \/ pc = "rx_return"}
             \cup {l \in {"crowd"} : isReceiving}
             \cup {l \in {"overlap"} : pc \notin {"idle", "rx_return"}}

\* The line falls.
Falls(liberties) == /\ LineQuiet
                    /\ Len(sent) + spikes < MaxFrames
                    /\ liberties \subseteq PeerMay
                    /\ polite' = (polite /\ liberties = {})
                    /\ legible' = (legible /\ liberties \subseteq {"hurry"})
                    /\ P1IFG' = TRUE
                    /\ UNCHANGED <<shared, timer, P1IE, pc, txd, sending, got, sends>>

PeerStart(b) == /\ Falls(Liberties)
                /\ peer' = [kind |-> "frame", byte |-> b, at |-> 0]
                /\ sent' = Append(sent, b)
                /\ UNCHANGED spikes

PeerGlitch == /\ Falls(Liberties \cup {"glitch"})
              /\ peer' = [Idle EXCEPT !.kind = "glitch"]
              /\ spikes' = spikes + 1
              /\ UNCHANGED sent

PeerAfterTick == CASE peer.kind = "frame" /\ peer.at + 1 < 10 * Bit_time ->
                        [peer EXCEPT !.at = @ + 1]
                   [] OTHER -> Idle

------------------------------------------------------------------------------
(* Time, and what interrupts whom.                                         *)

TimerPending == CCIE /\ due = 0
PortPending == P1IE /\ P1IFG
Preempted == TimerPending \/ PortPending

\* Where the main program can be while time passes: elsewhere in the
\* application, in one of the two waiting loops, or in suart_receive(), whose
\* two statements a compare can fall between.
Waiting == pc \in {"idle", "tx_wait_rx", "tx_wait_tx", "rx_return"}

\* One tick.  At the compare the output unit puts its level on TXD before any
\* handler runs; an edge sets P1IFG whether or not P1IE allows the interrupt.
Tick == /\ Waiting /\ ~Preempted
        /\ peer # Idle \/ due # Off
        /\ peer' = PeerAfterTick
        /\ P1IFG' = (P1IFG \/ (Level(peer) = 1 /\ Level(peer') = 0))
        /\ due' = IF due > 0 THEN due - 1 ELSE due
        /\ txd' = IF due = 1 /\ outmod \in DOMAIN OutLevel
                  THEN Append(txd, OutLevel[outmod]) ELSE txd
        /\ UNCHANGED <<shared, CCIE, outmod, P1IE, pc, sending, sent, got,
                       spikes, sends, polite, legible>>

------------------------------------------------------------------------------
(* The two handlers.                                                       *)

PORT1_ISR == /\ PortPending /\ ~TimerPending     \* the timer's vector has priority
             /\ isReceiving' = TRUE
             /\ P1IE' = FALSE
             /\ P1IFG' = FALSE
             /\ \E late \in Latency : due' = Bit_time_5 + late
             /\ CCIE' = TRUE
             /\ outmod' = "toggle"
             /\ RXByte' = 0
             /\ BitCnt' = 9
             /\ UNCHANGED <<TXByte, hasReceived, pc, peer, history>>

\* TACTL = TASSEL_2; CCTL0 &= ~CCIE.  (The other form leaves CCIE on.)
StopTimerOnly == due' = Off /\ UNCHANGED CCIE
StopTimer == due' = Off /\ CCIE' = FALSE

\* CCR0 += Bit_time.  (The other form forgets it.)
SameCompare == due' = Off
NextCompare == due' = Bit_time

\* P1IFG &= ~RXD; P1IE |= RXD.  (The other form leaves P1IE off.)
ClearPortOnly == P1IFG' = FALSE /\ UNCHANGED P1IE
RearmPort == P1IFG' = FALSE /\ P1IE' = TRUE

\* RXByte |= 0x400 if the line is high; RXByte >>= 1.  (The other forms shift
\* first, or not at all.)
ShiftThenSet(rx, level) == rx \div 2 + 1024 * level
ShiftIn(rx, level) == (rx + 1024 * level) \div 2

\* The last bit is out: stop the timer.
TxFinished == /\ BitCnt = 0
              /\ StopTimer
              /\ UNCHANGED <<shared, outmod, port>>

\* Choose the level the next compare will put on the line.
TxNextBit == /\ BitCnt > 0
             /\ NextCompare
             /\ outmod' = IF TXByte % 2 = 1 THEN "set" ELSE "reset"
             /\ TXByte' = TXByte \div 2
             /\ BitCnt' = BitCnt - 1
             /\ UNCHANGED <<RXByte, isReceiving, hasReceived, CCIE, port>>

\* (RXByte & 0x201) == 0x200
FrameValid(rx) == Bit(rx, 9) = 1 /\ Bit(rx, 0) = 0

\* The byte of a valid frame, without start and stop bit.  (The other form
\* means to keep the byte that waits.)
TakeIfFree == IF FrameValid(RXByte) /\ ~hasReceived
              THEN RXByte' = (RXByte \div 2) % 256 /\ hasReceived' = TRUE
              ELSE UNCHANGED <<RXByte, hasReceived>>
TakeByte == IF FrameValid(RXByte)
            THEN RXByte' = (RXByte \div 2) % 256 /\ hasReceived' = TRUE
            ELSE UNCHANGED <<RXByte, hasReceived>>

RxFinished == /\ BitCnt = 0
              /\ StopTimer
              /\ isReceiving' = FALSE
              /\ RearmPort
              /\ TakeByte
              /\ UNCHANGED <<BitCnt, TXByte, outmod>>

RxSample == /\ BitCnt > 0
            /\ NextCompare
            /\ RXByte' = ShiftIn(RXByte, Level(peer))
            /\ BitCnt' = BitCnt - 1
            /\ UNCHANGED <<TXByte, isReceiving, hasReceived, CCIE, outmod, port>>

TIMERA0_ISR == /\ TimerPending
               /\ IF isReceiving THEN RxFinished \/ RxSample
                                 ELSE TxFinished \/ TxNextBit
               /\ UNCHANGED <<pc, peer, history>>

------------------------------------------------------------------------------
(* The main program: suart_transmit(), suart_datawaiting() and             *)
(* suart_receive(), statement by statement.                                *)

Goto(from, to) == pc = from /\ pc' = to

TxCall(b) == /\ Goto("idle", "tx_wait_rx")
             /\ sends < MaxSends
             /\ sends' = sends + 1
             /\ TXByte' = b
             /\ sending' = b
             /\ UNCHANGED <<BitCnt, RXByte, isReceiving, hasReceived, timer, port, peer,
                            txd, sent, got, spikes, polite, legible>>

\* (The other form does not wait.)
TxNoWaitRx == /\ Goto("tx_wait_rx", "tx_mark")
              /\ UNCHANGED <<shared, timer, port, peer, history>>

TxWaitRx == /\ Goto("tx_wait_rx", "tx_mark")
            /\ ~isReceiving
            /\ UNCHANGED <<shared, timer, port, peer, history>>

TxMark == /\ Goto("tx_mark", "tx_load")
          /\ CCIE' = FALSE
          /\ outmod' = "out"
          /\ txd' = <<>>
          /\ UNCHANGED <<shared, due, port, peer, sending, sent, got,
                       spikes, sends, polite, legible>>

TxLoad == /\ Goto("tx_load", "tx_compare")
          /\ BitCnt' = 10
          /\ UNCHANGED <<TXByte, RXByte, isReceiving, hasReceived, timer, port, peer, history>>

TxCompare == /\ Goto("tx_compare", "tx_frame")
             /\ due' = Bit_time
             /\ UNCHANGED <<shared, CCIE, outmod, port, peer, history>>

\* Stop bit in front of the data, start bit behind it.
TxFrame == /\ Goto("tx_frame", "tx_enable")
           /\ TXByte' = 2 * (TXByte + 256)
           /\ UNCHANGED <<BitCnt, RXByte, isReceiving, hasReceived, timer, port, peer, history>>

TxEnable == /\ Goto("tx_enable", "tx_wait_tx")
            /\ CCIE' = TRUE
            /\ outmod' = "set"
            /\ UNCHANGED <<shared, due, port, peer, history>>

TxReturn == /\ Goto("tx_wait_tx", "idle")
            /\ ~CCIE
            /\ UNCHANGED <<shared, timer, port, peer, history>>

suart_transmit == TxWaitRx \/ TxMark \/ TxLoad \/ TxCompare \/ TxFrame \/ TxEnable \/ TxReturn

\* The application calls suart_receive() when suart_datawaiting() says so.
suart_datawaiting == hasReceived

RxClear == /\ Goto("idle", "rx_return")
           /\ suart_datawaiting
           /\ hasReceived' = FALSE
           /\ UNCHANGED <<BitCnt, TXByte, RXByte, isReceiving, timer, port, peer, history>>

RxReturn == /\ Goto("rx_return", "idle")
            /\ got' = Append(got, RXByte % 256)     \* unsigned char
            /\ UNCHANGED <<shared, timer, port, peer, txd, sending, sent,
                            spikes, sends, polite, legible>>

Main == ~Preempted /\ (suart_transmit \/ RxClear \/ RxReturn)

Next == \/ \E b \in Byte : PeerStart(b)
        \/ PeerGlitch
        \/ Tick
        \/ PORT1_ISR
        \/ TIMERA0_ISR
        \/ ~Preempted /\ \E b \in Byte : TxCall(b)
        \/ Main

Spec == Init /\ [][Next]_vars

\* Time passes, the CPU serves interrupts and executes; nobody has to send.
FairSpec == Spec /\ WF_vars(Tick) /\ WF_vars(PORT1_ISR) /\ WF_vars(TIMERA0_ISR) /\ WF_vars(Main)

------------------------------------------------------------------------------
(* Correctness.                                                            *)

\* The receiver never goes deaf: the edge interrupt is off exactly while a
\* byte is being clocked in, and then the timer interrupt that will turn it
\* on again is running, unless suart_transmit() is just setting the timer up.
NeverDeaf == /\ P1IE <=> ~isReceiving
             /\ isReceiving => CCIE \/ pc \in {"tx_load", "tx_compare", "tx_frame", "tx_enable"}

\* With a polite sender, what suart_receive() has returned, and the byte that
\* waits for it, are the bytes the other end sent, in order and complete.
ReceivesWhatWasSent ==
  polite => /\ hasReceived \/ pc = "rx_return" => sent = Append(got, RXByte)
            /\ LineQuiet /\ pc = "idle" /\ ~(isReceiving \/ hasReceived) => sent = got

\* A sender that starts the next frame while a byte still waits makes the code
\* overwrite that byte, between any statements of suart_receive().  What is
\* lost is lost whole: whenever no frame is being clocked in, the newest byte
\* waits, or is the last one read.  (While one is, suart_receive() returns the
\* bits that have come so far, and the byte is read again when it is complete.)
Newest == sent[Len(sent)]
NewestByteIsRead ==
  legible /\ ~isReceiving /\ ~P1IFG =>
    IF hasReceived \/ pc = "rx_return" THEN RXByte = Newest
    ELSE sent # <<>> => got # <<>> /\ got[Len(got)] = Newest

\* When suart_transmit() returns, the line has been idle for a bit and has then
\* carried the whole frame, so long as the sender is polite: a reception that
\* was running at the call has been waited for.
PoliteTransmitIsComplete ==
  [][polite /\ Goto("tx_wait_tx", "idle") => txd = <<1>> \o Frame(sending)]_vars

\* Both directions come to an end: a transmission returns, a reception ends.
TransmitReturns == pc = "tx_wait_rx" ~> pc = "idle"
ReceptionEnds == isReceiving ~> ~isReceiving
==============================================================================
