----------------------------- MODULE UsciMonitor -----------------------------
(***************************************************************************)
(* lib430/src/libcomm/usci.cpp and usci.h: the monitor that echoes what it *)
(* receives.  The receive interrupt puts bytes in the ring of RingBuffer;  *)
(* usci_main() takes them out and transmits them by polling.               *)
(*                                                                         *)
(* This module adds the variables of the USCI and of usci_main() to those  *)
(* of RingBuffer, and steps the ring only through RingBuffer's actions.    *)
(*                                                                         *)
(* The USCI is modelled from the registers the code touches.  A byte needs *)
(* ten bit times, some 16000 CPU cycles, and no protected section is       *)
(* longer than a few instructions: a second byte does not arrive before    *)
(* the interrupt of the first is served, so long as it is enabled at all.  *)
(***************************************************************************)
EXTENDS RingBuffer

CONSTANT BannerLength   \* how many characters the banner has

ASSUME BannerAssumption == BannerLength \in Nat

VARIABLES UCA0RXIE, UCA0RXIFG, UCA0RXBUF,  \* receive interrupt: enable, flag, data
          UCA0TXIFG,                       \* the transmit register is free
          at,                              \* which call usci_main() is making
          banner,                          \* banner characters still to be sent
          echoed                           \* history: the bytes transmitted after it

usci == <<UCA0RXIE, UCA0RXIFG, UCA0RXBUF, UCA0TXIFG>>
monitorVars == <<vars, usci, at, banner, echoed>>

MonitorInit == /\ Init
               /\ GIE = FALSE                  \* after a reset
               /\ UCA0RXIE = FALSE
               /\ UCA0RXIFG = FALSE
               /\ UCA0RXBUF = Zero
               /\ UCA0TXIFG = TRUE
               /\ at = "init"
               /\ banner = BannerLength
               /\ echoed = <<>>

------------------------------------------------------------------------------
(* The peripheral.                                                         *)

\* The receiver has shifted in a byte.  Before init() releases UCSWRST the
\* USCI receives nothing.
ByteArrives(x) == /\ at # "init"
                  /\ ~UCA0RXIFG
                  /\ Pushes < MaxPush
                  /\ UCA0RXIFG' = TRUE
                  /\ UCA0RXBUF' = x
                  /\ UNCHANGED <<vars, UCA0RXIE, UCA0TXIFG, at, banner, echoed>>

\* The shift register has taken over the byte in UCA0TXBUF.
TransmitterReady == /\ ~UCA0TXIFG
                    /\ UCA0TXIFG' = TRUE
                    /\ UNCHANGED <<vars, UCA0RXIE, UCA0RXIFG, UCA0RXBUF,
                                   at, banner, echoed>>

\* Reading UCA0RXBUF clears the flag as a side effect.
USCI0RX_ISR == /\ UCA0RXIE /\ UCA0RXIFG
               /\ RX_ISR(UCA0RXBUF)
               /\ UCA0RXIFG' = FALSE
               /\ UNCHANGED <<UCA0RXIE, UCA0RXBUF, UCA0TXIFG, at, banner, echoed>>

------------------------------------------------------------------------------
(* The main program.  A pending enabled interrupt is served first.         *)

Preempted == GIE /\ UCA0RXIE /\ UCA0RXIFG

Call(from, to) == at = from /\ at' = to

InitSerial == /\ Call("init", "enable")
              /\ UCA0RXIE' = TRUE
              /\ UNCHANGED <<vars, UCA0RXIFG, UCA0RXBUF, UCA0TXIFG, banner, echoed>>

CallEnableInterrupts == /\ Call("enable", "banner")
                        /\ EnableInterrupts
                        /\ UNCHANGED <<usci, banner, echoed>>

\* xmit(): busy-waits for the transmit register, then writes it.
WriteTXBUF == UCA0TXIFG /\ UCA0TXIFG' = FALSE

XmitBanner == /\ banner > 0
              /\ at = "banner"
              /\ WriteTXBUF
              /\ banner' = banner - 1
              /\ UNCHANGED <<vars, UCA0RXIE, UCA0RXIFG, UCA0RXBUF, at, echoed>>

BannerSent == /\ banner = 0
              /\ Call("banner", "empty")
              /\ UNCHANGED <<vars, usci, banner, echoed>>

\* (The other forms leave the outer loop too, and ignore the answer.)
CallEmptyOnce == /\ at = "empty"
                 /\ empty
                 /\ at' = IF pc # "empty_enable" THEN "empty"
                          ELSE IF isEmpty THEN "left" ELSE "recv"
                 /\ UNCHANGED <<usci, banner, echoed>>

\* while (!usci0.empty()): one more statement of empty(), and its return.
CallEmpty == /\ at = "empty"
             /\ empty
             /\ at' = IF pc = "empty_enable" /\ ~isEmpty THEN "recv" ELSE "empty"
             /\ UNCHANGED <<usci, banner, echoed>>

\* c = usci0.recv(): one more statement of pop_front(), and its return.
CallRecv == /\ at = "recv"
            /\ pop_front
            /\ at' = IF pc = "pop_enable" THEN "xmit" ELSE "recv"
            /\ UNCHANGED <<usci, banner, echoed>>

\* (The other form does not wait for the transmit register.)
XmitNoWait == /\ Call("xmit", "empty")
              /\ UCA0TXIFG' = FALSE
              /\ echoed' = IF UCA0TXIFG THEN Append(echoed, c) ELSE echoed
              /\ UNCHANGED <<vars, UCA0RXIE, UCA0RXIFG, UCA0RXBUF, banner>>

XmitEcho == /\ Call("xmit", "empty")
            /\ WriteTXBUF
            /\ echoed' = Append(echoed, c)
            /\ UNCHANGED <<vars, UCA0RXIE, UCA0RXIFG, UCA0RXBUF, banner>>

usci_main == /\ ~Preempted
             /\ \/ InitSerial \/ CallEnableInterrupts \/ XmitBanner \/ BannerSent
                \/ CallEmpty \/ CallRecv \/ XmitEcho

MonitorNext == \/ \E x \in Item : ByteArrives(x)
               \/ TransmitterReady
               \/ USCI0RX_ISR
               \/ usci_main

\* The CPU executes, serves interrupts, and the transmitter shifts out what it
\* is given.  Nobody has to type.
Fairness == /\ WF_monitorVars(usci_main)
            /\ WF_monitorVars(USCI0RX_ISR)
            /\ WF_monitorVars(TransmitterReady)

MonitorSpec == MonitorInit /\ [][MonitorNext]_monitorVars
MonitorFairSpec == MonitorSpec /\ Fairness

------------------------------------------------------------------------------
(* Correctness.                                                            *)

\* The byte recv() has taken and xmit() has not yet sent.
InHand == IF at = "xmit" \/ (at = "recv" /\ pc = "pop_enable") THEN <<c>> ELSE <<>>

\* Every byte the ring accepted is, in order, echoed, in hand, or still in
\* the ring: the loop neither skips nor repeats a byte although bytes arrive
\* between any two of its statements.  In particular the answer of empty()
\* outlives its protected section: recv() finds a byte, and never takes the
\* 255 that pop_front() returns for an empty ring for one.
EchoOrder == accepted = echoed \o InHand \o Contents

\* Whatever the ring accepts is echoed in the end, banner or not.
EveryByteEchoed == \A n \in 1 .. MaxPush : Len(accepted) >= n ~> Len(echoed) >= n
==============================================================================
