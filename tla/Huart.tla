-------------------------------- MODULE Huart --------------------------------
(***************************************************************************)
(* The hardware UART of shared/huart.c.  The receive interrupt writes a    *)
(* ring and counts its bytes in huart_rcvbuflen; huart_receive(), with     *)
(* interrupts enabled, reads the ring and counts down.  Unlike the ring of *)
(* libcomm nothing is protected, and the handler never looks whether there *)
(* is room.                                                                *)
(*                                                                         *)
(* huart_rcvbuflen-- on a volatile byte is one instruction in some builds  *)
(* and a load, a decrement and a store in others.  Builds says which are    *)
(* considered, and the variable atomic which of them runs.                 *)
(***************************************************************************)
EXTENDS Integers, Sequences

CONSTANTS Item,              \* the bytes on the wire
          Zero,              \* the byte 0
          HUART_RCVBUFSIZE,  \* slots of the ring: 32
          LEN_MODULUS,       \* values of huart_rcvbuflen, an unsigned char: 256
          Builds,            \* whether huart_rcvbuflen-- is atomic: a set of BOOLEANs
          MaxPush,           \* bound: bytes received
          MaxWrite           \* bound: bytes transmitted

ASSUME ZeroAssumption == Zero \in Item
ASSUME SizeAssumption == /\ HUART_RCVBUFSIZE \in Nat \ {0}
                         /\ LEN_MODULUS \in Nat
                         /\ HUART_RCVBUFSIZE < LEN_MODULUS
ASSUME BuildAssumption == Builds \subseteq BOOLEAN
ASSUME BoundAssumption == MaxPush \in Nat /\ MaxWrite \in Nat

VARIABLES atomic,                   \* the build, never changed
          rcvbuf, rptr, wptr, len,  \* huart_rcvbuf, ...rptr, ...wptr, ...len
          pc,                       \* the main program's next statement
          c,                        \* the local variable of huart_receive()
          reg,                      \* the register of a non-atomic len--
          UCA0TXIFG, UCA0TXBUF,     \* the transmit register: free, and its content
          received,                 \* history: bytes the handler stored
          delivered,                \* history: bytes taken out of the ring
          overrun,                  \* history: a byte came when the ring was full
          written, shifted          \* history: bytes given to, sent by the transmitter

ring == <<rcvbuf, rptr, wptr, len>>
tx == <<UCA0TXIFG, UCA0TXBUF, written, shifted>>
input == <<received, delivered, overrun>>
vars == <<atomic, ring, pc, c, reg, tx, input>>

Index == 0 .. HUART_RCVBUFSIZE - 1
NextIndex(i) == (i + 1) % HUART_RCVBUFSIZE

Init == /\ atomic \in Builds
        /\ rcvbuf = [i \in Index |-> Zero]
        /\ rptr = 0 /\ wptr = 0 /\ len = 0
        /\ pc = "idle"
        /\ c = Zero
        /\ reg = 0
        /\ UCA0TXIFG = TRUE /\ UCA0TXBUF = Zero
        /\ received = <<>> /\ delivered = <<>> /\ overrun = FALSE
        /\ written = <<>> /\ shifted = <<>>

\* The byte has been taken out, but is still counted.
Uncounted == pc \in {"recv_count", "recv_store"}

------------------------------------------------------------------------------
(* The receive interrupt.                                                  *)

USCI0RX_ISR(x) == /\ Len(received) < MaxPush
                  /\ rcvbuf' = [rcvbuf EXCEPT ![wptr] = x]
                  /\ wptr' = NextIndex(wptr)
                  /\ len' = (len + 1) % LEN_MODULUS
                  /\ received' = Append(received, x)
                  /\ overrun' = (overrun \/ Len(received) - Len(delivered) = HUART_RCVBUFSIZE)
                  /\ UNCHANGED <<rptr, pc, c, reg, tx, delivered>>

------------------------------------------------------------------------------
(* huart_receive(), statement by statement.                                *)

Goto(from, to) == pc = from /\ pc' = to

huart_datawaiting == len # 0

\* (The other forms leave the last byte, and read past the next one.)
RecvTestLate == /\ Goto("idle", IF len > 1 THEN "recv_load" ELSE "return")
                /\ c' = IF len > 1 THEN c ELSE Zero
                /\ UNCHANGED <<ring, reg, tx, input>>

RecvLoadNext == /\ Goto("recv_load", "recv_advance")
                /\ c' = rcvbuf[NextIndex(rptr)]
                /\ UNCHANGED <<ring, reg, tx, input>>

RecvTest == /\ Goto("idle", IF len > 0 THEN "recv_load" ELSE "return")
            /\ c' = IF len > 0 THEN c ELSE Zero
            /\ UNCHANGED <<ring, reg, tx, input>>

RecvLoad == /\ Goto("recv_load", "recv_advance")
            /\ c' = rcvbuf[rptr]
            /\ UNCHANGED <<ring, reg, tx, input>>

RecvAdvance == /\ Goto("recv_advance", "recv_count")
               /\ rptr' = NextIndex(rptr)
               /\ delivered' = Append(delivered, c)
               /\ UNCHANGED <<rcvbuf, wptr, len, c, reg, tx, received, overrun>>

\* (The other form forgets to count.)
CountNothing == /\ atomic
                /\ Goto("recv_count", "return")
                /\ UNCHANGED <<ring, c, reg, tx, input>>

CountDown == /\ atomic
             /\ Goto("recv_count", "return")
             /\ len' = (len - 1) % LEN_MODULUS
             /\ UNCHANGED <<rcvbuf, rptr, wptr, c, reg, tx, input>>

CountLoad == /\ ~atomic
             /\ Goto("recv_count", "recv_store")
             /\ reg' = len
             /\ UNCHANGED <<ring, c, tx, input>>

CountStore == /\ Goto("recv_store", "return")
              /\ len' = (reg - 1) % LEN_MODULUS
              /\ UNCHANGED <<rcvbuf, rptr, wptr, c, reg, tx, input>>

RecvReturn == /\ Goto("return", "idle")
              /\ UNCHANGED <<ring, c, reg, tx, input>>

huart_receive == RecvTest \/ RecvLoad \/ RecvAdvance \/ CountDown \/ CountLoad
                 \/ CountStore \/ RecvReturn

------------------------------------------------------------------------------
(* huart_transmit(), and putchar(), which calls it with its argument.      *)

WriteTXBUF(x) == UCA0TXIFG /\ UCA0TXIFG' = FALSE /\ UCA0TXBUF' = x

huart_transmit(x) == /\ pc = "idle"
                     /\ Len(written) < MaxWrite
                     /\ WriteTXBUF(x)
                     /\ written' = Append(written, x)
                     /\ UNCHANGED <<ring, pc, c, reg, shifted, input>>

TransmitterReady == /\ ~UCA0TXIFG
                    /\ UCA0TXIFG' = TRUE
                    /\ shifted' = Append(shifted, UCA0TXBUF)
                    /\ UNCHANGED <<ring, pc, c, reg, UCA0TXBUF, written, input>>

Next == /\ \/ \E x \in Item : USCI0RX_ISR(x) \/ huart_transmit(x)
           \/ TransmitterReady
           \/ huart_receive
        /\ UNCHANGED atomic

Spec == Init /\ [][Next]_vars
FairSpec == Spec /\ WF_vars(huart_receive /\ UNCHANGED atomic)
                 /\ WF_vars(TransmitterReady /\ UNCHANGED atomic)

------------------------------------------------------------------------------
(* Correctness.                                                            *)

\* The ranges of the variables: both pointers stay inside the ring, whether
\* or not it overran, and len inside its byte.
TypeOK == /\ atomic \in Builds
          /\ rcvbuf \in [Index -> Item]
          /\ rptr \in Index /\ wptr \in Index
          /\ len \in 0 .. LEN_MODULUS - 1
          /\ pc \in {"idle", "recv_load", "recv_advance", "recv_count", "recv_store", "return"}
          /\ c \in Item
          /\ reg \in 0 .. LEN_MODULUS - 1
          /\ UCA0TXIFG \in BOOLEAN /\ UCA0TXBUF \in Item
          /\ overrun \in BOOLEAN
          /\ received \in Seq(Item) /\ delivered \in Seq(Item)
          /\ written \in Seq(Item) /\ shifted \in Seq(Item)

\* In a build with an atomic decrement len is the balance of what came and
\* went, even after an overrun, as long as its byte does not wrap: no increment
\* of the handler gets lost between the statements of huart_receive().
LenIsBalance ==
  atomic => len = (Len(received) - Len(delivered) + (IF Uncounted THEN 1 ELSE 0)) % LEN_MODULUS

\* The bytes between rptr and wptr.  How many they are is not read off len,
\* which a build without an atomic decrement gets wrong.
Contents == [i \in 1 .. Len(received) - Len(delivered) |->
               rcvbuf[(rptr + i - 1) % HUART_RCVBUFSIZE]]

\* In either build, and up to the first overrun, the ring is a queue that holds
\* as many bytes as it has slots: what came is what was taken and what is still
\* in it, in order.  A lost count delays bytes, it neither garbles nor repeats.
\* What is transmitted keeps its order, too: no byte is written over one that
\* the transmitter has not taken.
FifoOrder == /\ ~overrun => received = delivered \o Contents
             /\ written = shifted \o (IF UCA0TXIFG THEN <<>> ELSE <<UCA0TXBUF>>)

\* Line 65, "@return bool True if there is data in the buffer": between two
\* calls, a byte that was received and not yet taken is reported.
DataIsReported == pc = "idle" /\ Len(received) > Len(delivered) => huart_datawaiting

\* With an atomic decrement a program that goes on calling huart_receive() gets
\* every byte, unless the ring overruns.
EveryByteDelivered ==
  \A n \in 1 .. MaxPush : atomic /\ Len(received) >= n ~> overrun \/ Len(delivered) >= n
==============================================================================
