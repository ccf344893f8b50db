------------------------------ MODULE LibSuart -------------------------------
(***************************************************************************)
(* The software UART of lib430/src/libcomm/suart.c: the bit engine of      *)
(* SoftUart between two queues of Fifo.  The timer interrupt pushes a byte *)
(* it has received on inq; suart_receive() pops it.  putchar() pushes on   *)
(* outq and flushes, which transmits what fifo_peek() lets it see.         *)
(*                                                                         *)
(* A frame is one step here: how its bits are clocked, and what a frame    *)
(* does to one in the other direction, is the subject of SoftUart.         *)
(***************************************************************************)
EXTENDS Fifo, Sequences

CONSTANTS SIZE,      \* the size suart_init() gives both queues: 16
          MaxBytes   \* bound: bytes in either direction

\* Two laps can be counted at once: one that is being read and one behind it.
ASSUME SizeAssumption == SIZE \in Nat /\ SIZE > 1 /\ LEN_MODULUS > 2 /\ MaxBytes \in Nat

VARIABLES inq, outq,             \* _uart_inq, _uart_outq
          pc,                    \* the main program's next statement
          ret,                   \* the local variable of fifo_pop(inq)
          arrived, delivered,    \* history: pushed on inq, popped from it
          put, transmitted       \* history: given to putchar(), sent

vars == <<inq, outq, pc, ret, arrived, delivered, put, transmitted>>

Lap == SIZE - 1

\* suart_init()
Init == /\ inq = fifo_init(SIZE)
        /\ outq = fifo_init(SIZE)
        /\ pc = "idle"
        /\ ret = Zero
        /\ arrived = <<>> /\ delivered = <<>>
        /\ put = <<>> /\ transmitted = <<>>

\* A frame has been received and found valid.  The sender leaves the program
\* time to read: at most a lap is unread.
Receive(b) == /\ Len(arrived) < MaxBytes
              /\ Len(arrived) - Len(delivered) < Lap
              /\ inq' = fifo_push(inq, b)
              /\ arrived' = Append(arrived, b)
              /\ UNCHANGED <<outq, pc, ret, delivered, put, transmitted>>

Goto(from, to) == pc = from /\ pc' = to

------------------------------------------------------------------------------
(* suart_receive(): fifo_pop(inq), statement by statement.                 *)

suart_datawaiting == fifo_peek(inq)

PopTest == /\ Goto("idle", IF fifo_peek(inq) THEN "pop_load" ELSE "idle")
           /\ UNCHANGED <<inq, outq, ret, arrived, delivered, put, transmitted>>

PopLoad == /\ Goto("pop_load", "pop_lap")
           /\ ret' = PopByte(inq)
           /\ inq' = PopMove(inq)
           /\ delivered' = Append(delivered, PopByte(inq))
           /\ UNCHANGED <<outq, arrived, put, transmitted>>

PopFinish == /\ Goto("pop_lap", "idle")
             /\ inq' = IF PopWraps(inq) THEN PopLap(inq) ELSE inq
             /\ UNCHANGED <<outq, ret, arrived, delivered, put, transmitted>>

suart_receive == PopTest \/ PopLoad \/ PopFinish

------------------------------------------------------------------------------
(* putchar(): push, then flush.  Only the main program uses outq.          *)

putchar(b) == /\ Goto("idle", "flush")
              /\ Len(put) < MaxBytes
              /\ outq' = fifo_push(outq, b)
              /\ put' = Append(put, b)
              /\ UNCHANGED <<inq, ret, arrived, delivered, transmitted>>

FlushByte == /\ Goto("flush", "flush")
             /\ fifo_peek(outq)
             /\ transmitted' = Append(transmitted, PopByte(outq))
             /\ outq' = LET f == PopMove(outq) IN IF PopWraps(f) THEN PopLap(f) ELSE f
             /\ UNCHANGED <<inq, ret, arrived, delivered, put>>

FlushDone == /\ Goto("flush", "idle")
             /\ ~fifo_peek(outq)
             /\ UNCHANGED <<inq, outq, ret, arrived, delivered, put, transmitted>>

suart_flush == FlushByte \/ FlushDone

Next == \/ \E b \in Item : Receive(b) \/ putchar(b)
        \/ suart_receive
        \/ suart_flush

Spec == Init /\ [][Next]_vars
FairSpec == Spec /\ WF_vars(suart_flush) /\ WF_vars(PopLoad \/ PopFinish)
                 /\ SF_vars(suart_datawaiting /\ PopTest)

------------------------------------------------------------------------------
(* Correctness.                                                            *)

\* The pointers stay inside the queue's memory (its last byte is never used).
TypeOK == /\ inq \in FifoType(SIZE)
          /\ outq \in FifoType(SIZE)
          /\ pc \in {"idle", "pop_load", "pop_lap", "flush"}
          /\ ret \in Item
          /\ arrived \in Seq(Item) /\ delivered \in Seq(Item)
          /\ put \in Seq(Item) /\ transmitted \in Seq(Item)

\* len counts the laps the interrupt has completed and the reader has not,
\* whatever the interrupt does between the statements of fifo_pop().
LenCountsLaps ==
  inq.len = Len(arrived) \div Lap - Len(delivered) \div Lap
              + (IF pc = "pop_lap" /\ PopWraps(inq) THEN 1 ELSE 0)

\* Nothing is garbled in either direction: what comes out is a prefix of what
\* went in, although pointers wrap and len says nothing about single bytes.
NothingGarbled == /\ Len(delivered) <= Len(arrived) /\ Len(transmitted) <= Len(put)
                  /\ delivered = SubSeq(arrived, 1, Len(delivered))
                  /\ transmitted = SubSeq(put, 1, Len(transmitted))

\* putchar() holds back the bytes of an incomplete lap, and no others: when
\* it has returned, every full lap has been sent.
WholeLapsAreSent == pc = "idle" => Len(transmitted) = Lap * (Len(put) \div Lap)

\* putchar() returns, however often it is called, so that a program that goes
\* on polling receives every byte of a completed lap.
LapsAreDelivered ==
  \A n \in 1 .. MaxBytes \div Lap : Len(arrived) >= n * Lap ~> Len(delivered) >= n * Lap
==============================================================================
