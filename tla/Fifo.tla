-------------------------------- MODULE Fifo ---------------------------------
(***************************************************************************)
(* The queue of lib430/src/libcomm/fifo.c as functions of its structure.   *)
(*                                                                         *)
(* The two pointers wrap after size - 1 bytes, a lap, and len counts laps: *)
(* it goes up when the writer completes one and down when the reader does. *)
(***************************************************************************)
EXTENDS Integers

CONSTANTS Item,         \* the values of a uint8_t
          Zero,         \* the byte 0
          LEN_MODULUS   \* values of the uint8_t len: 256

ASSUME FifoAssumption == Zero \in Item /\ LEN_MODULUS \in Nat \ {0}

\* What malloc() returns is not cleared; no byte is read before it is written.
fifo_init(size) == [pMem |-> [i \in 0 .. size - 1 |-> Zero], size |-> size,
                    rptr |-> 0, wptr |-> 0, len |-> 0]

\* (The other form is off by one.)
fifo_peekLate(f) == f.len > 1
fifo_peek(f) == f.len > 0

\* The pointer after p, and whether it wrapped.
Wraps(f, p) == p + 1 >= f.size - 1
Step(f, p) == IF Wraps(f, p) THEN 0 ELSE p + 1

\* (The other form writes the slot after wptr.)
fifo_pushAfter(f, byte) ==
  [f EXCEPT !.pMem[Step(f, f.wptr)] = byte,
            !.wptr = Step(f, @),
            !.len = IF Wraps(f, f.wptr) THEN (@ + 1) % LEN_MODULUS ELSE @]

fifo_push(f, byte) ==
  [f EXCEPT !.pMem[f.wptr] = byte,
            !.wptr = Step(f, @),
            !.len = IF Wraps(f, f.wptr) THEN (@ + 1) % LEN_MODULUS ELSE @]

\* fifo_pop() on a queue with len > 0: the byte, and the two statements that
\* move the pointer and count a completed lap.
PopByte(f) == f.pMem[f.rptr]
PopMove(f) == [f EXCEPT !.rptr = @ + 1]
PopWraps(f) == f.rptr >= f.size - 1
\* (The other form forgets to count.)
PopRewind(f) == [f EXCEPT !.rptr = 0]
PopLap(f) == [f EXCEPT !.rptr = 0, !.len = (@ - 1) % LEN_MODULUS]

FifoType(size) == [pMem : [0 .. size - 1 -> Item], size : {size},
                   rptr : 0 .. size - 1, wptr : 0 .. size - 2, len : 0 .. LEN_MODULUS - 1]
==============================================================================
