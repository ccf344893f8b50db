----------------------------- MODULE BoundedFifo -----------------------------
(***************************************************************************)
(* What every receive buffer of the kit promises its two users: bytes put  *)
(* by an interrupt handler are taken by the main program in the order they *)
(* were put, none is invented, repeated or lost on the way, and one is     *)
(* refused only while Capacity others are waiting.                         *)
(***************************************************************************)
EXTENDS Naturals, Sequences

CONSTANTS Item,      \* the values the buffer carries
          Capacity   \* how many of them it promises to hold

VARIABLES queue,     \* what has been put and not yet taken, oldest first
          delivered, \* everything the consumer has taken, in order
          refused    \* how many items the producer offered in vain

vars == <<queue, delivered, refused>>

Init == /\ queue = <<>>
        /\ delivered = <<>>
        /\ refused = 0

Put == /\ Len(queue) < Capacity
       /\ \E x \in Item : queue' = Append(queue, x)
       /\ UNCHANGED <<delivered, refused>>

Refuse == /\ Len(queue) = Capacity
          /\ refused' = refused + 1
          /\ UNCHANGED <<queue, delivered>>

Take == /\ queue # <<>>
        /\ delivered' = Append(delivered, Head(queue))
        /\ queue' = Tail(queue)
        /\ UNCHANGED refused

Next == Put \/ Refuse \/ Take

Spec == Init /\ [][Next]_vars
=============================================================================
