----------------------------- MODULE RingBuffer ------------------------------
(***************************************************************************)
(* ringbuffer<T, MAX_ITEMS> of lib430/src/libcomm/ringbuffer.h: a circular *)
(* buffer shared by one interrupt handler, which calls push_back(), and    *)
(* the main program, which calls empty() and pop_front().                  *)
(*                                                                         *)
(* The handler runs to completion once it is entered, so push_back() is    *)
(* one action; it is enabled only while the general interrupt enable bit   *)
(* GIE is set.  The main program can be interrupted between any two        *)
(* statements, so empty() and pop_front() are one action per statement.    *)
(* The program calls them in any order here; UsciMonitor fixes the order.  *)
(***************************************************************************)
EXTENDS Integers, Sequences

CONSTANTS Item,       \* the values of type T
          Zero,       \* the T the array is initialised with
          NoItem,     \* (T) -1, what pop_front() returns when there is nothing
          MAX_ITEMS,  \* the template parameter
          MaxPush     \* bound: how many times push_back() is called

\* For the uint8_t buffers of the source both are bytes like any other.
ASSUME ItemAssumption == Zero \in Item /\ NoItem \in Item
ASSUME MAX_ITEMSAssumption == MAX_ITEMS \in Nat \ {0}
ASSUME MaxPushAssumption == MaxPush \in Nat

VARIABLES head, tail, buffer,  \* the three members of the structure
          GIE,                 \* the CPU's general interrupt enable bit
          pc,                  \* the main program's next statement
          c,                   \* the local variable of pop_front()
          isEmpty,             \* the local variable, then the result, of empty()
          accepted,            \* history: what push_back() stored
          delivered,           \* history: what pop_front() removed
          refused              \* history: how many items push_back() dropped

members == <<head, tail, buffer>>
history == <<accepted, delivered, refused>>
vars == <<head, tail, buffer, GIE, pc, c, isEmpty, accepted, delivered, refused>>

Index == 0 .. MAX_ITEMS - 1

\* The index after i, in the unsigned arithmetic of the source.  (The other
\* form forgets to wrap.)
NextIndexUnwrapped(i) == i + 1
NextIndex(i) == (i + 1) % MAX_ITEMS

\* How many items lie between tail t and head h, and the items, oldest first.
Count(h, t) == (h - t) % MAX_ITEMS
Slots(h, t, b) == [n \in 1 .. Count(h, t) |-> b[(t + n - 1) % MAX_ITEMS]]
Contents == Slots(head, tail, buffer)

Pushes == Len(accepted) + refused

InitMembers == /\ head = 0
               /\ tail = 0
               /\ buffer = [i \in Index |-> Zero]

Init == /\ InitMembers
        /\ GIE \in BOOLEAN
        /\ pc = "idle"
        /\ c = NoItem
        /\ isEmpty = TRUE
        /\ accepted = <<>>
        /\ delivered = <<>>
        /\ refused = 0

------------------------------------------------------------------------------
(* The interrupt handler.                                                  *)

\* (The other forms overwrite the oldest item of a full ring, and keep two
\* slots free instead of one.)
push_backOverwriting(x) ==
  /\ buffer' = [buffer EXCEPT ![head] = x]
  /\ head' = NextIndex(head)
  /\ accepted' = Append(accepted, x)
  /\ UNCHANGED <<tail, delivered, refused>>

push_backTwoFree(x) ==
  IF tail \in {NextIndex(head), NextIndex(NextIndex(head))}
  THEN refused' = refused + 1 /\ UNCHANGED <<head, buffer, accepted, tail, delivered>>
  ELSE push_backOverwriting(x)

push_back(x) ==
  LET i == NextIndex(head) IN
  /\ IF i # tail
     THEN /\ buffer' = [buffer EXCEPT ![head] = x]
          /\ head' = i
          /\ accepted' = Append(accepted, x)
          /\ UNCHANGED refused
     ELSE /\ refused' = refused + 1
          /\ UNCHANGED <<head, buffer, accepted>>
  /\ UNCHANGED <<tail, delivered>>

RX_ISR(x) == /\ GIE
             /\ Pushes < MaxPush
             /\ push_back(x)
             /\ UNCHANGED <<GIE, pc, c, isEmpty>>

------------------------------------------------------------------------------
(* The main program: statement by statement.                               *)

Goto(from, to) == pc = from /\ pc' = to

\* (The other forms forget to disable interrupts.)
EmptyUnprotected == /\ Goto("idle", "empty_compare")
                    /\ UNCHANGED <<members, GIE, c, isEmpty, history>>

EmptyDisable == /\ Goto("idle", "empty_compare")
                /\ GIE' = FALSE
                /\ UNCHANGED <<members, c, isEmpty, history>>

EmptyCompare == /\ Goto("empty_compare", "empty_enable")
                /\ isEmpty' = (head = tail)
                /\ UNCHANGED <<members, GIE, c, history>>

EmptyEnable == /\ Goto("empty_enable", "idle")
               /\ GIE' = TRUE
               /\ UNCHANGED <<members, c, isEmpty, history>>

PopDisable == /\ Goto("idle", "pop_compare")
              /\ c' = NoItem
              /\ GIE' = FALSE
              /\ UNCHANGED <<members, isEmpty, history>>

PopCompare == /\ Goto("pop_compare", IF head # tail THEN "pop_load" ELSE "pop_enable")
              /\ UNCHANGED <<members, GIE, c, isEmpty, history>>

PopLoad == /\ Goto("pop_load", "pop_advance")
           /\ c' = buffer[tail]
           /\ UNCHANGED <<members, GIE, isEmpty, history>>

PopAdvance == /\ Goto("pop_advance", "pop_enable")
              /\ tail' = NextIndex(tail)
              /\ delivered' = Append(delivered, c)
              /\ UNCHANGED <<head, buffer, GIE, c, isEmpty, accepted, refused>>

PopEnable == /\ Goto("pop_enable", "idle")
             /\ GIE' = TRUE
             /\ UNCHANGED <<members, c, isEmpty, history>>

\* The program sets GIE once it has configured its peripherals.
EnableInterrupts == /\ pc = "idle"
                    /\ GIE' = TRUE
                    /\ UNCHANGED <<members, pc, c, isEmpty, history>>

empty == EmptyDisable \/ EmptyCompare \/ EmptyEnable
pop_front == PopDisable \/ PopCompare \/ PopLoad \/ PopAdvance \/ PopEnable

Next == (\E x \in Item : RX_ISR(x)) \/ EnableInterrupts \/ empty \/ pop_front

Spec == Init /\ [][Next]_vars

------------------------------------------------------------------------------
(* Correctness.                                                            *)

\* The state the variables range over: indices stay inside the array, and
\* the histories are sequences of items.
TypeOK == /\ head \in Index
          /\ tail \in Index
          /\ buffer \in [Index -> Item]
          /\ GIE \in BOOLEAN
          /\ pc \in {"idle", "empty_compare", "empty_enable", "pop_compare",
                     "pop_load", "pop_advance", "pop_enable"}
          /\ c \in Item
          /\ isEmpty \in BOOLEAN
          /\ accepted \in Seq(Item)
          /\ delivered \in Seq(Item)
          /\ refused \in Nat

\* Nothing is lost, repeated or reordered between push_back() and
\* pop_front(): what was accepted is what was delivered followed by what the
\* ring still holds, whatever the handler does between two statements of the
\* main program and however often the two indices wrapped round.
FifoOrder == accepted = delivered \o Contents

\* "prevent inconsistent reads" (line 35), "disable interrupts to protect
\* head and tail values" (line 60): between the comparison of the two indices
\* and the statement that acts on it no handler changes either of them.
\* The main program's decision is still true when it is carried out.
DecisionHolds == /\ pc = "empty_enable" => (isEmpty <=> head = tail)
                 /\ pc \in {"pop_load", "pop_advance"} => head # tail
                 /\ pc = "pop_advance" => c = buffer[tail]

\* The ring implements the bounded queue: it holds MAX_ITEMS - 1 items, and
\* drops one only when it holds that many.
Fifo == INSTANCE BoundedFifo WITH Capacity <- MAX_ITEMS - 1, queue <- Contents
ImplementsFifo == Fifo!Spec
=============================================================================
