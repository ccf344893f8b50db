-------------------------- MODULE UsciMonitorProofs --------------------------
(***************************************************************************)
(* The ring buffer and the program that uses it, for every item type,      *)
(* every ring size, every banner and every number of bytes.                *)
(*                                                                         *)
(* First RingBuffer by itself: the ring keeps its order, its protected     *)
(* sections protect, and it implements the bounded queue of MAX_ITEMS - 1  *)
(* items.  Then usci_main(): it uses the ring as RingBuffer says, and      *)
(* echoes what the ring accepts.                                           *)
(***************************************************************************)
EXTENDS UsciMonitor, SequenceTheorems, TLAPS

\* Interrupts are off wherever the main program relies on it: without this
\* DecisionHolds is not inductive.
MaskedInside == pc # "idle" => ~GIE

RingInv == TypeOK /\ MaskedInside /\ DecisionHolds /\ FifoOrder

------------------------------------------------------------------------------
(* Index arithmetic.                                                       *)

LEMMA NextIndexValue ==
  ASSUME NEW i \in Index
  PROVE  /\ NextIndex(i) \in Index
         /\ NextIndex(i) = IF i = MAX_ITEMS - 1 THEN 0 ELSE i + 1
  BY MAX_ITEMSAssumption, ItemAssumption, SMT DEF Index, NextIndex

\* (h - t) % MAX_ITEMS and the slot n places after t, without the modulus.
LEMMA ModValues ==
  ASSUME NEW h \in Index, NEW t \in Index
  PROVE  /\ (h - t) % MAX_ITEMS = IF t <= h THEN h - t ELSE h - t + MAX_ITEMS
         /\ (h - t) % MAX_ITEMS \in Index
         /\ \A n \in Index : (t + n) % MAX_ITEMS
                               = IF t + n < MAX_ITEMS THEN t + n
                                                      ELSE t + n - MAX_ITEMS
  BY MAX_ITEMSAssumption, ItemAssumption, SMT DEF Index

LEMMA SlotsShape ==
  ASSUME NEW h \in Index, NEW t \in Index, NEW b \in [Index -> Item]
  PROVE  /\ Slots(h, t, b) \in Seq(Item)
         /\ Len(Slots(h, t, b)) = Count(h, t)
         /\ Count(h, t) \in Index
         /\ Count(h, t) = IF t <= h THEN h - t ELSE h - t + MAX_ITEMS
         /\ \A n \in 1 .. Count(h, t) :
              Slots(h, t, b)[n] = b[IF t + n - 1 < MAX_ITEMS THEN t + n - 1
                                    ELSE t + n - 1 - MAX_ITEMS]
<1>1. /\ Count(h, t) \in Index
      /\ Count(h, t) = IF t <= h THEN h - t ELSE h - t + MAX_ITEMS
  BY ModValues DEF Count
<1>2. Count(h, t) \in Nat
  BY <1>1, MAX_ITEMSAssumption, ItemAssumption DEF Index
<1>3. ASSUME NEW n \in 1 .. Count(h, t)
      PROVE  /\ (t + n - 1) % MAX_ITEMS = IF t + n - 1 < MAX_ITEMS THEN t + n - 1
                                          ELSE t + n - 1 - MAX_ITEMS
             /\ (t + n - 1) % MAX_ITEMS \in Index
  <2>1. n - 1 \in Index /\ t + n - 1 = t + (n - 1)
    BY <1>1, MAX_ITEMSAssumption, ItemAssumption DEF Index
  <2>2. (t + (n - 1)) % MAX_ITEMS = IF t + (n - 1) < MAX_ITEMS THEN t + (n - 1)
                                    ELSE t + (n - 1) - MAX_ITEMS
    BY <2>1, ModValues
  <2>3. QED
    BY <2>1, <2>2, MAX_ITEMSAssumption, ItemAssumption DEF Index
<1>4. Slots(h, t, b) \in Seq(Item) /\ Len(Slots(h, t, b)) = Count(h, t)
  BY <1>2, <1>3 DEF Slots
<1>5. QED
  BY <1>1, <1>2, <1>3, <1>4 DEF Slots

------------------------------------------------------------------------------
(* What the two operations do to the contents.                             *)

\* An item stored at the head becomes the newest one.
LEMMA PushSlots ==
  ASSUME NEW h \in Index, NEW t \in Index, NEW b \in [Index -> Item],
         NEW x \in Item, NextIndex(h) # t
  PROVE  Slots(NextIndex(h), t, [b EXCEPT ![h] = x])
           = Append(Slots(h, t, b), x)
<1> DEFINE g   == NextIndex(h)
           b2  == [b EXCEPT ![h] = x]
           k   == Count(h, t)
           old == Slots(h, t, b)
           new == Slots(g, t, b2)
           slot(n) == IF t + n - 1 < MAX_ITEMS THEN t + n - 1 ELSE t + n - 1 - MAX_ITEMS
<1>1. /\ b2 \in [Index -> Item]
      /\ b2[h] = x
      /\ \A j \in Index : j # h => b2[j] = b[j]
  OBVIOUS
<1>2. g \in Index /\ g # t /\ g = IF h = MAX_ITEMS - 1 THEN 0 ELSE h + 1
  BY NextIndexValue
<1> HIDE DEF b2, g
<1>3. /\ old \in Seq(Item) /\ Len(old) = k /\ k \in Index
      /\ k = IF t <= h THEN h - t ELSE h - t + MAX_ITEMS
      /\ \A n \in 1 .. k : old[n] = b[slot(n)]
  BY SlotsShape
<1>4. /\ new \in Seq(Item) /\ Len(new) = Count(g, t)
      /\ Count(g, t) = IF t <= g THEN g - t ELSE g - t + MAX_ITEMS
      /\ \A n \in 1 .. Count(g, t) : new[n] = b2[slot(n)]
  BY <1>1, <1>2, SlotsShape
<1> HIDE DEF old, new, k
<1>5. k \in Nat /\ Count(g, t) = k + 1
  BY <1>2, <1>3, <1>4, MAX_ITEMSAssumption, ItemAssumption, SMT DEF Index
<1>6. \A n \in 1 .. k : slot(n) \in Index /\ slot(n) # h
  BY <1>3, MAX_ITEMSAssumption, ItemAssumption, SMT DEF Index
<1>7. slot(k + 1) = h
  BY <1>3, MAX_ITEMSAssumption, ItemAssumption, SMT DEF Index
<1> HIDE DEF slot
<1>8. ASSUME NEW n \in 1 .. k
      PROVE  new[n] = old[n]
  <2>1. n \in 1 .. Count(g, t)
    BY <1>5
  <2>2. new[n] = b2[slot(n)]
    BY <1>4, <2>1
  <2>3. old[n] = b[slot(n)]
    BY <1>3
  <2>4. QED
    BY <1>1, <1>6, <2>2, <2>3
<1>9. new[k + 1] = x
  BY <1>1, <1>4, <1>5, <1>7
<1>10. /\ Append(old, x) \in Seq(Item)
       /\ Len(Append(old, x)) = Len(new)
       /\ \A n \in 1 .. Len(new) : new[n] = Append(old, x)[n]
  BY <1>3, <1>4, <1>5, <1>8, <1>9, AppendProperties
<1>11. new = Append(old, x)
  BY <1>4, <1>10, SeqEqual
<1>12. QED
  BY <1>11 DEF old, new, g, b2

\* The item at the tail leaves, the others keep their order.
LEMMA PopSlots ==
  ASSUME NEW h \in Index, NEW t \in Index, NEW b \in [Index -> Item], h # t
  PROVE  /\ Slots(h, t, b) # <<>>
         /\ Head(Slots(h, t, b)) = b[t]
         /\ Tail(Slots(h, t, b)) = Slots(h, NextIndex(t), b)
         /\ Slots(h, t, b) = <<b[t]>> \o Slots(h, NextIndex(t), b)
<1> DEFINE u   == NextIndex(t)
           k   == Count(h, t)
           old == Slots(h, t, b)
           new == Slots(h, u, b)
           slot(v, n) == IF v + n - 1 < MAX_ITEMS THEN v + n - 1
                                                  ELSE v + n - 1 - MAX_ITEMS
<1>1. u \in Index /\ u = IF t = MAX_ITEMS - 1 THEN 0 ELSE t + 1
  BY NextIndexValue
<1> HIDE DEF u
<1>2. /\ old \in Seq(Item) /\ Len(old) = k /\ k \in Index
      /\ k = IF t <= h THEN h - t ELSE h - t + MAX_ITEMS
      /\ \A n \in 1 .. k : old[n] = b[slot(t, n)]
  BY SlotsShape
<1>3. /\ new \in Seq(Item) /\ Len(new) = Count(h, u)
      /\ Count(h, u) = IF u <= h THEN h - u ELSE h - u + MAX_ITEMS
      /\ \A n \in 1 .. Count(h, u) : new[n] = b[slot(u, n)]
  BY <1>1, SlotsShape
<1> HIDE DEF old, new, k
<1>4. k \in Nat \ {0} /\ Count(h, u) = k - 1
  <2>1. /\ k = IF t <= h THEN h - t ELSE h - t + MAX_ITEMS
        /\ Count(h, u) = IF u <= h THEN h - u ELSE h - u + MAX_ITEMS
    BY <1>2, <1>3
  <2>2. QED
    BY <1>1, <2>1, MAX_ITEMSAssumption, ItemAssumption, SMT DEF Index
<1>5. slot(t, 1) = t
  BY MAX_ITEMSAssumption, ItemAssumption, SMT DEF Index
<1>6. \A n \in 1 .. k - 1 : slot(u, n) = slot(t, n + 1)
  BY <1>1, <1>2, MAX_ITEMSAssumption, ItemAssumption, SMT DEF Index
<1>7. old # <<>> /\ Head(old) = b[t]
  BY <1>2, <1>4, <1>5
<1> HIDE DEF slot
<1>8. ASSUME NEW n \in 1 .. k - 1
      PROVE  n + 1 \in 1 .. k /\ new[n] = old[n + 1]
  <2>1. n \in 1 .. Count(h, u) /\ n + 1 \in 1 .. k
    BY <1>4
  <2>2. new[n] = b[slot(u, n)] /\ old[n + 1] = b[slot(t, n + 1)]
    BY <1>2, <1>3, <2>1
  <2>3. QED
    BY <1>6, <2>1, <2>2
<1>9. /\ Tail(old) \in Seq(Item)
      /\ Len(Tail(old)) = Len(new)
      /\ \A n \in 1 .. Len(new) : new[n] = Tail(old)[n]
  BY <1>2, <1>3, <1>4, <1>7, <1>8, HeadTailProperties
<1>10. new = Tail(old)
  BY <1>3, <1>9, SeqEqual
<1>11. old = <<Head(old)>> \o Tail(old)
  BY <1>2, <1>7
<1>12. QED
  BY <1>7, <1>10, <1>11 DEF old, new, u

------------------------------------------------------------------------------
(* The inductive invariant.                                                *)

LEMMA RingInit == Init => RingInv
<1> SUFFICES ASSUME Init PROVE RingInv
  OBVIOUS
<1> USE MAX_ITEMSAssumption, ItemAssumption DEF Init, InitMembers
<1>1. 0 \in Index
  BY DEF Index
<1>2. TypeOK
  BY <1>1 DEF TypeOK
<1>3. MaskedInside /\ DecisionHolds
  BY DEF MaskedInside, DecisionHolds
<1>4. FifoOrder
  <2>1. /\ Slots(head, tail, buffer) \in Seq(Item)
        /\ Len(Slots(head, tail, buffer)) = 0
    BY <1>1, <1>2, SlotsShape DEF TypeOK
  <2>2. Slots(head, tail, buffer) = <<>>
    BY <2>1, EmptySeq
  <2>3. QED
    BY <2>2 DEF FifoOrder, Contents
<1>5. QED
  BY <1>2, <1>3, <1>4 DEF RingInv

\* Both branches of push_back(), in terms of the contents.
LEMMA PushEffect ==
  ASSUME TypeOK, NEW x \in Item, push_back(x)
  PROVE  /\ head' \in Index /\ tail' = tail /\ buffer' \in [Index -> Item]
         /\ accepted' \in Seq(Item) /\ delivered' = delivered /\ refused' \in Nat
         /\ \/ /\ Contents' = Append(Contents, x)
               /\ accepted' = Append(accepted, x)
               /\ refused' = refused
               /\ Count(head, tail) < MAX_ITEMS - 1
            \/ /\ Contents' = Contents
               /\ accepted' = accepted
               /\ refused' = refused + 1
               /\ Count(head, tail) = MAX_ITEMS - 1
<1> USE MAX_ITEMSAssumption, ItemAssumption
<1>1. /\ head \in Index /\ tail \in Index /\ buffer \in [Index -> Item]
      /\ accepted \in Seq(Item) /\ refused \in Nat
  BY DEF TypeOK
<1>2. /\ NextIndex(head) \in Index
      /\ NextIndex(head) = IF head = MAX_ITEMS - 1 THEN 0 ELSE head + 1
      /\ Count(head, tail) = IF tail <= head THEN head - tail
                                  ELSE head - tail + MAX_ITEMS
  BY <1>1, NextIndexValue, SlotsShape
<1>3. CASE NextIndex(head) # tail
  <2>1. /\ buffer' = [buffer EXCEPT ![head] = x] /\ head' = NextIndex(head)
        /\ accepted' = Append(accepted, x)
        /\ UNCHANGED <<tail, delivered, refused>>
    BY <1>3 DEF push_back
  <2>2. Contents' = Append(Contents, x)
    BY <1>1, <1>3, <2>1, PushSlots DEF Contents
  <2>3. Count(head, tail) < MAX_ITEMS - 1
    BY <1>1, <1>2, <1>3, SMT DEF Index
  <2>4. accepted' \in Seq(Item) /\ buffer' \in [Index -> Item]
    BY <1>1, <2>1
  <2>5. QED
    BY <1>1, <1>2, <2>1, <2>2, <2>3, <2>4
<1>4. CASE NextIndex(head) = tail
  <2>1. refused' = refused + 1 /\ UNCHANGED <<head, buffer, accepted, tail, delivered>>
    BY <1>4 DEF push_back
  <2>2. Count(head, tail) = MAX_ITEMS - 1
    BY <1>1, <1>2, <1>4, SMT DEF Index
  <2>3. QED
    BY <1>1, <2>1, <2>2 DEF Contents
<1>5. QED
  BY <1>3, <1>4

\* The one statement of the main program that changes the contents.
LEMMA PopEffect ==
  ASSUME RingInv, PopAdvance
  PROVE  /\ tail' \in Index
         /\ Contents # <<>>
         /\ delivered' = Append(delivered, Head(Contents))
         /\ Contents' = Tail(Contents)
         /\ Contents = <<Head(Contents)>> \o Contents'
<1>1. /\ head \in Index /\ tail \in Index /\ buffer \in [Index -> Item]
      /\ head # tail /\ c = buffer[tail]
  BY DEF RingInv, TypeOK, DecisionHolds, PopAdvance, Goto
<1>2. head' = head /\ buffer' = buffer /\ tail' = NextIndex(tail)
      /\ delivered' = Append(delivered, c)
  BY DEF PopAdvance
<1>3. tail' \in Index
  BY <1>1, <1>2, NextIndexValue
<1>4. /\ Contents # <<>>
      /\ Head(Contents) = buffer[tail]
      /\ Tail(Contents) = Slots(head, NextIndex(tail), buffer)
      /\ Contents = <<buffer[tail]>> \o Slots(head, NextIndex(tail), buffer)
  BY <1>1, PopSlots DEF Contents
<1>5. Contents' = Slots(head, NextIndex(tail), buffer)
  BY <1>2 DEF Contents
<1>6. QED
  BY <1>1, <1>2, <1>3, <1>4, <1>5

LEMMA RingNext == RingInv /\ [Next]_vars => RingInv'
<1> SUFFICES ASSUME RingInv, [Next]_vars PROVE RingInv'
  OBVIOUS
<1> USE DEF RingInv, MaskedInside
<1>1. ASSUME NEW x \in Item, RX_ISR(x)
      PROVE  RingInv'
  <2>1. TypeOK /\ push_back(x) /\ GIE /\ UNCHANGED <<GIE, pc, c, isEmpty>>
    BY <1>1 DEF RX_ISR
  <2>2. TypeOK'
    BY <2>1, PushEffect DEF TypeOK
  <2>3. MaskedInside' /\ DecisionHolds'
    BY <2>1 DEF DecisionHolds
  <2>4. FifoOrder'
    <3>1. Contents \in Seq(Item) /\ delivered \in Seq(Item)
      BY SlotsShape DEF Contents, TypeOK
    <3>2. Append(delivered \o Contents, x) = delivered \o Append(Contents, x)
      BY <3>1
    <3>3. QED
      BY <2>1, <3>2, PushEffect DEF FifoOrder
  <2>5. QED
    BY <2>2, <2>3, <2>4
<1>2. CASE PopAdvance
  <2>1. TypeOK'
    BY <1>2, PopEffect DEF TypeOK, PopAdvance, Goto
  <2>2. MaskedInside' /\ DecisionHolds'
    BY <1>2 DEF DecisionHolds, PopAdvance, Goto
  <2>3. FifoOrder'
    <3> DEFINE h == Head(Contents)
               r == Tail(Contents)
    <3>1. Contents \in Seq(Item) /\ Contents # <<>> /\ delivered \in Seq(Item)
      BY <1>2, PopEffect, SlotsShape DEF Contents, TypeOK
    <3>2. h \in Item /\ r \in Seq(Item)
      BY <3>1, HeadTailProperties
    <3>3. /\ Contents' = r /\ Contents = <<h>> \o r
          /\ delivered' = Append(delivered, h)
      BY <1>2, PopEffect
    <3>4. accepted' = accepted /\ accepted = delivered \o Contents
      BY <1>2 DEF PopAdvance, FifoOrder
    <3> HIDE DEF h, r
    <3>5. delivered \o (<<h>> \o r) = Append(delivered, h) \o r
      BY <3>1, <3>2
    <3>6. QED
      BY <3>3, <3>4, <3>5 DEF FifoOrder
  <2>4. QED
    BY <2>1, <2>2, <2>3
<1> USE DEF TypeOK, DecisionHolds, FifoOrder, Contents, Goto,
            members, history
<1>3. CASE EmptyDisable
  BY <1>3 DEF EmptyDisable
<1>4. CASE EmptyCompare
  BY <1>4 DEF EmptyCompare
<1>5. CASE EmptyEnable
  BY <1>5 DEF EmptyEnable
<1>6. CASE PopDisable
  BY <1>6, MAX_ITEMSAssumption, ItemAssumption DEF PopDisable
<1>7. CASE PopCompare
  BY <1>7 DEF PopCompare
<1>8. CASE PopLoad
  BY <1>8 DEF PopLoad
<1>9. CASE PopEnable
  BY <1>9 DEF PopEnable
<1>10. CASE UNCHANGED vars
  BY <1>10 DEF vars
<1>11. CASE EnableInterrupts
  BY <1>11 DEF EnableInterrupts
<1>12. QED
  BY <1>1, <1>2, <1>3, <1>4, <1>5, <1>6, <1>7, <1>8, <1>9, <1>10, <1>11
  DEF Next, empty, pop_front

LEMMA RingInvariance == Spec => []RingInv
  BY RingInit, RingNext, PTL DEF Spec

------------------------------------------------------------------------------
(* The results.                                                            *)

\* The indices never leave the array, whatever the interleaving of the
\* receive interrupt with the statements of empty() and pop_front().
THEOREM RingTypeCorrect == Spec => []TypeOK
<1>1. RingInv => TypeOK
  BY DEF RingInv
<1>2. QED
  BY <1>1, RingInvariance, PTL

\* Whatever push_back() accepts is delivered by pop_front() in that order,
\* nothing lost, repeated or overtaken, for rings of every size.
THEOREM FifoOrderHolds == Spec => []FifoOrder
<1>1. RingInv => FifoOrder
  BY DEF RingInv
<1>2. QED
  BY <1>1, RingInvariance, PTL

\* What the main program found out inside a protected section is still true
\* at the statement that acts on it.
THEOREM DecisionHoldsAlways == Spec => []DecisionHolds
<1>1. RingInv => DecisionHolds
  BY DEF RingInv
<1>2. QED
  BY <1>1, RingInvariance, PTL

\* The ring is a bounded queue of MAX_ITEMS - 1 items: each step of the ring
\* is a Put, a Refuse, a Take or leaves the queue as it is.
THEOREM RingRefinesFifo == Spec => ImplementsFifo
<1>1. Init => Fifo!Init
  <2> SUFFICES ASSUME Init PROVE Fifo!Init
    OBVIOUS
  <2>1. TypeOK /\ accepted = <<>> /\ delivered = <<>> /\ refused = 0
        /\ accepted = delivered \o Contents
    BY RingInit DEF RingInv, FifoOrder, Init
  <2>2. Contents \in Seq(Item)
    BY <2>1, SlotsShape DEF Contents, TypeOK
  <2>3. Contents = <<>>
    BY <2>1, <2>2
  <2>4. QED
    BY <2>1, <2>3 DEF Fifo!Init
<1>2. RingInv /\ [Next]_vars => [Fifo!Next]_(Fifo!vars)
  <2> SUFFICES ASSUME RingInv, [Next]_vars
               PROVE  [Fifo!Next]_(Fifo!vars)
    OBVIOUS
  <2>0. /\ TypeOK /\ Contents \in Seq(Item)
        /\ Len(Contents) = Count(head, tail)
    BY SlotsShape DEF RingInv, Contents, TypeOK
  <2>1. ASSUME NEW x \in Item, RX_ISR(x)
        PROVE  Fifo!Put \/ Fifo!Refuse
    BY <2>0, <2>1, PushEffect DEF RX_ISR, Fifo!Put, Fifo!Refuse
  <2>2. CASE PopAdvance
    <3>1. Fifo!Take
      BY <2>2, PopEffect DEF Fifo!Take, PopAdvance
    <3>2. QED
      BY <3>1 DEF Fifo!Next
  <2>3. CASE \/ EnableInterrupts \/ empty \/ PopDisable \/ PopCompare
             \/ PopLoad \/ PopEnable \/ UNCHANGED vars
    BY <2>3 DEF EnableInterrupts, empty, EmptyDisable, EmptyCompare,
       EmptyEnable, PopDisable, PopCompare, PopLoad, PopEnable,
       vars, members, history, Fifo!vars, Contents
  <2>4. QED
    BY <2>1, <2>2, <2>3 DEF Next, pop_front, Fifo!Next
<1>3. QED
  BY <1>1, <1>2, RingInvariance, PTL DEF Spec, ImplementsFifo, Fifo!Spec

------------------------------------------------------------------------------
(* The monitor.                                                            *)

\* The receive register holds a byte.
RegisterType == UCA0RXBUF \in Item /\ echoed \in Seq(Item)

\* Which statement of the ring the monitor's call is at; and that what empty()
\* has found out is still so when recv() is called.
Position == /\ at \in {"init", "enable", "banner", "xmit"} => pc = "idle"
            /\ at = "empty" => pc \in {"idle", "empty_compare", "empty_enable"}
            /\ at = "recv" => pc \in {"idle", "pop_compare", "pop_load", "pop_advance",
                                      "pop_enable"}
            /\ at = "recv" /\ pc \in {"idle", "pop_compare"} => head # tail
            /\ at \in {"init", "enable", "banner", "xmit", "empty", "recv"}

\* What pop_front() has delivered is echoed or in hand.
Delivered == delivered = echoed \o InHand

MonitorInv == RegisterType /\ Position /\ Delivered

LEMMA RingFacts ==
  ASSUME RingInv
  PROVE  /\ c \in Item /\ delivered \in Seq(Item)
         /\ pc = "empty_enable" => (isEmpty <=> head = tail)
         /\ accepted = delivered \o Contents
  BY DEF RingInv, TypeOK, DecisionHolds, FifoOrder

------------------------------------------------------------------------------
(* The monitor's steps are steps of the ring.                              *)

LEMMA IsRingStep == ASSUME RegisterType, [MonitorNext]_monitorVars PROVE [Next]_vars
  <1>1. CASE USCI0RX_ISR
    BY <1>1 DEF USCI0RX_ISR, RegisterType, Next
  <1>2. CASE usci_main
    <2>1. CASE CallEmpty \/ CallRecv \/ CallEnableInterrupts
      BY <2>1 DEF CallEmpty, CallRecv, CallEnableInterrupts, Next
    <2>2. CASE InitSerial \/ XmitBanner \/ BannerSent \/ XmitEcho
      BY <2>2 DEF InitSerial, XmitBanner, BannerSent, XmitEcho, vars
    <2> QED BY <1>2, <2>1, <2>2 DEF usci_main
  <1>3. CASE (\E x \in Item : ByteArrives(x)) \/ TransmitterReady \/ UNCHANGED monitorVars
    BY <1>3 DEF ByteArrives, TransmitterReady, monitorVars, vars
  <1> QED BY <1>1, <1>2, <1>3 DEF MonitorNext

------------------------------------------------------------------------------
(* The invariant of the monitor.                                           *)

LEMMA InitMonitor == MonitorInit => MonitorInv
  <1> SUFFICES ASSUME MonitorInit PROVE MonitorInv
    OBVIOUS
  <1>1. pc = "idle" /\ delivered = <<>> /\ at = "init" /\ echoed = <<>> /\ UCA0RXBUF = Zero
    BY DEF MonitorInit, Init
  <1>2. <<>> \in Seq(Item) /\ <<>> = <<>> \o <<>>
    BY ConcatEmptySeq
  <1>3. InHand = <<>>
    BY <1>1 DEF InHand
  <1> QED BY <1>1, <1>2, <1>3, MAX_ITEMSAssumption, ItemAssumption
          DEF MonitorInv, RegisterType, Position, Delivered

\* What neither moves the main program nor delivers or echoes a byte.
LEMMA HandStays ==
  ASSUME MonitorInv, UNCHANGED <<pc, c, at, delivered, echoed>>, UCA0RXBUF' \in Item,
         head # tail => head' # tail'
  PROVE  MonitorInv'
  BY DEF MonitorInv, RegisterType, Position, Delivered, InHand

LEMMA RecvKeeps ==
  ASSUME MonitorInv, RingInv, CallRecv
  PROVE  MonitorInv'
  <1> USE DEF Goto, members, history
  <1>1. /\ at = "recv" /\ pop_front /\ at' = IF pc = "pop_enable" THEN "xmit" ELSE "recv"
        /\ UNCHANGED <<usci, echoed>>
    BY DEF CallRecv
  <1>2. RegisterType'
    BY <1>1 DEF MonitorInv, RegisterType, usci
  <1>3. c \in Item /\ delivered \in Seq(Item) /\ echoed \in Seq(Item)
    BY RingFacts DEF MonitorInv, RegisterType
  <1>4. delivered = echoed \o InHand
    BY DEF MonitorInv, Delivered
  <1>5. CASE PopDisable \/ PopCompare \/ PopLoad
    <2>1. /\ pc \in {"idle", "pop_compare", "pop_load"}
          /\ pc' \in {"pop_compare", "pop_load", "pop_advance"}
          /\ UNCHANGED <<head, tail, delivered>>
          /\ head # tail \/ pc' # "pop_compare"
      BY <1>1, <1>5 DEF PopDisable, PopCompare, PopLoad, MonitorInv, Position
    <2>2. at' = "recv" /\ InHand = <<>> /\ InHand' = <<>>
      BY <1>1, <2>1 DEF InHand
    <2>3. Delivered'
      BY <1>1, <1>4, <2>1, <2>2 DEF Delivered
    <2>4. Position'
      BY <2>1, <2>2 DEF Position
    <2> QED BY <1>2, <2>3, <2>4 DEF MonitorInv
  <1>6. CASE PopAdvance
    <2>1. /\ pc = "pop_advance" /\ pc' = "pop_enable" /\ c' = c
          /\ delivered' = Append(delivered, c) /\ at' = "recv"
      BY <1>1, <1>6 DEF PopAdvance
    <2>2. InHand = <<>> /\ InHand' = <<c>>
      BY <1>1, <2>1 DEF InHand
    <2>3. delivered = echoed
      BY <1>3, <1>4, <2>2, ConcatEmptySeq
    <2>4. Append(echoed, c) = echoed \o <<c>>
      BY <1>3, AppendIsConcat
    <2>5. Delivered'
      BY <1>1, <2>1, <2>2, <2>3, <2>4 DEF Delivered
    <2>6. Position'
      BY <2>1 DEF Position
    <2> QED BY <1>2, <2>5, <2>6 DEF MonitorInv
  <1>7. CASE PopEnable
    <2>1. /\ pc = "pop_enable" /\ pc' = "idle" /\ c' = c /\ delivered' = delivered
          /\ at' = "xmit"
      BY <1>1, <1>7 DEF PopEnable
    <2>2. InHand = <<c>> /\ InHand' = <<c>>
      BY <1>1, <2>1 DEF InHand
    <2>3. Delivered'
      BY <1>1, <1>4, <2>1, <2>2 DEF Delivered
    <2>4. Position'
      BY <2>1 DEF Position
    <2> QED BY <1>2, <2>3, <2>4 DEF MonitorInv
  <1> QED BY <1>1, <1>5, <1>6, <1>7 DEF pop_front

LEMMA EmptyKeeps ==
  ASSUME MonitorInv, RingInv, CallEmpty
  PROVE  MonitorInv'
  <1> USE DEF Goto, members, history
  <1>1. /\ at = "empty" /\ empty /\ UNCHANGED <<usci, echoed>>
        /\ at' = IF pc = "empty_enable" /\ ~isEmpty THEN "recv" ELSE "empty"
    BY DEF CallEmpty
  <1>2. /\ UNCHANGED <<head, tail, delivered, c>>
        /\ pc \in {"idle", "empty_compare", "empty_enable"}
        /\ pc' \in {"idle", "empty_compare", "empty_enable"}
        /\ pc = "empty_enable" => pc' = "idle"
    BY <1>1 DEF empty, EmptyDisable, EmptyCompare, EmptyEnable
  <1>3. InHand = <<>> /\ InHand' = <<>>
    BY <1>1, <1>2 DEF InHand
  <1>4. Delivered' /\ RegisterType'
    BY <1>1, <1>2, <1>3 DEF MonitorInv, Delivered, RegisterType, usci
  <1>5. at' = "recv" => pc' = "idle" /\ head' # tail'
    BY <1>1, <1>2, RingFacts
  <1>6. Position'
    BY <1>1, <1>2, <1>5 DEF Position
  <1> QED BY <1>4, <1>6 DEF MonitorInv

LEMMA NextMonitor ==
  ASSUME MonitorInv, RingInv, [MonitorNext]_monitorVars
  PROVE  MonitorInv'
  <1>1. CASE USCI0RX_ISR
    <2>1. /\ UNCHANGED <<pc, c, at, delivered, echoed, UCA0RXBUF>>
          /\ tail' = tail /\ head' \in {head, NextIndex(head)}
          /\ NextIndex(head) = tail => head' = head
      BY <1>1 DEF USCI0RX_ISR, RX_ISR, push_back
    <2> QED BY <2>1, HandStays DEF MonitorInv, RegisterType
  <1>2. CASE (\E x \in Item : ByteArrives(x)) \/ TransmitterReady \/ UNCHANGED monitorVars
    <2>1. UNCHANGED <<vars, at, echoed>> /\ UCA0RXBUF' \in Item
      BY <1>2 DEF ByteArrives, TransmitterReady, monitorVars, usci, MonitorInv, RegisterType
    <2> QED BY <2>1, HandStays DEF vars, members, history
  <1>3. CASE InitSerial \/ CallEnableInterrupts \/ XmitBanner \/ BannerSent
    <2>1. /\ UNCHANGED <<head, tail, pc, c, delivered, echoed, UCA0RXBUF>>
          /\ at \in {"init", "enable", "banner"} /\ at' \in {"enable", "banner", "empty"}
      BY <1>3 DEF vars, InitSerial, CallEnableInterrupts, XmitBanner, BannerSent, Call,
                  EnableInterrupts, members, history, usci
    <2>2. pc = "idle"
      BY <2>1 DEF MonitorInv, Position
    <2>3. InHand = <<>> /\ InHand' = <<>>
      BY <2>1 DEF InHand
    <2> QED BY <2>1, <2>2, <2>3 DEF MonitorInv, RegisterType, Position, Delivered
  <1>4. CASE XmitEcho
    <2>1. /\ UNCHANGED <<pc, delivered, UCA0RXBUF>> /\ echoed' = Append(echoed, c)
          /\ at = "xmit" /\ at' = "empty"
      BY <1>4 DEF XmitEcho, Call, vars, members, history
    <2>2. InHand = <<c>> /\ InHand' = <<>>
      BY <2>1 DEF InHand
    <2>3. c \in Item /\ echoed \in Seq(Item)
      BY RingFacts DEF MonitorInv, RegisterType
    <2>4. echoed' \in Seq(Item) /\ echoed' = echoed \o <<c>> /\ echoed' \o <<>> = echoed'
      BY <2>1, <2>3, AppendIsConcat, AppendProperties, ConcatEmptySeq
    <2>5. Delivered' /\ RegisterType'
      BY <2>1, <2>2, <2>4 DEF MonitorInv, Delivered, RegisterType
    <2>6. Position'
      BY <2>1 DEF MonitorInv, Position
    <2> QED BY <2>5, <2>6 DEF MonitorInv
  <1> QED BY <1>1, <1>2, <1>3, <1>4, RecvKeeps, EmptyKeeps DEF MonitorNext, usci_main

LEMMA Invariance == MonitorSpec => [](RingInv /\ MonitorInv)
  <1>1. MonitorInit => RingInv /\ MonitorInv
    BY RingInit, InitMonitor DEF MonitorInit
  <1>2. (RingInv /\ MonitorInv) /\ [MonitorNext]_monitorVars => (RingInv /\ MonitorInv)'
    BY IsRingStep, RingNext, NextMonitor DEF MonitorInv
  <1> QED BY <1>1, <1>2, PTL DEF MonitorSpec

\* Every byte the ring accepted is, in order, echoed, in hand or in the ring.
THEOREM EchoOrderHolds == MonitorSpec => []EchoOrder
  <1>1. RingInv /\ MonitorInv => EchoOrder
    BY RingFacts DEF MonitorInv, Delivered, EchoOrder
  <1> QED BY <1>1, Invariance, PTL
==============================================================================
