----------------------------- MODULE HuartProofs -----------------------------
(***************************************************************************)
(* For every size of the ring, every width of the count and every number   *)
(* of bytes: in a build with an atomic decrement the count of huart.c is   *)
(* the balance of what came and went, and in every build the ring is a     *)
(* queue until it overruns.                                                *)
(***************************************************************************)
EXTENDS Huart, SequenceTheorems, TLAPS

\* Remainders by a number that is not given.
LEMMA Division ==
  ASSUME NEW M \in Nat \ {0}, NEW x \in Int
  PROVE  x % M \in 0 .. M - 1 /\ x \div M \in Int /\ x = (M * (x \div M)) + (x % M)
  BY SMT

LEMMA Remainder ==
  ASSUME NEW M \in Nat \ {0}, NEW q \in Int, NEW r \in 0 .. M - 1
  PROVE  ((M * q) + r) % M = r
  BY SMT

\* Counting up and down agrees with the remainder, wherever it wraps.
LEMMA RemainderCounts ==
  ASSUME NEW M \in Nat \ {0}, NEW x \in Int
  PROVE  /\ ((x % M) + 1) % M = (x + 1) % M
         /\ ((x % M) - 1) % M = (x - 1) % M
  <1> DEFINE q == x \div M
             r == x % M
             p == M * q
  <1>1. r \in 0 .. M - 1 /\ q \in Int /\ x = p + r
    BY Division
  <1>2. p \in Int /\ M * (q + 1) = p + M /\ M * (q - 1) = p - M
    BY <1>1, SMT
  <1>3. q + 1 \in Int /\ q - 1 \in Int
    BY <1>1, SMT
  <1> HIDE DEF q, r
  <1>4. (r + 1) % M = (x + 1) % M
    <2>1. CASE r + 1 = M
      <3>1. (p + M + 0) % M = 0
        BY <1>2, <1>3, Remainder, SMT
      <3>2. M % M = 0
        BY SMT
      <3> QED BY <1>1, <1>2, <2>1, <3>1, <3>2, SMT
    <2>2. CASE r + 1 # M
      <3>1. r + 1 \in 0 .. M - 1
        BY <1>1, <2>2, SMT
      <3>2. (p + (r + 1)) % M = r + 1
        BY <1>1, <3>1, Remainder
      <3>3. (r + 1) % M = r + 1 /\ p + (r + 1) = x + 1
        BY <1>1, <1>2, <3>1, SMT
      <3> QED BY <3>2, <3>3
    <2> QED BY <2>1, <2>2
  <1>5. (r - 1) % M = (x - 1) % M
    <2>1. CASE r = 0
      <3>1. M - 1 \in 0 .. M - 1
        BY SMT
      <3>2. ((M * (q - 1)) + (M - 1)) % M = M - 1
        BY <1>3, <3>1, Remainder
      <3>3. (M * (q - 1)) + (M - 1) = x - 1
        BY <1>1, <1>2, <2>1, SMT
      <3>4. (0 - 1) % M = M - 1
        BY SMT
      <3> QED BY <2>1, <3>2, <3>3, <3>4
    <2>2. CASE r # 0
      <3>1. r - 1 \in 0 .. M - 1
        BY <1>1, <2>2, SMT
      <3>2. (p + (r - 1)) % M = r - 1
        BY <1>1, <3>1, Remainder
      <3>3. (r - 1) % M = r - 1 /\ p + (r - 1) = x - 1
        BY <1>1, <1>2, <3>1, SMT
      <3> QED BY <3>2, <3>3
    <2> QED BY <2>1, <2>2
  <1> QED BY <1>4, <1>5 DEF r

Balance == Len(received) - Len(delivered)
Counted == Balance + (IF Uncounted THEN 1 ELSE 0)

\* The store of the decrement belongs to the other build.
StoreIsSplit == pc = "recv_store" => ~atomic

\* Between the test of the count and its decrement.
Reading == pc \in {"recv_load", "recv_advance", "recv_count"}

\* What len holds when n bytes are counted, at most one of them twice.
Wrapped(n) == IF n = LEN_MODULUS THEN 0 ELSE n

\* What has come is counted at most once, and huart_receive() reads only what
\* is counted: this makes the split decrement of the other build harmless to
\* the order.
CountIsLow ==
  /\ \E n \in 0 .. Counted : len = Wrapped(n) /\ (Reading => n # 0)
  /\ pc = "recv_store" => \E n \in 1 .. Balance + 1 : reg = Wrapped(n)

\* The ring holds the bytes that came and have not been taken.
RingIsQueue ==
  /\ Balance \in 0 .. HUART_RCVBUFSIZE
  /\ wptr = (rptr + Balance) % HUART_RCVBUFSIZE
  /\ received = delivered \o Contents
  /\ pc = "recv_advance" => Balance # 0 /\ c = rcvbuf[rptr]

TxOrder == written = shifted \o (IF UCA0TXIFG THEN <<>> ELSE <<UCA0TXBUF>>)

IInv == /\ TypeOK
        /\ StoreIsSplit
        /\ LenIsBalance
        /\ ~overrun => CountIsLow /\ RingIsQueue
        /\ TxOrder

------------------------------------------------------------------------------
(* Arithmetic of the count.                                                *)

LEMMA WrappedValues ==
  ASSUME NEW n \in 0 .. LEN_MODULUS
  PROVE  /\ n % LEN_MODULUS = Wrapped(n)
         /\ n < LEN_MODULUS => (Wrapped(n) + 1) % LEN_MODULUS = Wrapped(n + 1)
         /\ n > 0 => (Wrapped(n) - 1) % LEN_MODULUS = Wrapped(n - 1)
  BY SizeAssumption, SMT DEF Wrapped

------------------------------------------------------------------------------
(* The k bytes of the ring b from slot t on.                               *)

Slots(t, k, b) == [i \in 1 .. k |-> b[(t + i - 1) % HUART_RCVBUFSIZE]]

\* The slot n places after t, without the remainder.
Place(t, n) == IF t + n < HUART_RCVBUFSIZE THEN t + n ELSE t + n - HUART_RCVBUFSIZE

LEMMA PlaceValue ==
  ASSUME NEW t \in Index, NEW n \in 0 .. HUART_RCVBUFSIZE
  PROVE  /\ (t + n) % HUART_RCVBUFSIZE = Place(t, n)
         /\ Place(t, n) \in Index
  BY SizeAssumption, SMT DEF Index, Place

LEMMA NextIndexValue ==
  ASSUME NEW t \in Index
  PROVE  NextIndex(t) \in Index /\ NextIndex(t) = Place(t, 1)
  BY SizeAssumption, SMT DEF Index, Place, NextIndex

LEMMA SlotsShape ==
  ASSUME NEW t \in Index, NEW k \in 0 .. HUART_RCVBUFSIZE, NEW b \in [Index -> Item]
  PROVE  /\ Slots(t, k, b) \in Seq(Item)
         /\ Len(Slots(t, k, b)) = k
         /\ \A i \in 1 .. k : Slots(t, k, b)[i] = b[Place(t, i - 1)]
  <1>1. k \in Nat
    BY SizeAssumption, SMT
  <1>2. ASSUME NEW i \in 1 .. k
        PROVE  /\ (t + i - 1) % HUART_RCVBUFSIZE = Place(t, i - 1)
               /\ Place(t, i - 1) \in Index
    <2>1. i - 1 \in 0 .. HUART_RCVBUFSIZE /\ t + i - 1 = t + (i - 1)
      BY SizeAssumption, SMT DEF Index
    <2> QED BY <2>1, PlaceValue
  <1>3. Slots(t, k, b) \in Seq(Item) /\ Len(Slots(t, k, b)) = k
    BY <1>1, <1>2 DEF Slots
  <1> QED BY <1>2, <1>3 DEF Slots

\* A byte stored behind the last one becomes the last one.
LEMMA PushSlots ==
  ASSUME NEW t \in Index, NEW k \in 0 .. HUART_RCVBUFSIZE - 1, NEW b \in [Index -> Item],
         NEW x \in Item
  PROVE  Slots(t, k + 1, [b EXCEPT ![Place(t, k)] = x]) = Append(Slots(t, k, b), x)
  <1> DEFINE b2  == [b EXCEPT ![Place(t, k)] = x]
             old == Slots(t, k, b)
             new == Slots(t, k + 1, b2)
  <1>1. k \in 0 .. HUART_RCVBUFSIZE /\ k + 1 \in 0 .. HUART_RCVBUFSIZE /\ k \in Nat
    BY SizeAssumption, SMT
  <1>2. Place(t, k) \in Index
    BY <1>1, PlaceValue
  <1>3. /\ b2 \in [Index -> Item] /\ b2[Place(t, k)] = x
        /\ \A j \in Index : j # Place(t, k) => b2[j] = b[j]
    BY <1>2
  <1> HIDE DEF b2
  <1>4. old \in Seq(Item) /\ Len(old) = k /\ \A i \in 1 .. k : old[i] = b[Place(t, i - 1)]
    BY <1>1, SlotsShape
  <1>5. /\ new \in Seq(Item) /\ Len(new) = k + 1
        /\ \A i \in 1 .. k + 1 : new[i] = b2[Place(t, i - 1)]
    BY <1>1, <1>3, SlotsShape
  <1> HIDE DEF old, new
  <1>6. ASSUME NEW i \in 1 .. k PROVE new[i] = old[i]
    <2>1. Place(t, i - 1) \in Index /\ Place(t, i - 1) # Place(t, k)
      BY SizeAssumption, SMT DEF Index, Place
    <2>2. i \in 1 .. k + 1
      BY <1>1, SMT
    <2> QED BY <1>3, <1>4, <1>5, <2>1, <2>2
  <1>7. new[k + 1] = x
    <2>1. k + 1 \in 1 .. k + 1 /\ (k + 1) - 1 = k
      BY <1>1, SMT
    <2> QED BY <1>3, <1>5, <2>1
  <1>8. /\ Append(old, x) \in Seq(Item) /\ Len(Append(old, x)) = Len(new)
        /\ \A i \in 1 .. Len(new) : new[i] = Append(old, x)[i]
    BY <1>1, <1>4, <1>5, <1>6, <1>7, AppendProperties
  <1>9. new = Append(old, x)
    BY <1>5, <1>8, SeqEqual
  <1> QED BY <1>9 DEF old, new, b2

\* The first byte leaves, the others keep their order.
LEMMA PopSlots ==
  ASSUME NEW t \in Index, NEW k \in 1 .. HUART_RCVBUFSIZE, NEW b \in [Index -> Item]
  PROVE  Slots(t, k, b) = <<b[t]>> \o Slots(NextIndex(t), k - 1, b)
  <1> DEFINE u    == NextIndex(t)
             old  == Slots(t, k, b)
             rest == Slots(u, k - 1, b)
             new  == <<b[t]>> \o rest
  <1>1. k \in Nat /\ k \in 0 .. HUART_RCVBUFSIZE /\ k - 1 \in 0 .. HUART_RCVBUFSIZE
    BY SizeAssumption, SMT
  <1>2. u \in Index /\ u = Place(t, 1)
    BY NextIndexValue
  <1> HIDE DEF u
  <1>3. old \in Seq(Item) /\ Len(old) = k /\ \A i \in 1 .. k : old[i] = b[Place(t, i - 1)]
    BY <1>1, SlotsShape
  <1>4. /\ rest \in Seq(Item) /\ Len(rest) = k - 1
        /\ \A i \in 1 .. k - 1 : rest[i] = b[Place(u, i - 1)]
    BY <1>1, <1>2, SlotsShape
  <1> HIDE DEF old, rest
  <1>5. b[t] \in Item
    OBVIOUS
  <1>6. <<b[t]>> \in Seq(Item) /\ Len(<<b[t]>>) = 1 /\ <<b[t]>>[1] = b[t]
    BY <1>5
  <1>7. /\ new \in Seq(Item) /\ Len(new) = k
        /\ \A i \in 1 .. k : new[i] = IF i <= 1 THEN b[t] ELSE rest[i - 1]
    BY <1>1, <1>4, <1>6, ConcatProperties
  <1>8. ASSUME NEW i \in 1 .. k PROVE old[i] = new[i]
    <2>1. CASE i = 1
      <3>1. Place(t, i - 1) = t
        BY <2>1, SizeAssumption, SMT DEF Index, Place
      <3> QED BY <1>3, <1>7, <2>1, <3>1
    <2>2. CASE i # 1
      <3>1. i - 1 \in 1 .. k - 1 /\ ~(i <= 1)
        BY <1>1, <2>2, SMT
      <3>2. Place(u, (i - 1) - 1) = Place(t, i - 1)
        BY <1>1, <1>2, <2>2, SizeAssumption, SMT DEF Index, Place
      <3> QED BY <1>3, <1>4, <1>7, <3>1, <3>2
    <2> QED BY <2>1, <2>2
  <1>9. old = new
    BY <1>3, <1>7, <1>8, SeqEqual
  <1> QED BY <1>9 DEF old, rest, u

------------------------------------------------------------------------------
(* The types.                                                              *)

LEMMA CountTypes ==
  ASSUME NEW n \in 0 .. LEN_MODULUS - 1
  PROVE  (n + 1) % LEN_MODULUS \in 0 .. LEN_MODULUS - 1
         /\ (n - 1) % LEN_MODULUS \in 0 .. LEN_MODULUS - 1
  BY SizeAssumption, SMT

LEMMA InitType == Init => TypeOK
  <1> SUFFICES ASSUME Init PROVE TypeOK
    OBVIOUS
  <1>1. 0 \in Index /\ 0 \in 0 .. LEN_MODULUS - 1
    BY SizeAssumption, SMT DEF Index
  <1>2. rcvbuf \in [Index -> Item]
    BY ZeroAssumption DEF Init
  <1>3. <<>> \in Seq(Item)
    OBVIOUS
  <1> QED BY <1>1, <1>2, <1>3, ZeroAssumption DEF Init, TypeOK

LEMMA NextType == TypeOK /\ Next => TypeOK'
  <1> SUFFICES ASSUME TypeOK, Next PROVE TypeOK'
    OBVIOUS
  <1> USE DEF TypeOK
  <1>1. UNCHANGED atomic
    BY DEF Next
  <1>2. ASSUME NEW x \in Item, USCI0RX_ISR(x) PROVE TypeOK'
    <2>1. NextIndex(wptr) \in Index /\ (len + 1) % LEN_MODULUS \in 0 .. LEN_MODULUS - 1
      BY NextIndexValue, CountTypes
    <2>2. rcvbuf' \in [Index -> Item]
      BY <1>2 DEF USCI0RX_ISR
    <2>3. received' \in Seq(Item)
      BY <1>2, AppendProperties DEF USCI0RX_ISR
    <2>4. overrun' \in BOOLEAN
      BY <1>2 DEF USCI0RX_ISR
    <2> QED BY <1>1, <1>2, <2>1, <2>2, <2>3, <2>4 DEF USCI0RX_ISR, tx
  <1>3. ASSUME NEW x \in Item, huart_transmit(x) PROVE TypeOK'
    <2>1. written' \in Seq(Item)
      BY <1>3, AppendProperties DEF huart_transmit
    <2> QED BY <1>1, <1>3, <2>1 DEF huart_transmit, WriteTXBUF, ring, input
  <1>4. CASE TransmitterReady
    <2>1. shifted' \in Seq(Item)
      BY <1>4, AppendProperties DEF TransmitterReady
    <2> QED BY <1>1, <1>4, <2>1 DEF TransmitterReady, ring, input
  <1>5. CASE RecvTest
    <2>1. pc' \in {"recv_load", "return"} /\ c' \in Item
      BY <1>5, ZeroAssumption DEF RecvTest, Goto
    <2> QED BY <1>1, <1>5, <2>1 DEF RecvTest, ring, tx, input
  <1>6. CASE RecvLoad
    BY <1>1, <1>6 DEF RecvLoad, Goto, ring, tx, input
  <1>7. CASE RecvAdvance
    <2>1. NextIndex(rptr) \in Index
      BY NextIndexValue
    <2>2. delivered' \in Seq(Item)
      BY <1>7, AppendProperties DEF RecvAdvance
    <2> QED BY <1>1, <1>7, <2>1, <2>2 DEF RecvAdvance, Goto, tx
  <1>8. CASE CountDown
    BY <1>1, <1>8, CountTypes DEF CountDown, Goto, tx, input
  <1>9. CASE CountLoad
    BY <1>1, <1>9 DEF CountLoad, Goto, ring, tx, input
  <1>10. CASE CountStore
    BY <1>1, <1>10, CountTypes DEF CountStore, Goto, tx, input
  <1>11. CASE RecvReturn
    BY <1>1, <1>11 DEF RecvReturn, Goto, ring, tx, input
  <1> QED BY <1>2, <1>3, <1>4, <1>5, <1>6, <1>7, <1>8, <1>9, <1>10, <1>11
          DEF Next, huart_receive

------------------------------------------------------------------------------
(* What the actions do to the balance, and to what is counted.             *)

LEMMA BalanceAfterISR ==
  ASSUME TypeOK, NEW x \in Item, USCI0RX_ISR(x)
  PROVE  /\ Balance \in Int /\ Counted \in Int
         /\ Balance' = Balance + 1 /\ Counted' = Counted + 1
  <1>1. Len(received) \in Nat /\ Len(delivered) \in Nat
    BY DEF TypeOK
  <1>2. Len(received') = Len(received) + 1 /\ delivered' = delivered /\ pc' = pc
    BY AppendProperties DEF TypeOK, USCI0RX_ISR
  <1> QED BY <1>1, <1>2, SMT DEF Balance, Counted, Uncounted

LEMMA BalanceAfterAdvance ==
  ASSUME TypeOK, RecvAdvance
  PROVE  /\ Balance \in Int /\ Counted \in Int
         /\ Counted = Balance /\ Balance' = Balance - 1 /\ Counted' = Counted
  <1>1. Len(received) \in Nat /\ Len(delivered) \in Nat
    BY DEF TypeOK
  <1>2. Len(delivered') = Len(delivered) + 1 /\ received' = received
    BY AppendProperties DEF TypeOK, RecvAdvance
  <1>3. pc = "recv_advance" /\ pc' = "recv_count"
    BY DEF RecvAdvance, Goto
  <1> QED BY <1>1, <1>2, <1>3, SMT DEF Balance, Counted, Uncounted

\* The other actions leave the balance alone.
LEMMA BalanceAfterOther ==
  ASSUME TypeOK, UNCHANGED <<received, delivered>>
  PROVE  /\ Balance \in Int /\ Counted \in Int /\ Balance' = Balance
         /\ Counted = Balance + (IF Uncounted THEN 1 ELSE 0)
         /\ Counted' = Balance + (IF Uncounted' THEN 1 ELSE 0)
  <1>1. Len(received) \in Nat /\ Len(delivered) \in Nat
    BY DEF TypeOK
  <1> QED BY <1>1, SMT DEF Balance, Counted, Uncounted

\* The actions that touch neither the ring nor the count.
Aside == \/ RecvTest \/ RecvLoad \/ RecvReturn
         \/ \E x \in Item : huart_transmit(x)
         \/ TransmitterReady

LEMMA AsideKeeps ==
  ASSUME TypeOK, Aside
  PROVE  /\ UNCHANGED <<ring, input, reg>>
         /\ UNCHANGED pc \/ (Counted' = Counted /\ pc' # "recv_store")
  <1>1. UNCHANGED <<ring, input, reg>>
    BY DEF Aside, RecvTest, RecvLoad, RecvReturn, huart_transmit, TransmitterReady
  <1>2. \/ UNCHANGED pc
        \/ /\ pc \in {"idle", "recv_load", "return"}
           /\ pc' \in {"idle", "recv_load", "recv_advance", "return"}
    BY DEF Aside, RecvTest, RecvLoad, RecvReturn, huart_transmit, TransmitterReady, Goto
  <1>3. UNCHANGED <<received, delivered>>
    BY <1>1 DEF input
  <1>4. UNCHANGED pc \/ (pc' # "recv_store" /\ ~Uncounted /\ ~Uncounted')
    BY <1>2 DEF Uncounted
  <1>5. Balance' = Balance
    BY <1>3 DEF Balance
  <1> QED BY <1>1, <1>3, <1>4, <1>5, BalanceAfterOther

LEMMA NextBalance ==
  ASSUME TypeOK, StoreIsSplit, LenIsBalance, Next
  PROVE  StoreIsSplit' /\ LenIsBalance'
  <1> DEFINE M == LEN_MODULUS
  <1>1. UNCHANGED atomic
    BY DEF Next
  <1>2. LenIsBalance <=> (atomic => len = Counted % M)
    BY DEF LenIsBalance, Counted, Balance
  <1>3. LenIsBalance' <=> (atomic' => len' = Counted' % M)
    BY DEF LenIsBalance, Counted, Balance
  <1>4. M \in Nat \ {0} /\ len \in Int
    BY SizeAssumption DEF TypeOK
  <1> HIDE DEF M
  <1>5. ASSUME NEW x \in Item, USCI0RX_ISR(x) PROVE StoreIsSplit' /\ LenIsBalance'
    <2>1. len' = (len + 1) % M /\ pc' = pc
      BY <1>5 DEF USCI0RX_ISR, M
    <2>2. Counted \in Int /\ Counted' = Counted + 1
      BY <1>5, BalanceAfterISR
    <2>3. ((Counted % M) + 1) % M = (Counted + 1) % M
      BY <1>4, <2>2, RemainderCounts
    <2>4. StoreIsSplit'
      BY <1>1, <2>1 DEF StoreIsSplit
    <2> QED BY <1>1, <1>2, <1>3, <2>1, <2>2, <2>3, <2>4
  <1>6. CASE RecvAdvance
    <2>1. Counted' = Counted /\ len' = len /\ pc' = "recv_count"
      BY <1>6, BalanceAfterAdvance DEF RecvAdvance, Goto
    <2> QED BY <1>1, <1>2, <1>3, <2>1 DEF StoreIsSplit
  <1>7. CASE CountDown
    <2>1. /\ len' = (len - 1) % M /\ pc' = "return" /\ pc = "recv_count"
          /\ UNCHANGED <<received, delivered>>
      BY <1>7 DEF CountDown, Goto, M, input
    <2>2. Uncounted /\ ~Uncounted'
      BY <2>1 DEF Uncounted
    <2>3. Counted \in Int /\ Counted' = Counted - 1
      <3>1. Balance \in Int /\ Counted = Balance + 1 /\ Counted' = Balance + 0
        BY <2>1, <2>2, BalanceAfterOther
      <3> QED BY <3>1, SMT
    <2>4. ((Counted % M) - 1) % M = (Counted - 1) % M
      BY <1>4, <2>3, RemainderCounts
    <2> QED BY <1>1, <1>2, <1>3, <2>1, <2>3, <2>4 DEF StoreIsSplit
  <1>8. CASE CountLoad
    <2>1. ~atomic
      BY <1>8 DEF CountLoad
    <2> QED BY <1>1, <1>3, <2>1 DEF StoreIsSplit
  <1>9. CASE CountStore
    <2>1. ~atomic
      BY <1>9 DEF CountStore, Goto, StoreIsSplit
    <2> QED BY <1>1, <1>3, <2>1 DEF StoreIsSplit
  <1>10. CASE Aside
    <2>1. len' = len /\ UNCHANGED <<received, delivered>>
      BY <1>10, AsideKeeps DEF ring, input
    <2>2. CASE UNCHANGED pc
      <3>1. Counted' = Counted
        BY <2>1, <2>2 DEF Counted, Balance, Uncounted
      <3> QED BY <1>1, <1>2, <1>3, <2>1, <2>2, <3>1 DEF StoreIsSplit
    <2>3. CASE ~UNCHANGED pc
      <3>1. Counted' = Counted /\ pc' # "recv_store"
        BY <1>10, <2>3, AsideKeeps
      <3> QED BY <1>1, <1>2, <1>3, <2>1, <3>1 DEF StoreIsSplit
    <2> QED BY <2>2, <2>3
  <1> QED BY <1>5, <1>6, <1>7, <1>8, <1>9, <1>10 DEF Next, huart_receive, Aside

LEMMA NextTx ==
  ASSUME TypeOK, TxOrder, Next
  PROVE  TxOrder'
  <1>1. CASE UNCHANGED tx
    BY <1>1 DEF tx, TxOrder
  <1>2. ASSUME NEW x \in Item, huart_transmit(x) PROVE TxOrder'
    <2>1. /\ UCA0TXIFG /\ ~UCA0TXIFG' /\ UCA0TXBUF' = x
          /\ written' = Append(written, x) /\ shifted' = shifted
      BY <1>2 DEF huart_transmit, WriteTXBUF
    <2>2. written = shifted \o <<>>
      BY <2>1 DEF TxOrder
    <2>3. shifted \o <<>> = shifted /\ Append(shifted, x) = shifted \o <<x>>
      BY ConcatEmptySeq, AppendIsConcat DEF TypeOK
    <2> QED BY <2>1, <2>2, <2>3 DEF TxOrder
  <1>3. CASE TransmitterReady
    <2>1. /\ ~UCA0TXIFG /\ UCA0TXIFG' /\ shifted' = Append(shifted, UCA0TXBUF)
          /\ written' = written
      BY <1>3 DEF TransmitterReady
    <2>2. written = shifted \o <<UCA0TXBUF>>
      BY <2>1 DEF TxOrder
    <2>3. /\ Append(shifted, UCA0TXBUF) = shifted \o <<UCA0TXBUF>>
          /\ Append(shifted, UCA0TXBUF) \in Seq(Item)
      BY AppendIsConcat, AppendProperties DEF TypeOK
    <2>4. shifted' \o <<>> = shifted'
      BY <2>1, <2>3, ConcatEmptySeq
    <2> QED BY <2>1, <2>2, <2>3, <2>4 DEF TxOrder
  <1>4. ASSUME \/ \E x \in Item : USCI0RX_ISR(x)
               \/ RecvTest \/ RecvLoad \/ RecvAdvance \/ CountDown \/ CountLoad
               \/ CountStore \/ RecvReturn
        PROVE  UNCHANGED tx
    BY <1>4 DEF USCI0RX_ISR, RecvTest, RecvLoad, RecvAdvance, CountDown, CountLoad,
                CountStore, RecvReturn
  <1> QED BY <1>1, <1>2, <1>3, <1>4 DEF Next, huart_receive

------------------------------------------------------------------------------
(* The queue and its count, while the ring does not overrun.               *)

\* An action that moves nothing.
LEMMA RingStays ==
  ASSUME RingIsQueue, UNCHANGED <<rcvbuf, rptr, wptr, received, delivered>>,
         pc' = "recv_advance" => Balance # 0 /\ c' = rcvbuf[rptr]
  PROVE  RingIsQueue'
  <1>1. Balance' = Balance /\ Contents' = Contents
    BY DEF Balance, Contents
  <1> QED BY <1>1 DEF RingIsQueue

\* The bounds within which a count does not wrap more than once.
LEMMA CountBounds ==
  ASSUME TypeOK, RingIsQueue
  PROVE  /\ Balance \in Nat /\ Balance <= HUART_RCVBUFSIZE
         /\ Counted = Balance + (IF Uncounted THEN 1 ELSE 0)
         /\ HUART_RCVBUFSIZE + 1 <= LEN_MODULUS
         /\ HUART_RCVBUFSIZE \in Nat /\ LEN_MODULUS \in Nat
  BY SizeAssumption, SMT DEF RingIsQueue, Counted

LEMMA QueueAfterISR ==
  ASSUME TypeOK, CountIsLow, RingIsQueue,
         NEW x \in Item, USCI0RX_ISR(x), Balance # HUART_RCVBUFSIZE
  PROVE  CountIsLow' /\ RingIsQueue'
  <1> DEFINE k == Balance
             N == HUART_RCVBUFSIZE
  <1>1. /\ k \in 0 .. N - 1 /\ k \in 0 .. N /\ k \in Nat /\ N \in Nat \ {0}
        /\ Counted \in 0 .. LEN_MODULUS - 1
    BY SizeAssumption, CountBounds, SMT
  <1>2. Balance' = k + 1 /\ Counted' = Counted + 1
    BY BalanceAfterISR
  <1>3. /\ rcvbuf' = [rcvbuf EXCEPT ![wptr] = x] /\ wptr' = NextIndex(wptr)
        /\ len' = (len + 1) % LEN_MODULUS /\ received' = Append(received, x)
        /\ rptr' = rptr /\ delivered' = delivered /\ pc' = pc /\ c' = c /\ reg' = reg
    BY DEF USCI0RX_ISR
  <1>4. /\ rptr \in Index /\ wptr \in Index /\ rcvbuf \in [Index -> Item]
        /\ delivered \in Seq(Item)
    BY DEF TypeOK
  <1> HIDE DEF k, N
  <1>5. wptr = Place(rptr, k)
    BY <1>1, <1>4, PlaceValue DEF RingIsQueue, k, N
  <1>6. CountIsLow'
    <2>1. \E n \in 0 .. Counted' : len' = Wrapped(n) /\ (Reading' => n # 0)
      <3>1. PICK n \in 0 .. Counted : len = Wrapped(n)
        BY DEF CountIsLow
      <3>2. n \in 0 .. LEN_MODULUS /\ n < LEN_MODULUS
        BY <1>1, <3>1, SizeAssumption, SMT
      <3>3. len' = Wrapped(n + 1)
        BY <1>3, <3>1, <3>2, WrappedValues
      <3>4. n + 1 \in 0 .. Counted' /\ n + 1 # 0
        BY <1>1, <1>2, <3>1, SMT
      <3> QED BY <3>3, <3>4
    <2>2. ASSUME pc' = "recv_store" PROVE \E n \in 1 .. Balance' + 1 : reg' = Wrapped(n)
      <3>1. PICK n \in 1 .. k + 1 : reg = Wrapped(n)
        BY <1>3, <2>2 DEF CountIsLow, k
      <3>2. n \in 1 .. Balance' + 1
        BY <1>1, <1>2, <3>1, SMT
      <3> QED BY <1>3, <3>1, <3>2
    <2> QED BY <2>1, <2>2 DEF CountIsLow
  <1>7. Balance' \in 0 .. N /\ wptr' = (rptr' + Balance') % N
    <2>1. k + 1 \in 0 .. N
      BY <1>1, SMT
    <2>2. NextIndex(wptr) = Place(wptr, 1) /\ (rptr + (k + 1)) % N = Place(rptr, k + 1)
      BY <1>4, <2>1, NextIndexValue, PlaceValue DEF N
    <2>3. Place(wptr, 1) = Place(rptr, k + 1)
      BY <1>1, <1>4, <1>5, SMT DEF Place, Index, N
    <2> QED BY <1>2, <1>3, <2>1, <2>2, <2>3
  <1>8. received' = delivered' \o Contents'
    <2>1. Contents = Slots(rptr, k, rcvbuf) /\ Contents' = Slots(rptr', Balance', rcvbuf')
      BY DEF Contents, Slots, Balance, k
    <2>2. Contents' = Append(Contents, x)
      BY <1>1, <1>2, <1>3, <1>4, <1>5, <2>1, PushSlots DEF N
    <2>3. Contents \in Seq(Item)
      BY <1>1, <1>4, <2>1, SlotsShape DEF N
    <2>4. received = delivered \o Contents
      BY DEF RingIsQueue
    <2>5. /\ Append(delivered \o Contents, x) = (delivered \o Contents) \o <<x>>
          /\ Append(Contents, x) = Contents \o <<x>>
      BY <1>4, <2>3, AppendIsConcat, ConcatProperties
    <2>6. (delivered \o Contents) \o <<x>> = delivered \o (Contents \o <<x>>)
      <3>1. <<x>> \in Seq(Item)
        OBVIOUS
      <3> QED BY <1>4, <2>3, <3>1, ConcatAssociative
    <2> QED BY <1>3, <2>2, <2>4, <2>5, <2>6
  <1>9. ASSUME pc' = "recv_advance" PROVE Balance' # 0 /\ c' = rcvbuf'[rptr']
    <2>1. k # 0 /\ c = rcvbuf[rptr]
      BY <1>3, <1>9 DEF RingIsQueue, k
    <2>2. wptr # rptr
      BY <1>1, <1>4, <1>5, <2>1, SMT DEF Place, Index, N
    <2>3. rcvbuf'[rptr] = rcvbuf[rptr]
      BY <1>3, <1>4, <2>2
    <2>4. Balance' # 0
      BY <1>1, <1>2, SMT
    <2> QED BY <1>3, <2>1, <2>3, <2>4
  <1> QED BY <1>6, <1>7, <1>8, <1>9 DEF RingIsQueue, N

LEMMA QueueAfterAdvance ==
  ASSUME TypeOK, CountIsLow, RingIsQueue, RecvAdvance
  PROVE  CountIsLow' /\ RingIsQueue'
  <1> DEFINE k == Balance
             N == HUART_RCVBUFSIZE
             u == NextIndex(rptr)
  <1>1. /\ rptr' = u /\ delivered' = Append(delivered, c)
        /\ pc = "recv_advance" /\ pc' = "recv_count"
        /\ rcvbuf' = rcvbuf /\ wptr' = wptr /\ len' = len /\ received' = received
    BY DEF RecvAdvance, Goto
  <1>2. Counted' = Counted /\ Balance' = k - 1
    BY BalanceAfterAdvance
  <1>3. /\ k \in 1 .. N /\ k \in 0 .. N /\ k - 1 \in 0 .. N /\ N \in Nat \ {0}
        /\ c = rcvbuf[rptr]
    <2>1. k # 0 /\ c = rcvbuf[rptr]
      BY <1>1 DEF RingIsQueue
    <2>2. k \in Nat /\ k <= N /\ N \in Nat \ {0}
      BY CountBounds, SizeAssumption
    <2> QED BY <2>1, <2>2, SMT
  <1>4. /\ rptr \in Index /\ u \in Index /\ u = Place(rptr, 1)
        /\ rcvbuf \in [Index -> Item] /\ delivered \in Seq(Item) /\ c \in Item
    BY NextIndexValue DEF TypeOK
  <1> HIDE DEF k, N, u
  <1>5. CountIsLow'
    <2>1. Reading
      BY <1>1 DEF Reading
    <2> QED BY <1>1, <1>2, <2>1 DEF CountIsLow
  <1>6. wptr' = (rptr' + Balance') % N
    <2>1. wptr = Place(rptr, k) /\ (u + (k - 1)) % N = Place(u, k - 1)
      BY <1>3, <1>4, PlaceValue DEF RingIsQueue, k, N
    <2>2. Place(rptr, k) = Place(u, k - 1)
      BY <1>3, <1>4, SMT DEF Place, Index, N
    <2> QED BY <1>1, <1>2, <2>1, <2>2
  <1>7. received' = delivered' \o Contents'
    <2>1. Contents = Slots(rptr, k, rcvbuf) /\ Contents' = Slots(rptr', Balance', rcvbuf')
      BY DEF Contents, Slots, Balance, k
    <2>2. Contents = <<c>> \o Contents'
      BY <1>1, <1>2, <1>3, <1>4, <2>1, PopSlots DEF N, u
    <2>3. Contents' \in Seq(Item) /\ <<c>> \in Seq(Item)
      BY <1>1, <1>2, <1>3, <1>4, <2>1, SlotsShape DEF N
    <2>4. received = delivered \o Contents
      BY DEF RingIsQueue
    <2>5. delivered \o (<<c>> \o Contents') = (delivered \o <<c>>) \o Contents'
      BY <1>4, <2>3, ConcatAssociative
    <2>6. Append(delivered, c) = delivered \o <<c>>
      BY <1>4, AppendIsConcat
    <2> QED BY <1>1, <2>2, <2>4, <2>5, <2>6
  <1> QED BY <1>1, <1>2, <1>3, <1>5, <1>6, <1>7 DEF RingIsQueue, N

\* The two forms of the decrement: of what len holds, or held when it was read.
LEMMA QueueAfterDecrement ==
  ASSUME TypeOK, CountIsLow, RingIsQueue, CountDown \/ CountStore
  PROVE  CountIsLow' /\ RingIsQueue'
  <1> DEFINE old == IF pc = "recv_count" THEN len ELSE reg
  <1>1. /\ UNCHANGED <<rcvbuf, rptr, wptr, received, delivered>>
        /\ pc \in {"recv_count", "recv_store"} /\ pc' = "return"
        /\ len' = (old - 1) % LEN_MODULUS
    BY DEF CountDown, CountStore, Goto, input
  <1>2. PICK n \in 1 .. Balance + 1 : old = Wrapped(n)
    <2>1. Balance \in Nat
      BY CountBounds
    <2>2. CASE pc = "recv_count"
      <3>1. Counted = Balance + 1 /\ Reading
        BY <2>2, CountBounds DEF Uncounted, Reading
      <3>2. PICK n \in 0 .. Counted : len = Wrapped(n) /\ n # 0
        BY <3>1 DEF CountIsLow
      <3>3. n \in 1 .. Balance + 1
        BY <2>1, <3>1, <3>2, SMT
      <3> QED BY <2>2, <3>2, <3>3
    <2>3. CASE pc = "recv_store"
      BY <2>3 DEF CountIsLow
    <2> QED BY <1>1, <2>2, <2>3
  <1>3. n \in 0 .. LEN_MODULUS /\ n > 0 /\ n - 1 \in 0 .. Balance
    BY <1>2, CountBounds, SMT
  <1>4. len' = Wrapped(n - 1)
    BY <1>1, <1>2, <1>3, WrappedValues
  <1>5. Counted' = Balance
    <2>1. Balance \in Nat /\ Balance' = Balance /\ ~Uncounted'
      BY <1>1, CountBounds DEF Balance, Uncounted
    <2> QED BY <2>1, SMT DEF Counted
  <1>6. CountIsLow'
    BY <1>1, <1>3, <1>4, <1>5 DEF CountIsLow, Reading
  <1>7. RingIsQueue'
    BY <1>1, RingStays
  <1> QED BY <1>6, <1>7

LEMMA QueueAfterLoad ==
  ASSUME TypeOK, CountIsLow, RingIsQueue, CountLoad
  PROVE  CountIsLow' /\ RingIsQueue'
  <1>1. /\ UNCHANGED <<rcvbuf, rptr, wptr, len, received, delivered>>
        /\ pc = "recv_count" /\ pc' = "recv_store" /\ reg' = len
    BY DEF CountLoad, Goto, ring, input
  <1>2. Balance' = Balance /\ Counted' = Counted
    BY <1>1 DEF Balance, Counted, Uncounted
  <1>3. Reading /\ ~Reading' /\ Counted = Balance + 1 /\ Balance \in Nat
    BY <1>1, CountBounds DEF Reading, Uncounted
  <1>4. PICK n \in 0 .. Counted : len = Wrapped(n) /\ n # 0
    BY <1>3 DEF CountIsLow
  <1>5. n \in 1 .. Balance + 1
    BY <1>3, <1>4, SMT
  <1>6. CountIsLow'
    BY <1>1, <1>2, <1>3, <1>4, <1>5 DEF CountIsLow
  <1>7. RingIsQueue'
    BY <1>1, RingStays
  <1> QED BY <1>6, <1>7

LEMMA QueueAside ==
  ASSUME TypeOK, CountIsLow, RingIsQueue, Aside
  PROVE  CountIsLow' /\ RingIsQueue'
  <1>1. UNCHANGED <<rcvbuf, rptr, wptr, len, received, delivered, reg>>
    BY AsideKeeps DEF ring, input
  <1>2. Balance' = Balance /\ Balance \in Nat
    BY <1>1, CountBounds DEF Balance
  <1>3. PICK n \in 0 .. Counted : len = Wrapped(n) /\ (Reading => n # 0)
    BY DEF CountIsLow
  <1>4. CASE UNCHANGED <<pc, c>>
    <2>1. Counted' = Counted /\ Reading' = Reading
      BY <1>2, <1>4 DEF Counted, Uncounted, Reading
    <2>2. CountIsLow'
      BY <1>1, <1>2, <1>4, <2>1 DEF CountIsLow
    <2>3. RingIsQueue'
      BY <1>1, <1>4, RingStays DEF RingIsQueue
    <2> QED BY <2>2, <2>3
  <1>5. CASE RecvTest
    <2>1. /\ pc = "idle" /\ pc' \in {"recv_load", "return"}
          /\ pc' = "recv_load" => len > 0
      BY <1>5 DEF RecvTest, Goto
    <2>2. Counted' = Counted
      BY <1>2, <2>1 DEF Counted, Uncounted
    <2>3. Reading' => n # 0
      <3>1. ASSUME Reading' PROVE n # 0
        <4>1. len > 0
          BY <2>1, <3>1 DEF Reading
        <4> QED BY <1>3, <4>1, SizeAssumption, SMT DEF Wrapped
      <3> QED BY <3>1
    <2>4. CountIsLow'
      BY <1>1, <1>3, <2>1, <2>2, <2>3 DEF CountIsLow
    <2> QED BY <1>1, <2>1, <2>4, RingStays
  <1>6. CASE RecvLoad
    <2>1. pc = "recv_load" /\ pc' = "recv_advance" /\ c' = rcvbuf[rptr]
      BY <1>6 DEF RecvLoad, Goto
    <2>2. Reading /\ Counted = Balance /\ Counted' = Counted
      BY <1>2, <2>1, CountBounds DEF Counted, Uncounted, Reading
    <2>3. n # 0 /\ Balance # 0
      BY <1>2, <1>3, <2>2, SMT
    <2>4. CountIsLow'
      BY <1>1, <1>3, <2>1, <2>2, <2>3 DEF CountIsLow
    <2> QED BY <1>1, <2>1, <2>3, <2>4, RingStays
  <1>7. CASE RecvReturn
    <2>1. pc = "return" /\ pc' = "idle"
      BY <1>7 DEF RecvReturn, Goto
    <2>2. Counted' = Counted /\ ~Reading'
      BY <1>2, <2>1 DEF Counted, Uncounted, Reading
    <2>3. CountIsLow'
      BY <1>1, <1>3, <2>1, <2>2 DEF CountIsLow
    <2> QED BY <1>1, <2>1, <2>3, RingStays
  <1>8. RecvTest \/ RecvLoad \/ RecvReturn \/ UNCHANGED <<pc, c>>
    BY DEF Aside, huart_transmit, TransmitterReady
  <1> QED BY <1>4, <1>5, <1>6, <1>7, <1>8

LEMMA NextQueue ==
  ASSUME TypeOK, ~overrun => CountIsLow /\ RingIsQueue, Next, ~overrun'
  PROVE  CountIsLow' /\ RingIsQueue'
  <1>1. ASSUME NEW x \in Item, USCI0RX_ISR(x) PROVE CountIsLow' /\ RingIsQueue'
    <2>1. ~overrun /\ Balance # HUART_RCVBUFSIZE
      BY <1>1 DEF USCI0RX_ISR, Balance
    <2> QED BY <1>1, <2>1, QueueAfterISR
  <1>2. ASSUME RecvAdvance \/ CountDown \/ CountLoad \/ CountStore \/ Aside
        PROVE  ~overrun
    <2>1. overrun' = overrun
      BY <1>2, AsideKeeps DEF RecvAdvance, CountDown, CountLoad, CountStore, input
    <2> QED BY <2>1
  <1>3. \/ \E x \in Item : USCI0RX_ISR(x)
        \/ RecvAdvance \/ CountDown \/ CountLoad \/ CountStore \/ Aside
    BY DEF Next, huart_receive, Aside
  <1> QED BY <1>1, <1>2, <1>3, QueueAfterAdvance, QueueAfterDecrement, QueueAfterLoad,
             QueueAside

------------------------------------------------------------------------------
(* The inductive invariant and the theorems.                               *)

LEMMA InitIInv == Init => IInv
  <1> SUFFICES ASSUME Init PROVE IInv
    OBVIOUS
  <1>1. TypeOK
    BY InitType
  <1>2. Len(received) = 0 /\ Len(delivered) = 0 /\ ~Uncounted
    BY DEF Init, Uncounted
  <1>3. Balance = 0 /\ Counted = 0
    BY <1>2, SMT DEF Balance, Counted
  <1>4. 0 % LEN_MODULUS = 0 /\ Wrapped(0) = 0 /\ 0 % HUART_RCVBUFSIZE = 0
    BY SizeAssumption, SMT DEF Wrapped
  <1>5. StoreIsSplit /\ LenIsBalance
    <2>1. LenIsBalance <=> (atomic => len = Counted % LEN_MODULUS)
      BY DEF LenIsBalance, Counted, Balance
    <2> QED BY <1>3, <1>4, <2>1 DEF Init, StoreIsSplit
  <1>6. CountIsLow
    <2>1. 0 \in 0 .. 0 /\ ~Reading
      BY DEF Init, Reading
    <2> QED BY <1>3, <1>4, <2>1 DEF Init, CountIsLow
  <1>7. RingIsQueue
    <2>1. 0 \in 0 .. HUART_RCVBUFSIZE
      BY SizeAssumption, SMT
    <2>2. Contents = <<>>
      <3>1. Contents = Slots(rptr, 0, rcvbuf)
        BY <1>3 DEF Contents, Slots, Balance
      <3>2. Slots(rptr, 0, rcvbuf) \in Seq(Item) /\ Len(Slots(rptr, 0, rcvbuf)) = 0
        BY <1>1, <2>1, SlotsShape DEF TypeOK
      <3> QED BY <3>1, <3>2, EmptySeq
    <2>3. received = delivered \o Contents
      BY <2>2 DEF Init
    <2> QED BY <1>3, <1>4, <2>1, <2>3 DEF Init, RingIsQueue
  <1>8. TxOrder
    BY DEF Init, TxOrder
  <1> QED BY <1>1, <1>5, <1>6, <1>7, <1>8 DEF IInv

LEMMA NextIInv == IInv /\ [Next]_vars => IInv'
  <1> SUFFICES ASSUME IInv, [Next]_vars PROVE IInv'
    OBVIOUS
  <1>1. CASE Next
    <2>1. TypeOK' /\ StoreIsSplit' /\ LenIsBalance' /\ TxOrder'
      BY <1>1, NextType, NextBalance, NextTx DEF IInv
    <2>2. ~overrun' => CountIsLow' /\ RingIsQueue'
      BY <1>1, NextQueue DEF IInv
    <2> QED BY <2>1, <2>2 DEF IInv
  <1>2. CASE UNCHANGED vars
    BY <1>2 DEF vars, ring, tx, input, IInv, TypeOK, StoreIsSplit, LenIsBalance, CountIsLow,
                RingIsQueue, TxOrder, Balance, Counted, Uncounted, Contents, Reading
  <1> QED BY <1>1, <1>2

LEMMA Invariance == Spec => []IInv
  <1> QED BY InitIInv, NextIInv, PTL DEF Spec

\* The variables of huart.c keep their ranges, overrun or not: no index of the
\* ring ever leaves it.
THEOREM TypeCorrect == Spec => []TypeOK
  <1>1. IInv => TypeOK
    BY DEF IInv
  <1> QED BY <1>1, Invariance, PTL

\* In a build with an atomic decrement huart_rcvbuflen is the balance of what
\* came and went, modulo the values it can take.
THEOREM LenIsBalanceHolds == Spec => []LenIsBalance
  <1>1. IInv => LenIsBalance
    BY DEF IInv
  <1> QED BY <1>1, Invariance, PTL

\* Until it overruns the ring is a queue, whatever the build does to its count;
\* and the transmitter sends what was written, in order.
THEOREM FifoOrderHolds == Spec => []FifoOrder
  <1>1. IInv => FifoOrder
    BY DEF IInv, RingIsQueue, TxOrder, FifoOrder
  <1> QED BY <1>1, Invariance, PTL

==============================================================================
