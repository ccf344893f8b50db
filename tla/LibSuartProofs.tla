--------------------------- MODULE LibSuartProofs ----------------------------
(***************************************************************************)
(* For queues of every size and every number of bytes: nothing is garbled  *)
(* in the queues of libcomm/suart.c, and their len counts laps.            *)
(***************************************************************************)
EXTENDS LibSuart, SequenceTheorems, TLAPS

\* Quotients and remainders by a number that is not given.
LEMMA Division ==
  ASSUME NEW M \in Nat \ {0}, NEW x \in Int
  PROVE  x % M \in 0 .. M - 1 /\ x \div M \in Int /\ x = (M * (x \div M)) + (x % M)
  BY SMT

LEMMA Remainder ==
  ASSUME NEW M \in Nat \ {0}, NEW q \in Int, NEW r \in 0 .. M - 1
  PROVE  ((M * q) + r) % M = r
  BY SMT

LEMMA Quotient ==
  ASSUME NEW M \in Nat \ {0}, NEW q \in Int, NEW r \in 0 .. M - 1
  PROVE  ((M * q) + r) \div M = q
  BY SMT

\* Counting up by one, seen from the remainder and the quotient.
LEMMA OneMore ==
  ASSUME NEW M \in Nat \ {0}, NEW x \in Int
  PROVE  /\ (x + 1) % M = IF x % M = M - 1 THEN 0 ELSE (x % M) + 1
         /\ (x + 1) \div M = IF x % M = M - 1 THEN (x \div M) + 1 ELSE x \div M
  <1> DEFINE q == x \div M
             r == x % M
  <1>1. r \in 0 .. M - 1 /\ q \in Int /\ x = (M * q) + r
    BY Division
  <1> HIDE DEF q, r
  <1>2. CASE r = M - 1
    <2>1. x + 1 = (M * (q + 1)) + 0 /\ q + 1 \in Int
      BY <1>1, <1>2, SMT
    <2>2. 0 \in 0 .. M - 1
      BY SMT
    <2> QED BY <1>2, <2>1, <2>2, Remainder, Quotient DEF q, r
  <1>3. CASE r # M - 1
    <2>1. x + 1 = (M * q) + (r + 1) /\ r + 1 \in 0 .. M - 1
      BY <1>1, <1>3, SMT
    <2> QED BY <1>1, <1>3, <2>1, Remainder, Quotient DEF q, r
  <1> QED BY <1>2, <1>3

\* Numbers less than M apart have different remainders.
LEMMA RemaindersDiffer ==
  ASSUME NEW M \in Nat \ {0}, NEW x \in Int, NEW y \in Int, x < y, y < x + M
  PROVE  x % M # y % M
  <1> DEFINE q == x \div M
             r == x % M
             s == y \div M
  <1> SUFFICES ASSUME y % M = r PROVE FALSE
    OBVIOUS
  <1>1. r \in 0 .. M - 1 /\ q \in Int /\ x = (M * q) + r
    BY Division
  <1>2. s \in Int /\ y = (M * s) + r
    BY Division
  <1> HIDE DEF q, r, s
  <1>3. CASE s <= q
    <2>1. M * s <= M * q
      BY <1>1, <1>2, <1>3, SMT
    <2> QED BY <1>1, <1>2, <2>1, SMT
  <1>4. CASE s >= q + 1
    <2>1. M * s >= (M * q) + M
      BY <1>1, <1>2, <1>4, SMT
    <2> QED BY <1>1, <1>2, <2>1, SMT
  <1> QED BY <1>1, <1>2, <1>3, <1>4, SMT

\* Numbers at most M apart have quotients at most one apart.
LEMMA QuotientsClose ==
  ASSUME NEW M \in Nat \ {0}, NEW x \in Int, NEW y \in Int, x <= y, y <= x + M
  PROVE  (y \div M) - (x \div M) \in 0 .. 1
  <1> DEFINE q == x \div M
             r == x % M
             s == y \div M
             t == y % M
  <1>1. r \in 0 .. M - 1 /\ q \in Int /\ x = (M * q) + r
    BY Division
  <1>2. t \in 0 .. M - 1 /\ s \in Int /\ y = (M * s) + t
    BY Division
  <1> HIDE DEF q, r, s, t
  <1>3. ~(s < q)
    <2>1. s < q => (M * s) + M <= M * q
      BY <1>1, <1>2, SMT
    <2> QED BY <1>1, <1>2, <2>1, SMT
  <1>4. ~(s > q + 1)
    <2>1. s > q + 1 => M * s >= (M * q) + M + M
      BY <1>1, <1>2, SMT
    <2> QED BY <1>1, <1>2, <2>1, SMT
  <1>5. s - q \in 0 .. 1
    BY <1>1, <1>2, <1>3, <1>4, SMT
  <1> QED BY <1>5 DEF q, s

\* Bytes that went into a queue and that came out of it.
came == Len(arrived)
read == Len(delivered)
given == Len(put)
sent == Len(transmitted)

\* The bytes of the history s after the first n lie in the memory of f.
Holds(f, s, n) == \A i \in n .. Len(s) - 1 : f.pMem[i % Lap] = s[i + 1]

\* The indices are the remainders of what has been pushed and popped, but for
\* the moment in which a lap is popped and the index not yet reset.
InQueue == /\ read <= came /\ came <= read + Lap
           /\ inq.wptr = came % Lap
           /\ inq.rptr = IF pc = "pop_lap" /\ read % Lap = 0 THEN Lap ELSE read % Lap
           /\ pc = "pop_load" => read < came
           /\ \A i \in 1 .. read : delivered[i] = arrived[i]
           /\ Holds(inq, arrived, read)

\* What is flushed are the laps that are full.
OutQueue == /\ sent <= Lap * (given \div Lap) /\ given <= sent + Lap
            /\ pc # "flush" => sent = Lap * (given \div Lap)
            /\ outq.wptr = given % Lap
            /\ outq.rptr = sent % Lap
            /\ outq.len = (given \div Lap) - (sent \div Lap)
            /\ \A i \in 1 .. sent : transmitted[i] = put[i]
            /\ Holds(outq, put, sent)

IInv == TypeOK /\ LenCountsLaps /\ InQueue /\ OutQueue

------------------------------------------------------------------------------
(* The functions of fifo.c on a queue of SIZE bytes.                       *)

LEMMA LapFacts ==
  Lap \in Nat \ {0} /\ SIZE - 2 = Lap - 1 /\ LEN_MODULUS \in Nat /\ LEN_MODULUS > 2
  BY SizeAssumption, FifoAssumption, SMT DEF Lap

LEMMA InLap ==
  ASSUME NEW n \in Int
  PROVE  n % Lap \in 0 .. Lap - 1 /\ n % Lap \in 0 .. SIZE - 1
  <1>1. n % Lap \in 0 .. Lap - 1
    BY LapFacts, Division
  <1> QED BY <1>1, SizeAssumption, SMT DEF Lap

LEMMA PushEffect ==
  ASSUME NEW f \in FifoType(SIZE), NEW b \in Item
  PROVE  LET g == fifo_push(f, b)
         IN  /\ g \in FifoType(SIZE)
             /\ g.pMem = [f.pMem EXCEPT ![f.wptr] = b]
             /\ g.rptr = f.rptr
             /\ g.wptr = IF f.wptr = Lap - 1 THEN 0 ELSE f.wptr + 1
             /\ g.len = IF f.wptr = Lap - 1 THEN (f.len + 1) % LEN_MODULUS ELSE f.len
  <1> DEFINE g == fifo_push(f, b)
  <1>1. /\ f.pMem \in [0 .. SIZE - 1 -> Item] /\ f.size = SIZE
        /\ f.rptr \in 0 .. SIZE - 1 /\ f.wptr \in 0 .. Lap - 1
        /\ f.len \in 0 .. LEN_MODULUS - 1
        /\ f = [pMem |-> f.pMem, size |-> f.size, rptr |-> f.rptr, wptr |-> f.wptr,
                len |-> f.len]
    BY LapFacts DEF FifoType
  <1>2. Wraps(f, f.wptr) <=> f.wptr = Lap - 1
    BY <1>1, LapFacts, SizeAssumption, SMT DEF Wraps, Lap
  <1>3. /\ g.pMem = [f.pMem EXCEPT ![f.wptr] = b]
        /\ g.rptr = f.rptr /\ g.size = f.size
        /\ g.wptr = Step(f, f.wptr)
        /\ g.len = IF Wraps(f, f.wptr) THEN (f.len + 1) % LEN_MODULUS ELSE f.len
        /\ g = [pMem |-> g.pMem, size |-> g.size, rptr |-> g.rptr, wptr |-> g.wptr,
                len |-> g.len]
    <2> DEFINE st == Step(f, f.wptr)
               l == IF Wraps(f, f.wptr) THEN (f.len + 1) % LEN_MODULUS ELSE f.len
               mem == [f.pMem EXCEPT ![f.wptr] = b]
    <2>1. g = [f EXCEPT !.pMem[f.wptr] = b, !.wptr = st, !.len = l]
      BY DEF fifo_push
    <2>2. [f EXCEPT !.pMem[f.wptr] = b] = [f EXCEPT !.pMem = mem]
      OBVIOUS
    <2>3. g = [f EXCEPT !.pMem = mem, !.wptr = st, !.len = l]
      BY <2>1, <2>2
    <2> HIDE DEF g, st, l, mem
    <2>4. /\ g.pMem = mem /\ g.rptr = f.rptr /\ g.size = f.size /\ g.wptr = st /\ g.len = l
          /\ g = [pMem |-> g.pMem, size |-> g.size, rptr |-> g.rptr, wptr |-> g.wptr,
                  len |-> g.len]
      BY <1>1, <2>3
    <2> QED BY <2>4 DEF st, l, mem
  <1>4. g.wptr = IF f.wptr = Lap - 1 THEN 0 ELSE f.wptr + 1
    BY <1>2, <1>3 DEF Step
  <1>5. g.wptr \in 0 .. SIZE - 2 /\ g.len \in 0 .. LEN_MODULUS - 1
    BY <1>1, <1>3, <1>4, LapFacts, SMT
  <1>6. g.pMem \in [0 .. SIZE - 1 -> Item]
    BY <1>1, <1>3
  <1> HIDE DEF g
  <1>7. g \in FifoType(SIZE)
    BY <1>1, <1>3, <1>5, <1>6 DEF FifoType
  <1> QED BY <1>2, <1>3, <1>4, <1>7 DEF g

\* The byte is taken and the index goes on, to the end of the lap at most.
LEMMA MoveEffect ==
  ASSUME NEW f \in FifoType(SIZE), f.rptr < Lap
  PROVE  LET g == PopMove(f)
         IN  /\ g \in FifoType(SIZE) /\ PopByte(f) \in Item
             /\ g.pMem = f.pMem /\ g.wptr = f.wptr /\ g.len = f.len
             /\ g.rptr = f.rptr + 1
             /\ PopWraps(g) <=> f.rptr = Lap - 1
  <1> DEFINE g == PopMove(f)
  <1>1. /\ f.pMem \in [0 .. SIZE - 1 -> Item] /\ f.size = SIZE
        /\ f.rptr \in 0 .. SIZE - 1 /\ f.wptr \in 0 .. SIZE - 2
        /\ f.len \in 0 .. LEN_MODULUS - 1
        /\ f = [pMem |-> f.pMem, size |-> f.size, rptr |-> f.rptr, wptr |-> f.wptr,
                len |-> f.len]
    BY DEF FifoType
  <1>2. /\ g.pMem = f.pMem /\ g.wptr = f.wptr /\ g.len = f.len /\ g.size = f.size
        /\ g.rptr = f.rptr + 1
        /\ g = [pMem |-> g.pMem, size |-> g.size, rptr |-> g.rptr, wptr |-> g.wptr,
                len |-> g.len]
    BY <1>1 DEF PopMove
  <1>3. g.rptr \in 0 .. SIZE - 1 /\ (g.rptr >= g.size - 1 <=> f.rptr = Lap - 1)
    BY <1>1, <1>2, SizeAssumption, SMT DEF Lap
  <1> HIDE DEF g
  <1>4. g \in FifoType(SIZE)
    BY <1>1, <1>2, <1>3 DEF FifoType
  <1> QED BY <1>1, <1>2, <1>3, <1>4 DEF g, PopWraps, PopByte

LEMMA LapEffect ==
  ASSUME NEW f \in FifoType(SIZE)
  PROVE  LET g == PopLap(f)
         IN  /\ g \in FifoType(SIZE)
             /\ g.pMem = f.pMem /\ g.wptr = f.wptr /\ g.rptr = 0
             /\ g.len = (f.len - 1) % LEN_MODULUS
  <1> DEFINE g == PopLap(f)
  <1>1. /\ f.pMem \in [0 .. SIZE - 1 -> Item] /\ f.size = SIZE
        /\ f.wptr \in 0 .. SIZE - 2 /\ f.len \in 0 .. LEN_MODULUS - 1
        /\ f = [pMem |-> f.pMem, size |-> f.size, rptr |-> f.rptr, wptr |-> f.wptr,
                len |-> f.len]
    BY DEF FifoType
  <1>2. /\ g.pMem = f.pMem /\ g.wptr = f.wptr /\ g.rptr = 0 /\ g.size = f.size
        /\ g.len = (f.len - 1) % LEN_MODULUS
        /\ g = [pMem |-> g.pMem, size |-> g.size, rptr |-> g.rptr, wptr |-> g.wptr,
                len |-> g.len]
    <2> DEFINE l == (f.len - 1) % LEN_MODULUS
    <2>1. g = [f EXCEPT !.rptr = 0, !.len = l]
      BY DEF PopLap
    <2> HIDE DEF g, l
    <2>2. /\ g.pMem = f.pMem /\ g.wptr = f.wptr /\ g.rptr = 0 /\ g.size = f.size
          /\ g.len = l
          /\ g = [pMem |-> g.pMem, size |-> g.size, rptr |-> g.rptr, wptr |-> g.wptr,
                  len |-> g.len]
      BY <1>1, <2>1
    <2> QED BY <2>2 DEF l
  <1>3. g.rptr \in 0 .. SIZE - 1 /\ g.len \in 0 .. LEN_MODULUS - 1
    BY <1>1, <1>2, LapFacts, SizeAssumption, SMT
  <1> HIDE DEF g
  <1>4. g \in FifoType(SIZE)
    BY <1>1, <1>2, <1>3 DEF FifoType
  <1> QED BY <1>2, <1>4 DEF g

\* A byte pushed does not overwrite one that is still held.
LEMMA HoldsAfterPush ==
  ASSUME NEW f \in FifoType(SIZE), NEW s \in Seq(Item), NEW b \in Item, NEW n \in Nat,
         Len(s) < n + Lap, f.wptr = Len(s) % Lap, Holds(f, s, n)
  PROVE  Holds(fifo_push(f, b), Append(s, b), n)
  <1> DEFINE g == fifo_push(f, b)
             u == Append(s, b)
             m == Len(s)
  <1>1. m \in Nat /\ m \in Int /\ Len(u) = m + 1 /\ u[m + 1] = b /\ \A i \in 1 .. m : u[i] = s[i]
    BY AppendProperties
  <1>2. /\ f.pMem \in [0 .. SIZE - 1 -> Item]
        /\ g.pMem = [f.pMem EXCEPT ![m % Lap] = b]
    BY PushEffect DEF FifoType
  <1>3. m % Lap \in 0 .. SIZE - 1
    BY <1>1, InLap
  <1>4. m < n + Lap /\ Lap \in Nat \ {0}
    BY LapFacts
  <1> HIDE DEF g, u, m
  <1> SUFFICES ASSUME NEW i \in n .. m PROVE g.pMem[i % Lap] = u[i + 1]
    <2>1. n .. Len(u) - 1 = n .. m
      BY <1>1
    <2> QED BY <2>1 DEF Holds, g, u
  <1>5. CASE i = m
    BY <1>1, <1>2, <1>3, <1>5
  <1>6. CASE i # m
    <2>1. i \in n .. m - 1 /\ i + 1 \in 1 .. m /\ i \in Int /\ i < m /\ m < i + Lap
      BY <1>1, <1>4, <1>6, SMT
    <2>2. i % Lap # m % Lap
      BY <1>1, <1>4, <2>1, RemaindersDiffer
    <2>3. i % Lap \in 0 .. SIZE - 1
      BY <2>1, InLap
    <2>4. f.pMem[i % Lap] = s[i + 1]
      BY <2>1 DEF Holds, m
    <2> QED BY <1>1, <1>2, <2>1, <2>2, <2>3, <2>4
  <1> QED BY <1>5, <1>6
------------------------------------------------------------------------------
(* The queue of received bytes.                                            *)

LEMMA Counts ==
  ASSUME TypeOK
  PROVE  /\ came \in Nat /\ read \in Nat /\ given \in Nat /\ sent \in Nat
         /\ inq \in FifoType(SIZE) /\ outq \in FifoType(SIZE)
         /\ inq.len \in 0 .. LEN_MODULUS - 1 /\ inq.size = SIZE
  BY DEF TypeOK, came, read, given, sent, FifoType

LEMMA LenMeans ==
  /\ LenCountsLaps <=> inq.len = (came \div Lap) - (read \div Lap)
                                   + (IF pc = "pop_lap" /\ PopWraps(inq) THEN 1 ELSE 0)
  /\ LenCountsLaps' <=> inq'.len = (came' \div Lap) - (read' \div Lap)
                                   + (IF pc' = "pop_lap" /\ PopWraps(inq') THEN 1 ELSE 0)
  BY DEF LenCountsLaps, came, read

\* The queue that is sent from is not touched.
LEMMA OutQueueStays ==
  ASSUME OutQueue, UNCHANGED <<outq, put, transmitted>>, pc # "flush" \/ UNCHANGED pc
  PROVE  OutQueue'
  <1>1. given' = given /\ sent' = sent
    BY DEF given, sent
  <1> QED BY <1>1 DEF OutQueue, Holds

LEMMA InQueueStays ==
  ASSUME LenCountsLaps, InQueue, UNCHANGED <<inq, arrived, delivered>>,
         UNCHANGED pc \/ (pc # "pop_lap" /\ pc' \notin {"pop_lap", "pop_load"})
  PROVE  LenCountsLaps' /\ InQueue'
  <1>1. came' = came /\ read' = read
    BY DEF came, read
  <1> QED BY <1>1 DEF InQueue, Holds, LenCountsLaps

LEMMA ReceiveKeeps ==
  ASSUME IInv, NEW b \in Item, Receive(b)
  PROVE  IInv'
  <1> DEFINE cq == came \div Lap
             cr == came % Lap
             rq == read \div Lap
             w  == IF pc = "pop_lap" /\ PopWraps(inq) THEN 1 ELSE 0
  <1>1. /\ came \in Nat /\ read \in Nat /\ came < read + Lap
        /\ inq' = fifo_push(inq, b) /\ arrived' = Append(arrived, b)
        /\ UNCHANGED <<outq, pc, ret, delivered, put, transmitted>>
    <2>1. came \in Nat /\ read \in Nat /\ came - read < Lap
      BY Counts DEF IInv, Receive, came, read
    <2> QED BY <2>1, LapFacts, SMT DEF Receive
  <1>2. /\ inq \in FifoType(SIZE) /\ arrived \in Seq(Item) /\ Lap \in Nat \ {0}
        /\ LEN_MODULUS \in Nat /\ LEN_MODULUS > 2
        /\ inq.len \in 0 .. LEN_MODULUS - 1 /\ inq.size = SIZE
    BY Counts, LapFacts DEF IInv, TypeOK
  <1>3. /\ inq'.pMem = [inq.pMem EXCEPT ![inq.wptr] = b]
        /\ inq' \in FifoType(SIZE) /\ inq'.rptr = inq.rptr
        /\ inq'.wptr = IF inq.wptr = Lap - 1 THEN 0 ELSE inq.wptr + 1
        /\ inq'.len = IF inq.wptr = Lap - 1 THEN (inq.len + 1) % LEN_MODULUS ELSE inq.len
    BY <1>1, <1>2, PushEffect
  <1>4. /\ came' = came + 1 /\ read' = read /\ arrived' \in Seq(Item)
        /\ \A i \in 1 .. came : arrived'[i] = arrived[i]
    BY <1>1, <1>2, AppendProperties DEF came, read
  <1>5. inq.wptr = cr /\ InQueue
    BY DEF IInv, InQueue
  <1>6. /\ came' % Lap = IF cr = Lap - 1 THEN 0 ELSE cr + 1
        /\ came' \div Lap = IF cr = Lap - 1 THEN cq + 1 ELSE cq
    <2>1. came \in Int /\ Lap \in Nat \ {0}
      BY <1>1, <1>2
    <2>2. /\ (came + 1) % Lap = IF cr = Lap - 1 THEN 0 ELSE cr + 1
          /\ (came + 1) \div Lap = IF cr = Lap - 1 THEN cq + 1 ELSE cq
      BY <2>1, OneMore
    <2> QED BY <1>4, <2>2
  <1>7. (came' \div Lap) - rq \in 0 .. 1 /\ cq \in Int /\ rq \in Int
    <2>1. came' \in Int /\ read \in Int /\ came \in Int /\ read <= came' /\ came' <= read + Lap
      BY <1>1, <1>2, <1>4, <1>5, SMT DEF InQueue
    <2>2. (came' \div Lap) - rq \in 0 .. 1
      BY <1>2, <2>1, QuotientsClose
    <2>3. cq \in Int /\ rq \in Int
      BY <1>2, <2>1, Division
    <2> QED BY <2>2, <2>3
  <1>8. w \in 0 .. 1 /\ (IF pc' = "pop_lap" /\ PopWraps(inq') THEN 1 ELSE 0) = w
    <2>1. inq'.size = SIZE
      BY <1>3 DEF FifoType
    <2> QED BY <1>1, <1>2, <1>3, <2>1 DEF PopWraps
  <1>9. inq.len = cq - rq + w
    BY LenMeans DEF IInv
  <1> HIDE DEF cq, cr, rq, w
  <1>10. inq'.len = (came' \div Lap) - rq + w
    <2>1. CASE cr = Lap - 1
      <3>1. inq.len + 1 \in 0 .. 2
        BY <1>2, <1>6, <1>7, <1>8, <1>9, <2>1, SMT
      <3>2. (inq.len + 1) % LEN_MODULUS = inq.len + 1
        BY <1>2, <3>1, SMT
      <3> QED BY <1>3, <1>5, <1>6, <1>7, <1>8, <1>9, <2>1, <3>2, SMT
    <2>2. CASE cr # Lap - 1
      BY <1>3, <1>5, <1>6, <1>9, <2>2
    <2> QED BY <2>1, <2>2
  <1>11. LenCountsLaps'
    BY <1>4, <1>8, <1>10, LenMeans DEF rq
  <1>12. Holds(inq', arrived', read')
    <2>1. Holds(inq, arrived, read)
      BY <1>5 DEF InQueue
    <2> QED BY <1>1, <1>2, <1>4, <1>5, <2>1, HoldsAfterPush DEF came, cr
  <1>13. InQueue'
    <2>1. read' <= came' /\ came' <= read' + Lap /\ read' < came'
      BY <1>1, <1>2, <1>4, <1>5, SMT DEF InQueue
    <2>2. inq'.wptr = came' % Lap
      BY <1>3, <1>5, <1>6
    <2>3. \A i \in 1 .. read' : delivered'[i] = arrived'[i]
      <3>1. \A i \in 1 .. read : i \in 1 .. came
        BY <1>1, <1>5, SMT DEF InQueue
      <3> QED BY <1>1, <1>4, <1>5, <3>1 DEF InQueue
    <2>4. inq'.rptr = IF pc' = "pop_lap" /\ read' % Lap = 0 THEN Lap ELSE read' % Lap
      BY <1>1, <1>3, <1>4, <1>5 DEF InQueue
    <2> QED BY <1>12, <2>1, <2>2, <2>3, <2>4 DEF InQueue
  <1>14. TypeOK'
    BY <1>1, <1>3, <1>4 DEF IInv, TypeOK
  <1>15. OutQueue'
    BY <1>1, OutQueueStays DEF IInv
  <1> QED BY <1>11, <1>13, <1>14, <1>15 DEF IInv

LEMMA PopTestKeeps ==
  ASSUME IInv, PopTest
  PROVE  IInv'
  <1>1. /\ UNCHANGED <<inq, outq, ret, arrived, delivered, put, transmitted>>
        /\ pc = "idle" /\ pc' \in {"idle", "pop_load"}
        /\ pc' = "pop_load" => inq.len > 0
    BY DEF PopTest, Goto, fifo_peek
  <1>2. came' = came /\ read' = read
    BY <1>1 DEF came, read
  <1>3. LenCountsLaps'
    BY <1>1 DEF IInv, LenCountsLaps
  <1>4. pc' = "pop_load" => read < came
    <2>1. SUFFICES ASSUME pc' = "pop_load", read = came PROVE FALSE
      <3>1. read \in Nat /\ came \in Nat /\ read <= came
        BY Counts DEF IInv, InQueue
      <3> QED BY <2>1, <3>1, SMT
    <2>2. inq.len = (came \div Lap) - (came \div Lap) + 0
      BY <1>1, <2>1, LenMeans DEF IInv
    <2>3. came \div Lap \in Int
      BY Counts, LapFacts, Division DEF IInv
    <2>4. inq.len = 0
      BY <2>2, <2>3, SMT
    <2> QED BY <1>1, <2>1, <2>4, SMT
  <1>5. InQueue'
    BY <1>1, <1>2, <1>4 DEF IInv, InQueue, Holds
  <1>6. TypeOK' /\ OutQueue'
    BY <1>1, OutQueueStays DEF IInv, TypeOK
  <1> QED BY <1>3, <1>5, <1>6 DEF IInv

LEMMA PopLoadKeeps ==
  ASSUME IInv, PopLoad
  PROVE  IInv'
  <1> DEFINE cq == came \div Lap
             rr == read % Lap
             rq == read \div Lap
  <1>1. /\ pc = "pop_load" /\ pc' = "pop_lap"
        /\ ret' = PopByte(inq) /\ inq' = PopMove(inq)
        /\ delivered' = Append(delivered, PopByte(inq))
        /\ UNCHANGED <<outq, arrived, put, transmitted>>
    BY DEF PopLoad, Goto
  <1>2. /\ came \in Nat /\ read \in Nat /\ read < came /\ came <= read + Lap
        /\ inq.rptr = rr /\ InQueue
    BY <1>1, Counts DEF IInv, InQueue
  <1>3. /\ inq \in FifoType(SIZE) /\ delivered \in Seq(Item) /\ Lap \in Nat \ {0}
        /\ read \in Int
    BY Counts, LapFacts DEF IInv, TypeOK
  <1>4. rr \in 0 .. Lap - 1
    BY <1>3, InLap
  <1>5. rr < Lap /\ Lap - 1 \in Int /\ rr \in Int
    BY <1>3, <1>4, SMT
  <1>6. /\ inq' \in FifoType(SIZE) /\ PopByte(inq) \in Item
        /\ inq'.pMem = inq.pMem /\ inq'.wptr = inq.wptr /\ inq'.len = inq.len
        /\ inq'.rptr = rr + 1
        /\ PopWraps(inq') <=> rr = Lap - 1
    BY <1>1, <1>2, <1>3, <1>5, MoveEffect
  <1>7. PopByte(inq) = arrived[read + 1]
    <2>1. read \in read .. came - 1
      BY <1>2, SMT
    <2> QED BY <1>2, <2>1 DEF InQueue, Holds, PopByte, came
  <1>8. /\ came' = came /\ read' = read + 1 /\ delivered' \in Seq(Item)
        /\ \A i \in 1 .. read : delivered'[i] = delivered[i]
        /\ delivered'[read + 1] = arrived[read + 1]
    BY <1>1, <1>3, <1>6, <1>7, AppendProperties DEF came, read
  <1>9. /\ read' % Lap = IF rr = Lap - 1 THEN 0 ELSE rr + 1
        /\ read' \div Lap = IF rr = Lap - 1 THEN rq + 1 ELSE rq
    BY <1>3, <1>8, OneMore
  <1>10. inq.len = cq - rq + 0
    BY <1>1, LenMeans DEF IInv
  <1>11. cq \in Int /\ rq \in Int
    BY <1>2, <1>3, Division
  <1> HIDE DEF cq, rr, rq
  <1>12. LenCountsLaps'
    <2>1. inq'.len = cq - (read' \div Lap) + (IF pc' = "pop_lap" /\ PopWraps(inq') THEN 1 ELSE 0)
      BY <1>1, <1>6, <1>9, <1>10, <1>11, SMT
    <2> QED BY <1>8, <2>1, LenMeans DEF cq
  <1>13. InQueue'
    <2>1. read' <= came' /\ came' <= read' + Lap
      BY <1>2, <1>3, <1>8, SMT
    <2>2. inq'.rptr = IF pc' = "pop_lap" /\ read' % Lap = 0 THEN Lap ELSE read' % Lap
      <3> DEFINE nr == read' % Lap
      <3>1. nr = IF rr = Lap - 1 THEN 0 ELSE rr + 1
        BY <1>9
      <3> HIDE DEF nr
      <3>2. inq'.rptr = IF nr = 0 THEN Lap ELSE nr
        BY <1>3, <1>4, <1>5, <1>6, <3>1, SMT
      <3> QED BY <1>1, <3>2 DEF nr
    <2>3. ASSUME NEW i \in 1 .. read' PROVE delivered'[i] = arrived'[i]
      <3>1. i \in 1 .. read \/ i = read + 1
        BY <1>2, <1>8, <2>3, SMT
      <3> QED BY <1>1, <1>2, <1>8, <3>1 DEF InQueue
    <2>4. Holds(inq', arrived', read')
      <3>1. \A i \in read' .. Len(arrived) - 1 : i \in read .. Len(arrived) - 1
        BY <1>2, <1>8, SMT DEF came
      <3> QED BY <1>1, <1>2, <1>6, <3>1 DEF InQueue, Holds
    <2>5. inq'.wptr = came' % Lap
      BY <1>2, <1>6, <1>8 DEF InQueue
    <2> QED BY <1>1, <2>1, <2>2, <2>3, <2>4, <2>5 DEF InQueue
  <1>14. TypeOK'
    BY <1>1, <1>6, <1>8 DEF IInv, TypeOK
  <1>15. OutQueue'
    BY <1>1, OutQueueStays DEF IInv
  <1> QED BY <1>12, <1>13, <1>14, <1>15 DEF IInv

LEMMA PopFinishKeeps ==
  ASSUME IInv, PopFinish
  PROVE  IInv'
  <1> DEFINE cq == came \div Lap
             rq == read \div Lap
  <1>1. /\ pc = "pop_lap" /\ pc' = "idle"
        /\ inq' = IF PopWraps(inq) THEN PopLap(inq) ELSE inq
        /\ UNCHANGED <<outq, ret, arrived, delivered, put, transmitted>>
    BY DEF PopFinish, Goto
  <1>2. /\ came' = came /\ read' = read /\ came \in Nat /\ read \in Nat
        /\ came \in Int /\ read \in Int /\ Lap \in Nat \ {0}
        /\ inq \in FifoType(SIZE) /\ InQueue /\ read <= came /\ came <= read + Lap
        /\ LEN_MODULUS \in Nat /\ LEN_MODULUS > 2
        /\ inq.size = SIZE /\ inq.rptr \in 0 .. SIZE - 1
    BY <1>1, Counts, LapFacts DEF IInv, InQueue, came, read, FifoType
  <1>3. cq - rq \in 0 .. 1 /\ cq \in Int /\ rq \in Int
    BY <1>2, QuotientsClose, Division
  <1>4. inq.len = cq - rq + (IF PopWraps(inq) THEN 1 ELSE 0)
    BY <1>1, LenMeans DEF IInv
  <1>5. read % Lap \in 0 .. Lap - 1
    BY <1>2, InLap
  <1>6. PopWraps(inq) <=> read % Lap = 0
    <2>1. PopWraps(inq) <=> inq.rptr >= Lap
      BY <1>2 DEF PopWraps, Lap
    <2>2. inq.rptr = IF read % Lap = 0 THEN Lap ELSE read % Lap
      BY <1>1, <1>2 DEF InQueue
    <2> QED BY <1>2, <1>5, <2>1, <2>2, SMT
  <1> HIDE DEF cq, rq
  <1>7. /\ inq' \in FifoType(SIZE) /\ inq'.pMem = inq.pMem /\ inq'.wptr = inq.wptr
        /\ inq'.rptr = read % Lap /\ inq'.len = cq - rq
    <2>1. CASE PopWraps(inq)
      <3>1. /\ inq' \in FifoType(SIZE) /\ inq'.pMem = inq.pMem /\ inq'.wptr = inq.wptr
            /\ inq'.rptr = 0 /\ inq'.len = (inq.len - 1) % LEN_MODULUS
        BY <1>1, <1>2, <2>1, LapEffect
      <3>2. (inq.len - 1) % LEN_MODULUS = cq - rq
        BY <1>2, <1>3, <1>4, <2>1, SMT
      <3> QED BY <1>6, <2>1, <3>1, <3>2
    <2>2. CASE ~PopWraps(inq)
      <3>1. inq.len = cq - rq
        BY <1>3, <1>4, <2>2, SMT
      <3>2. inq.rptr = read % Lap
        BY <1>2, <1>6, <2>2 DEF InQueue
      <3> QED BY <1>1, <1>2, <2>2, <3>1, <3>2
    <2> QED BY <2>1, <2>2
  <1>8. LenCountsLaps'
    <2>1. inq'.len = cq - rq + 0
      BY <1>3, <1>7, SMT
    <2> QED BY <1>1, <1>2, <2>1, LenMeans DEF cq, rq
  <1>9. InQueue'
    BY <1>1, <1>2, <1>7 DEF InQueue, Holds
  <1>10. TypeOK' /\ OutQueue'
    BY <1>1, <1>7, OutQueueStays DEF IInv, TypeOK
  <1> QED BY <1>8, <1>9, <1>10 DEF IInv

------------------------------------------------------------------------------
(* The queue of bytes to send.                                             *)

\* Laps that are full are full of bytes.
LEMMA FullLaps ==
  ASSUME NEW n \in Nat
  PROVE  /\ n \div Lap \in Int /\ n = (Lap * (n \div Lap)) + (n % Lap)
         /\ Lap * (n \div Lap) \in Int /\ Lap * (n \div Lap) <= n
  <1>1. n \in Int /\ Lap \in Nat \ {0}
    BY LapFacts
  <1>2. /\ n % Lap \in 0 .. Lap - 1 /\ n \div Lap \in Int
        /\ n = (Lap * (n \div Lap)) + (n % Lap)
    BY <1>1, Division
  <1>3. Lap * (n \div Lap) \in Int
    BY <1>1, <1>2, SMT
  <1> DEFINE r == n % Lap
             m == Lap * (n \div Lap)
  <1>4. m <= n
    <2>1. r \in 0 .. Lap - 1 /\ m \in Int /\ n = m + r
      BY <1>2, <1>3
    <2> HIDE DEF r, m
    <2> QED BY <1>1, <2>1, SMT
  <1> QED BY <1>2, <1>3, <1>4

LEMMA PutcharKeeps ==
  ASSUME IInv, NEW b \in Item, putchar(b)
  PROVE  IInv'
  <1> DEFINE gq == given \div Lap
             gr == given % Lap
             sq == sent \div Lap
  <1>1. /\ pc = "idle" /\ pc' = "flush"
        /\ outq' = fifo_push(outq, b) /\ put' = Append(put, b)
        /\ UNCHANGED <<inq, ret, arrived, delivered, transmitted>>
    BY DEF putchar, Goto
  <1>2. /\ given \in Nat /\ sent \in Nat /\ given \in Int /\ Lap \in Nat \ {0}
        /\ outq \in FifoType(SIZE) /\ put \in Seq(Item)
        /\ LEN_MODULUS \in Nat /\ LEN_MODULUS > 2
    BY Counts, LapFacts DEF IInv, TypeOK
  <1>3. /\ OutQueue /\ sent = Lap * gq /\ outq.wptr = gr
        /\ outq.len = gq - sq
    BY <1>1 DEF IInv, OutQueue
  <1>4. /\ gq \in Int /\ given = sent + gr /\ gr \in 0 .. Lap - 1
    BY <1>2, <1>3, FullLaps, InLap
  <1>5. sq = gq
    <2>1. ((Lap * gq) + 0) \div Lap = gq
      <3>1. 0 \in 0 .. Lap - 1
        BY <1>2, SMT
      <3> QED BY <1>2, <1>4, <3>1, Quotient
    <2>2. (Lap * gq) + 0 = sent
      BY <1>2, <1>3
    <2> QED BY <2>1, <2>2
  <1>6. /\ outq'.pMem = [outq.pMem EXCEPT ![outq.wptr] = b]
        /\ outq' \in FifoType(SIZE) /\ outq'.rptr = outq.rptr
        /\ outq'.wptr = IF gr = Lap - 1 THEN 0 ELSE gr + 1
        /\ outq'.len = IF gr = Lap - 1 THEN (outq.len + 1) % LEN_MODULUS ELSE outq.len
    BY <1>1, <1>2, <1>3, PushEffect
  <1>7. /\ given' = given + 1 /\ sent' = sent /\ put' \in Seq(Item)
        /\ \A i \in 1 .. given : put'[i] = put[i]
    BY <1>1, <1>2, AppendProperties DEF given, sent
  <1>8. /\ (given + 1) % Lap = IF gr = Lap - 1 THEN 0 ELSE gr + 1
        /\ (given + 1) \div Lap = IF gr = Lap - 1 THEN gq + 1 ELSE gq
    BY <1>2, OneMore
  <1> HIDE DEF gq, gr, sq
  <1>9. outq.len = 0
    BY <1>3, <1>4, <1>5, SMT
  <1>10. outq'.len = (given' \div Lap) - sq
    <2>1. (0 + 1) % LEN_MODULUS = 1
      BY <1>2, SMT
    <2>2. (given' \div Lap) - sq = IF gr = Lap - 1 THEN 1 ELSE 0
      <3> DEFINE nq == given' \div Lap
      <3>1. nq = IF gr = Lap - 1 THEN gq + 1 ELSE gq
        BY <1>7, <1>8
      <3> HIDE DEF nq
      <3>2. nq - sq = IF gr = Lap - 1 THEN 1 ELSE 0
        BY <1>4, <1>5, <3>1, SMT
      <3> QED BY <3>2 DEF nq
    <2> QED BY <1>6, <1>9, <2>1, <2>2
  <1>11. sent' <= Lap * (given' \div Lap)
    <2>1. sent <= Lap * gq /\ sent <= Lap * (gq + 1)
      BY <1>2, <1>3, <1>4, SMT
    <2> QED BY <1>7, <1>8, <2>1
  <1>12. given' <= sent' + Lap /\ given < sent + Lap
    BY <1>2, <1>4, <1>7, SMT
  <1>13. Holds(outq', put', sent')
    <2>1. Holds(outq, put, sent)
      BY <1>3 DEF OutQueue
    <2> QED BY <1>1, <1>2, <1>3, <1>7, <1>12, <2>1, HoldsAfterPush DEF given, gr
  <1>14. \A i \in 1 .. sent' : transmitted'[i] = put'[i]
    <2>1. \A i \in 1 .. sent : i \in 1 .. given
      BY <1>2, <1>4, SMT
    <2> QED BY <1>1, <1>3, <1>7, <2>1 DEF OutQueue
  <1>15. OutQueue'
    <2>1. outq'.wptr = given' % Lap /\ outq'.rptr = sent' % Lap
      BY <1>3, <1>6, <1>7, <1>8 DEF OutQueue
    <2>2. outq'.len = (given' \div Lap) - (sent' \div Lap)
      BY <1>7, <1>10 DEF sq
    <2> QED BY <1>1, <1>11, <1>12, <1>13, <1>14, <2>1, <2>2 DEF OutQueue
  <1>16. TypeOK'
    BY <1>1, <1>6, <1>7 DEF IInv, TypeOK
  <1>17. LenCountsLaps' /\ InQueue'
    BY <1>1, InQueueStays DEF IInv
  <1> QED BY <1>15, <1>16, <1>17 DEF IInv

LEMMA FlushByteKeeps ==
  ASSUME IInv, FlushByte
  PROVE  IInv'
  <1> DEFINE gq == given \div Lap
             sr == sent % Lap
             sq == sent \div Lap
             full == Lap * gq
             moved == PopMove(outq)
  <1>1. /\ pc = "flush" /\ pc' = "flush" /\ outq.len > 0
        /\ transmitted' = Append(transmitted, PopByte(outq))
        /\ outq' = IF PopWraps(moved) THEN PopLap(moved) ELSE moved
        /\ UNCHANGED <<inq, ret, arrived, delivered, put>>
    BY DEF FlushByte, Goto, fifo_peek
  <1>2. /\ given \in Nat /\ sent \in Nat /\ sent \in Int /\ given \in Int /\ Lap \in Nat \ {0}
        /\ outq \in FifoType(SIZE) /\ transmitted \in Seq(Item)
        /\ LEN_MODULUS \in Nat /\ LEN_MODULUS > 2
    BY Counts, LapFacts DEF IInv, TypeOK
  <1>3. /\ OutQueue /\ sent <= full /\ given <= sent + Lap
        /\ outq.len = gq - sq /\ outq.rptr = sr
    BY DEF IInv, OutQueue
  <1>4. gq \in Int /\ full \in Int /\ full <= given
    BY <1>2, FullLaps
  <1>5. sq \in Int /\ sent = (Lap * sq) + sr /\ sr \in 0 .. Lap - 1
    BY <1>2, Division
  <1>6. outq.len = 1
    <2>1. sent <= given
      BY <1>2, <1>3, <1>4, SMT
    <2>2. gq - sq \in 0 .. 1
      BY <1>2, <1>3, <2>1, QuotientsClose
    <2> QED BY <1>1, <1>3, <2>2, SMT
  <1>7. /\ (sent + 1) % Lap = IF sr = Lap - 1 THEN 0 ELSE sr + 1
        /\ (sent + 1) \div Lap = IF sr = Lap - 1 THEN sq + 1 ELSE sq
    BY <1>2, OneMore
  <1>8. sent + 1 <= full
    <2>1. gq = sq + 1
      BY <1>3, <1>4, <1>5, <1>6, SMT
    <2>2. Lap * (sq + 1) = (Lap * sq) + Lap /\ Lap * sq \in Int
      BY <1>2, <1>5, SMT
    <2>3. full = (Lap * sq) + Lap
      BY <2>1, <2>2
    <2> DEFINE m == Lap * sq
    <2> HIDE DEF m, sr, sq, full
    <2>4. full = m + Lap /\ sent = m + sr /\ m \in Int
      BY <1>5, <2>2, <2>3 DEF m
    <2> QED BY <1>2, <1>5, <2>4, SMT
  <1>9. outq.rptr < Lap /\ (outq.rptr = Lap - 1 <=> sr = Lap - 1)
    <2> HIDE DEF sr
    <2> QED BY <1>2, <1>3, <1>5, SMT
  <1>10. /\ moved \in FifoType(SIZE) /\ PopByte(outq) \in Item
         /\ moved.pMem = outq.pMem /\ moved.wptr = outq.wptr /\ moved.len = outq.len
         /\ moved.rptr = sr + 1
         /\ PopWraps(moved) <=> sr = Lap - 1
    BY <1>2, <1>3, <1>9, MoveEffect
  <1> HIDE DEF gq, sr, sq, full, moved
  <1>11. sent < given
    BY <1>2, <1>4, <1>8, SMT
  <1>12. PopByte(outq) = put[sent + 1]
    <2>1. sent \in sent .. Len(put) - 1
      BY <1>2, <1>11, SMT DEF given
    <2> QED BY <1>3, <2>1 DEF OutQueue, Holds, PopByte
  <1>13. /\ given' = given /\ sent' = sent + 1 /\ transmitted' \in Seq(Item)
         /\ \A i \in 1 .. sent : transmitted'[i] = transmitted[i]
         /\ transmitted'[sent + 1] = put[sent + 1]
    BY <1>1, <1>2, <1>10, <1>12, AppendProperties DEF given, sent
  <1>14. /\ outq' \in FifoType(SIZE) /\ outq'.pMem = outq.pMem /\ outq'.wptr = outq.wptr
         /\ outq'.rptr = IF sr = Lap - 1 THEN 0 ELSE sr + 1
         /\ outq'.len = IF sr = Lap - 1 THEN 0 ELSE 1
    <2>1. CASE sr = Lap - 1
      <3>1. outq' = PopLap(moved)
        BY <1>1, <1>10, <2>1
      <3>2. (1 - 1) % LEN_MODULUS = 0
        BY <1>2, SMT
      <3> QED BY <1>6, <1>10, <2>1, <3>1, <3>2, LapEffect
    <2>2. CASE sr # Lap - 1
      BY <1>1, <1>6, <1>10, <2>2
    <2> QED BY <2>1, <2>2
  <1>15. outq'.len = (given' \div Lap) - (sent' \div Lap)
    <2> DEFINE nq == sent' \div Lap
    <2>1. nq = IF sr = Lap - 1 THEN sq + 1 ELSE sq
      BY <1>7, <1>13
    <2> HIDE DEF nq
    <2>2. gq - nq = IF sr = Lap - 1 THEN 0 ELSE 1
      BY <1>3, <1>4, <1>5, <1>6, <2>1, SMT
    <2> QED BY <1>13, <1>14, <2>2 DEF gq, nq
  <1>16. OutQueue'
    <2>1. sent' <= Lap * (given' \div Lap) /\ given' <= sent' + Lap
      <3>1. sent' <= full /\ given' <= sent' + Lap
        BY <1>2, <1>3, <1>8, <1>13, SMT
      <3> QED BY <1>13, <3>1 DEF full, gq
    <2>2. outq'.wptr = given' % Lap /\ outq'.rptr = sent' % Lap
      BY <1>3, <1>7, <1>13, <1>14 DEF OutQueue
    <2>3. ASSUME NEW i \in 1 .. sent' PROVE transmitted'[i] = put'[i]
      <3>1. i \in 1 .. sent \/ i = sent + 1
        BY <1>2, <1>13, <2>3, SMT
      <3> QED BY <1>1, <1>3, <1>13, <3>1 DEF OutQueue
    <2>4. Holds(outq', put', sent')
      <3>1. \A i \in sent' .. Len(put) - 1 : i \in sent .. Len(put) - 1
        BY <1>2, <1>13, SMT DEF given
      <3> QED BY <1>1, <1>3, <1>14, <3>1 DEF OutQueue, Holds
    <2> QED BY <1>1, <1>15, <2>1, <2>2, <2>3, <2>4 DEF OutQueue
  <1>17. TypeOK'
    BY <1>1, <1>13, <1>14 DEF IInv, TypeOK
  <1>18. LenCountsLaps' /\ InQueue'
    BY <1>1, InQueueStays DEF IInv
  <1> QED BY <1>16, <1>17, <1>18 DEF IInv

\* With no lap left everything of the full laps has been sent.
LEMMA FlushDoneKeeps ==
  ASSUME IInv, FlushDone
  PROVE  IInv'
  <1>1. /\ pc = "flush" /\ pc' = "idle" /\ ~(outq.len > 0)
        /\ UNCHANGED <<inq, outq, ret, arrived, delivered, put, transmitted>>
    BY DEF FlushDone, Goto, fifo_peek
  <1>2. /\ given \in Nat /\ sent \in Nat /\ outq \in FifoType(SIZE) /\ OutQueue
    BY Counts DEF IInv
  <1>3. sent = Lap * (given \div Lap)
    <2> DEFINE gq == given \div Lap
               sq == sent \div Lap
               full == Lap * gq
               part == Lap * sq
    <2>1. gq \in Int /\ sq \in Int /\ full \in Int /\ part \in Int /\ part <= sent
      BY <1>2, FullLaps
    <2>2. outq.len = gq - sq /\ sent <= full
      BY <1>2 DEF OutQueue
    <2>3. outq.len \in Nat
      BY <1>2, LapFacts DEF FifoType
    <2>4. gq = sq
      <3> HIDE DEF gq, sq
      <3> QED BY <1>1, <2>1, <2>2, <2>3, SMT
    <2>5. part = full
      BY <2>4
    <2> HIDE DEF gq, sq, full, part
    <2>6. sent = full
      BY <1>2, <2>1, <2>2, <2>5, SMT
    <2> QED BY <2>6 DEF full, gq
  <1>4. given' = given /\ sent' = sent
    BY <1>1 DEF given, sent
  <1>5. OutQueue'
    BY <1>1, <1>2, <1>3, <1>4 DEF OutQueue, Holds
  <1>6. TypeOK' /\ LenCountsLaps' /\ InQueue'
    BY <1>1, InQueueStays DEF IInv, TypeOK
  <1> QED BY <1>5, <1>6 DEF IInv

------------------------------------------------------------------------------
(* The inductive invariant and the theorems.                               *)

LEMMA InitIInv == Init => IInv
  <1> SUFFICES ASSUME Init PROVE IInv
    OBVIOUS
  <1> DEFINE f == fifo_init(SIZE)
  <1>1. /\ f.pMem \in [0 .. SIZE - 1 -> Item] /\ f.size = SIZE /\ f.rptr = 0 /\ f.wptr = 0
        /\ f.len = 0 /\ f \in FifoType(SIZE)
    <2>1. 0 \in 0 .. SIZE - 1 /\ 0 \in 0 .. SIZE - 2 /\ 0 \in 0 .. LEN_MODULUS - 1
      BY SizeAssumption, LapFacts, SMT
    <2> QED BY <2>1, FifoAssumption DEF fifo_init, FifoType
  <1> HIDE DEF f
  <1>2. inq = f /\ outq = f /\ pc = "idle"
    BY DEF Init, f
  <1>3. came = 0 /\ read = 0 /\ given = 0 /\ sent = 0
    BY DEF Init, came, read, given, sent
  <1>4. 0 % Lap = 0 /\ 0 \div Lap = 0 /\ Lap * 0 = 0 /\ 0 <= 0 + Lap
    BY LapFacts, SMT
  <1>5. TypeOK
    BY <1>1, <1>2, FifoAssumption DEF Init, TypeOK
  <1>6. Holds(inq, arrived, read) /\ Holds(outq, put, sent)
    BY <1>3 DEF Holds, came, given
  <1>7. InQueue
    BY <1>1, <1>2, <1>3, <1>4, <1>6 DEF InQueue
  <1>8. OutQueue
    BY <1>1, <1>2, <1>3, <1>4, <1>6 DEF OutQueue
  <1>9. LenCountsLaps
    BY <1>1, <1>2, <1>3, <1>4, LenMeans
  <1> QED BY <1>5, <1>7, <1>8, <1>9 DEF IInv

LEMMA NextIInv == IInv /\ [Next]_vars => IInv'
  <1> SUFFICES ASSUME IInv, [Next]_vars PROVE IInv'
    OBVIOUS
  <1>1. CASE Next
    BY <1>1, ReceiveKeeps, PopTestKeeps, PopLoadKeeps, PopFinishKeeps, PutcharKeeps,
       FlushByteKeeps, FlushDoneKeeps DEF Next, suart_receive, suart_flush
  <1>2. CASE UNCHANGED vars
    <2>1. /\ UNCHANGED <<inq, outq, pc, ret, arrived, delivered, put, transmitted>>
      BY <1>2 DEF vars
    <2>2. OutQueue' /\ InQueue' /\ LenCountsLaps'
      BY <2>1, InQueueStays, OutQueueStays DEF IInv
    <2> QED BY <2>1, <2>2 DEF IInv, TypeOK
  <1> QED BY <1>1, <1>2

LEMMA Invariance == Spec => []IInv
  BY InitIInv, NextIInv, PTL DEF Spec

\* len of the queue of received bytes counts the laps that are full and not yet
\* read, between any two statements of fifo_pop().
THEOREM LenCountsLapsHolds == Spec => []LenCountsLaps
  <1>1. IInv => LenCountsLaps
    BY DEF IInv
  <1> QED BY <1>1, Invariance, PTL

\* A sequence that agrees with another as far as it goes is its beginning.
LEMMA Beginning ==
  ASSUME NEW s \in Seq(Item), NEW u \in Seq(Item), Len(s) <= Len(u),
         \A i \in 1 .. Len(s) : s[i] = u[i]
  PROVE  s = SubSeq(u, 1, Len(s))
  <1> DEFINE v == SubSeq(u, 1, Len(s))
             n == Len(s)
  <1>1. n \in Nat /\ Len(u) \in Nat
    OBVIOUS
  <1>2. v \in Seq(Item) /\ Len(v) = n /\ \A i \in 1 .. n : v[i] = u[i]
    <2>1. \A i \in 1 .. n : u[i] \in Item
      BY <1>1
    <2> QED BY <1>1, <2>1
  <1> HIDE DEF v
  <1> QED BY <1>2, SeqEqual DEF v

\* What is read and what is sent is what came and what was given to putchar(),
\* from the first byte on.
THEOREM NothingGarbledHolds == Spec => []NothingGarbled
  <1>1. IInv => NothingGarbled
    <2> SUFFICES ASSUME IInv PROVE NothingGarbled
      OBVIOUS
    <2>1. /\ delivered \in Seq(Item) /\ arrived \in Seq(Item)
          /\ transmitted \in Seq(Item) /\ put \in Seq(Item)
      BY DEF IInv, TypeOK
    <2>2. /\ Len(delivered) <= Len(arrived)
          /\ \A i \in 1 .. Len(delivered) : delivered[i] = arrived[i]
          /\ \A i \in 1 .. Len(transmitted) : transmitted[i] = put[i]
      BY DEF IInv, InQueue, OutQueue, came, read, sent
    <2>3. Len(transmitted) <= Len(put)
      <3>1. sent \in Nat /\ given \in Nat /\ sent <= Lap * (given \div Lap)
        BY Counts DEF IInv, OutQueue
      <3>2. Lap * (given \div Lap) \in Int /\ Lap * (given \div Lap) <= given
        BY <3>1, FullLaps
      <3> DEFINE full == Lap * (given \div Lap)
      <3> HIDE DEF full
      <3>3. sent <= given
        BY <3>1, <3>2, SMT DEF full
      <3> QED BY <3>3 DEF sent, given
    <2> QED BY <2>1, <2>2, <2>3, Beginning DEF NothingGarbled
  <1> QED BY <1>1, Invariance, PTL

\* putchar() returns when every full lap has been sent, and nothing more.
THEOREM WholeLapsAreSentHolds == Spec => []WholeLapsAreSent
  <1>1. IInv => WholeLapsAreSent
    BY DEF IInv, OutQueue, WholeLapsAreSent, sent, given
  <1> QED BY <1>1, Invariance, PTL

==============================================================================
