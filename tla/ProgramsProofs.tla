---------------------------- MODULE ProgramsProofs ---------------------------
(***************************************************************************)
(* The small programs, each for every value of its constants.  The first   *)
(* part is irrcv's getTimeUs(), whose module Programs extends; the others  *)
(* are instances: libarduino (Up), powerbox (Box), dmsreset (Dms), mspov   *)
(* (Pov), bcmtest (Bcm) and lcdtest-3310 (Lcd).                            *)
(***************************************************************************)
EXTENDS Programs, SequenceTheorems, TLAPS

\* The halves and the pending interrupt make up the time.
Clock == time = timeCountH * HALF + TAR + (IF CCIFG THEN HALF ELSE 0)

\* What has been read is outdated, which the comparison will notice, or it is
\* a time of the call.
InTime == \/ CCIFG
          \/ timeCountH # th
          \/ th * HALF + tl \in called .. time

IInv == /\ TypeOK
        /\ Clock
        /\ called <= time
        /\ us_at \in {"low", "compare"} => th <= timeCountH
        /\ us_at = "compare" => InTime

------------------------------------------------------------------------------
\* One more wrap, in linear terms.
LEMMA OneMoreHalf ==
  ASSUME NEW n \in Nat
  PROVE  n * HALF \in Nat /\ (n + 1) * HALF = n * HALF + HALF
  BY HalfAssumption, SMT

\* The timer counts one or not, without missing a wrap.
LEMMA PassesKeepsClock ==
  ASSUME TypeOK, Clock, NEW t \in 0 .. 1, Passes(t), UNCHANGED timeCountH,
         ~(CCIFG /\ TAR + t = HALF)
  PROVE  /\ TAR' \in 0 .. HALF - 1 /\ CCIFG' \in BOOLEAN /\ time' \in Nat
         /\ Clock' /\ time <= time'
         /\ CCIFG => CCIFG'
  <1> DEFINE p == timeCountH * HALF
  <1>1. p \in Nat
    BY OneMoreHalf DEF TypeOK
  <1>2. time \in Nat /\ TAR \in 0 .. HALF - 1 /\ HALF \in Nat \ {0}
    BY HalfAssumption DEF TypeOK
  <1>3. (TAR + t) % HALF = IF TAR + t = HALF THEN 0 ELSE TAR + t
    BY <1>2, SMT
  <1>4. /\ time' = time + t
        /\ TAR' = IF TAR + t = HALF THEN 0 ELSE TAR + t
        /\ CCIFG' = (CCIFG \/ TAR + t = HALF)
        /\ timeCountH' = timeCountH
    BY <1>3 DEF Passes
  <1>5. CCIFG \in BOOLEAN
    BY DEF TypeOK
  <1>6. TAR' \in 0 .. HALF - 1 /\ CCIFG' \in BOOLEAN /\ time' \in Nat
    BY <1>2, <1>4, <1>5, SMT
  <1>7. time = p + TAR + (IF CCIFG THEN HALF ELSE 0)
    BY DEF Clock
  <1>8. time' = p + TAR' + (IF CCIFG' THEN HALF ELSE 0)
    <2> HIDE DEF p
    <2>1. CASE TAR + t = HALF
      <3>1. ~CCIFG /\ CCIFG' /\ TAR' = 0 /\ t \in Nat
        <4>1. ~CCIFG /\ CCIFG'
          BY <2>1, <1>4
        <4>2. TAR' = 0
          BY <2>1, <1>4
        <4>3. t \in Nat
          BY SMT
        <4> QED BY <4>1, <4>2, <4>3
      <3>2. time = p + TAR + 0
        BY <3>1, <1>7
      <3>3. time' = p + 0 + HALF
        BY <2>1, <3>1, <3>2, <1>1, <1>2, <1>4, SMT
      <3> QED BY <3>1, <3>3
    <2>2. CASE TAR + t # HALF
      BY <2>2, <1>1, <1>2, <1>4, <1>5, <1>7, SMT
    <2> QED BY <2>1, <2>2
  <1>9. Clock'
    BY <1>4, <1>8 DEF Clock
  <1>10. time <= time' /\ (CCIFG => CCIFG')
    BY <1>2, <1>4, <1>5, SMT
  <1> QED BY <1>6, <1>9, <1>10

\* What the timer's counting leaves of InTime: all of it.
LEMMA PassesKeepsInTime ==
  ASSUME TypeOK, InTime, UNCHANGED <<timeCountH, th, tl, called>>,
         time' \in Nat, time <= time', CCIFG => CCIFG'
  PROVE  InTime'
  <1> DEFINE q == th * HALF
  <1>1. q \in Nat /\ called \in Nat /\ time \in Nat /\ tl \in Nat
    BY OneMoreHalf DEF TypeOK
  <1>2. q' = q
    OBVIOUS
  <1> HIDE DEF q
  <1>3. q + tl \in called .. time => (q + tl) \in called .. time'
    BY <1>1, SMT
  <1> QED BY <1>2, <1>3 DEF InTime, q

LEMMA InitIInv == Init => IInv
  <1> SUFFICES ASSUME Init PROVE IInv
    OBVIOUS
  <1>1. 0 * HALF = 0
    BY HalfAssumption, SMT
  <1>2. TypeOK /\ called <= time /\ us_at = "main"
    <2>1. 0 \in 0 .. HALF - 1 /\ 0 \in Nat /\ 0 <= 0
      BY HalfAssumption, SMT
    <2> QED BY <2>1 DEF Init, TypeOK
  <1>3. Clock
    BY <1>1 DEF Init, Clock
  <1> QED BY <1>2, <1>3 DEF IInv

\* An instruction of getTimeUs() sees no pending interrupt, and the timer may
\* go on by one within it.
LEMMA InstructionKeeps ==
  ASSUME IInv, NEW from, NEW to, Instruction(from, to)
  PROVE  /\ ~CCIFG /\ us_at = from /\ us_at' = to /\ timeCountH' = timeCountH
         /\ TAR' \in 0 .. HALF - 1 /\ CCIFG' \in BOOLEAN /\ time' \in Nat
         /\ Clock' /\ time <= time'
  <1>1. PICK t \in 0 .. 1 : Passes(t)
    BY DEF Instruction
  <1> QED BY <1>1, PassesKeepsClock DEF Instruction, IInv

LEMMA NextIInv == IInv /\ [Next]_vars => IInv'
  <1> SUFFICES ASSUME IInv, [Next]_vars PROVE IInv'
    OBVIOUS
  <1> USE DEF IInv
  <1>1. CASE Tick
    <2>1. /\ TAR' \in 0 .. HALF - 1 /\ CCIFG' \in BOOLEAN /\ time' \in Nat
          /\ Clock' /\ time <= time' /\ (CCIFG => CCIFG')
      BY <1>1, PassesKeepsClock DEF Tick
    <2>2. UNCHANGED <<timeCountH, us_at, th, tl, called>>
      BY <1>1 DEF Tick, call
    <2>3. TypeOK' /\ (called <= time)'
      BY <2>1, <2>2, SMT DEF TypeOK
    <2>4. (us_at = "compare" => InTime)'
      BY <2>1, <2>2, PassesKeepsInTime
    <2> QED BY <2>1, <2>2, <2>3, <2>4
  <1>2. CASE timerA
    <2> DEFINE p == timeCountH * HALF
    <2>1. /\ CCIFG /\ CCIFG' = FALSE /\ timeCountH' = timeCountH + 1
          /\ UNCHANGED <<TAR, time, us_at, th, tl, called>>
      BY <1>2 DEF timerA, call
    <2>2. TypeOK' /\ (called <= time)'
      <3>1. timeCountH \in Nat => timeCountH + 1 \in Nat
        BY SMT
      <3> QED BY <2>1, <3>1 DEF TypeOK
    <2>3. (timeCountH + 1) * HALF = p + HALF /\ p \in Nat
      BY OneMoreHalf DEF TypeOK
    <2>4. Clock'
      <3>1. time = p + TAR + HALF /\ TAR \in Nat /\ HALF \in Nat
        BY <2>1, HalfAssumption DEF Clock, TypeOK
      <3> HIDE DEF p
      <3>2. time = (p + HALF) + TAR + 0
        BY <2>3, <3>1, SMT
      <3> QED BY <2>1, <2>3, <3>2 DEF Clock, p
    <2>5. us_at \in {"low", "compare"} => th <= timeCountH' /\ timeCountH' # th
      BY <2>1, SMT DEF TypeOK
    <2> QED BY <2>1, <2>2, <2>4, <2>5 DEF InTime
  <1>3. CASE Call
    BY <1>3, InstructionKeeps DEF Call, TypeOK
  <1>4. CASE ReadHigh
    <2>1. /\ us_at' = "low" /\ timeCountH' = timeCountH
          /\ TAR' \in 0 .. HALF - 1 /\ CCIFG' \in BOOLEAN /\ time' \in Nat
          /\ Clock' /\ time <= time'
      BY <1>4, InstructionKeeps DEF ReadHigh
    <2>2. th' = timeCountH /\ UNCHANGED <<tl, called>>
      BY <1>4 DEF ReadHigh
    <2> QED BY <2>1, <2>2, SMT DEF TypeOK
  <1>5. CASE ReadLow
    <2> DEFINE q == th * HALF
    <2>1. /\ us_at = "low" /\ us_at' = "compare" /\ timeCountH' = timeCountH
          /\ TAR' \in 0 .. HALF - 1 /\ CCIFG' \in BOOLEAN /\ time' \in Nat
          /\ Clock' /\ time <= time'
      BY <1>5, InstructionKeeps DEF ReadLow
    <2>2. tl' = TAR' /\ UNCHANGED <<th, called>>
      BY <1>5 DEF ReadLow
    <2>3. TypeOK' /\ (called <= time)' /\ (th <= timeCountH)'
      BY <2>1, <2>2, HalfAssumption, SMT DEF TypeOK
    <2>4. InTime'
      <3>1. SUFFICES ASSUME ~CCIFG', timeCountH = th
                     PROVE  th' * HALF + tl' \in called' .. time'
        BY <2>1, <2>2 DEF InTime
      <3>2. time' = q + TAR' + 0
        BY <2>1, <3>1 DEF Clock
      <3>3. q \in Nat /\ TAR' \in Nat
        BY <2>1, OneMoreHalf, HalfAssumption DEF TypeOK
      <3> HIDE DEF q
      <3>4. q + TAR' = time'
        BY <3>2, <3>3, SMT
      <3>5. q + TAR' \in called' .. time'
        <4>1. called' \in Nat /\ time' \in Nat /\ called' <= time'
          BY <2>3 DEF TypeOK
        <4>2. time' \in called' .. time'
          BY <4>1, SMT
        <4> QED BY <3>4, <4>2
      <3> QED BY <2>2, <3>5 DEF q
    <2> QED BY <2>1, <2>3, <2>4
  <1>6. CASE Compare
    <2>1. /\ us_at' \in {"high", "main"} /\ timeCountH' = timeCountH
          /\ TAR' \in 0 .. HALF - 1 /\ CCIFG' \in BOOLEAN /\ time' \in Nat
          /\ Clock' /\ time <= time'
      BY <1>6, InstructionKeeps DEF Compare
    <2>2. UNCHANGED <<th, tl, called>>
      BY <1>6 DEF Compare
    <2> QED BY <2>1, <2>2, SMT DEF TypeOK
  <1>7. CASE UNCHANGED vars
    BY <1>7 DEF vars, timer, call, TypeOK, Clock, InTime
  <1> QED BY <1>1, <1>2, <1>3, <1>4, <1>5, <1>6, <1>7 DEF Next, getTimeUs

LEMMA Invariance == Spec => []IInv
  <1>1. Init => IInv BY InitIInv
  <1>2. IInv /\ [Next]_vars => IInv' BY NextIInv
  <1> QED BY <1>1, <1>2, PTL DEF Spec

------------------------------------------------------------------------------
\* The time getTimeUs() returns, both halves together, is never before its call
\* nor after its return, for a half of any width: a reading across a wrap of
\* the timer is noticed by the comparison and repeated.
THEOREM TimeIsOfTheCallHolds == Spec => TimeIsOfTheCall
  <1>1. IInv /\ [Next]_vars
          => (us_at = "compare" /\ us_at' = "main" => Joined(th, tl) \in called .. time')
    <2> SUFFICES ASSUME IInv, [Next]_vars, us_at = "compare", us_at' = "main"
                 PROVE  Joined(th, tl) \in called .. time'
      OBVIOUS
    <2>1. Compare
      BY DEF Next, vars, timer, call, Tick, timerA, getTimeUs, Call, ReadHigh, ReadLow, Instruction
    <2>2. ~CCIFG /\ timeCountH = th
      BY <2>1 DEF Compare, Instruction
    <2>3. time <= time' /\ time' \in Nat
      BY <2>1, InstructionKeeps DEF Compare
    <2>4. th * HALF + tl \in called .. time
      BY <2>2 DEF IInv, InTime
    <2> QED BY <2>3, <2>4, SMT DEF IInv, TypeOK, Joined
  <1>2. IInv /\ [Next]_vars
          => [us_at = "compare" /\ us_at' = "main" => Joined(th, tl) \in called .. time']_vars
    BY <1>1
  <1> QED BY <1>2, Invariance, PTL DEF Spec, TimeIsOfTheCall
------------------------------------------------------------------------------
(* The chip runs one program, and the others stand still: each of the seven *)
(* specifications holds of what happens.                                    *)

LEMMA InitOfEach ==
  AnyInit => Init /\ Up!Init /\ Box!Init /\ Dms!Init /\ Pov!Init /\ Bcm!Init /\ Lcd!Init
  BY DEF AnyInit

LEMMA OthersStand ==
  /\ UNCHANGED us => UNCHANGED vars
  /\ UNCHANGED up => UNCHANGED Up!vars
  /\ UNCHANGED box => UNCHANGED Box!vars
  /\ UNCHANGED dms => UNCHANGED Dms!vars
  /\ UNCHANGED pov => UNCHANGED Pov!vars
  /\ UNCHANGED bcm => UNCHANGED Bcm!vars
  /\ UNCHANGED lcd => UNCHANGED Lcd!vars
  <1>1. UNCHANGED us => UNCHANGED vars
    BY DEF us, vars, timer, call
  <1>2. UNCHANGED up => UNCHANGED Up!vars
    BY DEF up, Up!vars
  <1>3. UNCHANGED box => UNCHANGED Box!vars
    BY DEF box, Box!vars, Box!port
  <1>4. UNCHANGED dms => UNCHANGED Dms!vars
    BY DEF dms, Dms!vars, Dms!watch, Dms!relay, Dms!count
  <1>5. UNCHANGED pov => UNCHANGED Pov!vars
    BY DEF pov, Pov!vars
  <1>6. UNCHANGED bcm => UNCHANGED Bcm!vars
    BY DEF bcm, Bcm!vars
  <1>7. UNCHANGED lcd => UNCHANGED Lcd!vars
    BY DEF lcd, Lcd!vars, Lcd!cursor, Lcd!run
  <1> QED BY <1>1, <1>2, <1>3, <1>4, <1>5, <1>6, <1>7

LEMMA StepOfEach ==
  [AnyNext]_allvars => /\ [Next]_vars /\ [Up!Next]_(Up!vars) /\ [Box!Next]_(Box!vars)
                       /\ [Dms!Next]_(Dms!vars) /\ [Pov!Next]_(Pov!vars)
                       /\ [Bcm!Next]_(Bcm!vars) /\ [Lcd!Next]_(Lcd!vars)
  <1>1. AnyNext \/ UNCHANGED allvars
          => /\ Next \/ UNCHANGED us
             /\ Up!Next \/ UNCHANGED up
             /\ Box!Next \/ UNCHANGED box
             /\ Dms!Next \/ UNCHANGED dms
             /\ Pov!Next \/ UNCHANGED pov
             /\ Bcm!Next \/ UNCHANGED bcm
             /\ Lcd!Next \/ UNCHANGED lcd
    BY DEF AnyNext, allvars
  <1> QED BY <1>1, OthersStand

\* Each of the seven small programs behaves as its own module says when it is
\* the one the chip has been given, and stands still when it is not.
LEMMA EachProgramRuns ==
  AnySpec => Spec /\ Up!Spec /\ Box!Spec /\ Dms!Spec /\ Pov!Spec /\ Bcm!Spec /\ Lcd!Spec
  BY InitOfEach, StepOfEach, PTL
     DEF AnySpec, Spec, Up!Spec, Box!Spec, Dms!Spec, Pov!Spec, Bcm!Spec, Lcd!Spec

------------------------------------------------------------------------------
(* powerbox. *)

\* Every statement of the handler has its place, and so has what it leaves.
BoxInv == /\ Box!PressesAreCounted
          /\ power_state \in {"ON", "OFF"} /\ odd \in BOOLEAN /\ OUT_POWER \in BOOLEAN
          /\ box_at \in {"main", "light", "clear", "unlight"}

LEMMA BoxInvKept == BoxInv /\ [Box!Next]_(Box!vars) => BoxInv'
  <1> SUFFICES ASSUME BoxInv, [Box!Next]_(Box!vars) PROVE BoxInv'
    OBVIOUS
  <1> USE DEF BoxInv, Box!PressesAreCounted, Box!WillTest
  <1>1. CASE Box!TestPower
    BY <1>1 DEF Box!TestPower, Box!Goto, Box!toggle_power, Box!port
  <1>2. CASE Box!Light
    BY <1>2 DEF Box!Light, Box!Goto
  <1>3. CASE Box!Clear
    BY <1>3 DEF Box!Clear, Box!Goto, Box!port, Box!Button
  <1>4. CASE Box!Unlight
    BY <1>4 DEF Box!Unlight, Box!Goto
  <1>5. ASSUME NEW b \in Box!Button, Box!Press(b) PROVE BoxInv'
    BY <1>5 DEF Box!Press, Box!port
  <1>6. CASE UNCHANGED Box!vars
    BY <1>6 DEF Box!vars, Box!port
  <1> QED BY <1>1, <1>2, <1>3, <1>4, <1>5, <1>6 DEF Box!Next, Box!port1_isr

\* A press of the power button, at any moment of the handler, switches the
\* power once or is lost between the handler's look at its flag and the
\* clearing of it.
THEOREM PressesAreCountedHolds == AnySpec => []PressesAreCounted
  <1>1. Box!Init => BoxInv
    BY DEF Box!Init, BoxInv, Box!PressesAreCounted, Box!WillTest
  <1>2. BoxInv => PressesAreCounted
    BY DEF BoxInv, PressesAreCounted
  <1> QED BY <1>1, <1>2, BoxInvKept, EachProgramRuns, PTL DEF Box!Spec

------------------------------------------------------------------------------
(* dmsreset. *)

\* The alert that would let main() into the count is never raised.
DmsInv == /\ alert_cycles \in 0 .. RELEASE /\ ~ is_alert
          /\ RELAYCTL <=> alert_cycles \notin TRIGGER + 1 .. RELEASE

LEMMA DmsInvKept ==
  DmsInv /\ [Dms!Next]_(Dms!vars)
    => /\ DmsInv'
       /\ alert_cycles' \in {alert_cycles, (alert_cycles + 1) % (RELEASE + 1)}
  <1> SUFFICES ASSUME DmsInv, [Dms!Next]_(Dms!vars)
               PROVE  /\ DmsInv'
                      /\ alert_cycles' \in {alert_cycles, (alert_cycles + 1) % (RELEASE + 1)}
    OBVIOUS
  <1> USE CyclesAssumption DEF DmsInv
  <1>1. CASE Dms!TIMERA0_ISR
    <2>1. CASE alert_cycles + 1 > RELEASE
      <3>1. alert_cycles' = 0 /\ RELAYCTL' = TRUE /\ is_alert' = is_alert
        BY <1>1, <2>1 DEF Dms!TIMERA0_ISR, Dms!Release, Dms!relaySetState
      <3>2. (alert_cycles + 1) % (RELEASE + 1) = 0
        <4>1. alert_cycles + 1 = RELEASE + 1
          BY <2>1, SMT
        <4>2. (RELEASE + 1) % (RELEASE + 1) = 0
          BY SMT
        <4> QED BY <4>1, <4>2
      <3> QED BY <3>1, <3>2, SMT
    <2>2. CASE ~(alert_cycles + 1 > RELEASE)
      <3>1. alert_cycles' = alert_cycles + 1 /\ is_alert' = is_alert
        BY <1>1, <2>2 DEF Dms!TIMERA0_ISR, Dms!Cut
      <3>2. alert_cycles + 1 > TRIGGER => RELAYCTL' = FALSE
        BY <1>1, <2>2 DEF Dms!TIMERA0_ISR, Dms!Cut, Dms!relaySetState
      <3>3. ~(alert_cycles + 1 > TRIGGER) => RELAYCTL' = RELAYCTL
        BY <1>1, <2>2 DEF Dms!TIMERA0_ISR
      <3>4. (alert_cycles + 1) % (RELEASE + 1) = alert_cycles + 1
        BY <2>2, SMT
      <3>5. alert_cycles' \in 0 .. RELEASE
        BY <2>2, <3>1, SMT
      <3>6. RELAYCTL' <=> alert_cycles' \notin TRIGGER + 1 .. RELEASE
        <4>1. CASE alert_cycles + 1 > TRIGGER
          BY <2>2, <3>1, <3>2, <4>1, SMT
        <4>2. CASE ~(alert_cycles + 1 > TRIGGER)
          <5>1. alert_cycles \notin TRIGGER + 1 .. RELEASE
                /\ alert_cycles' \notin TRIGGER + 1 .. RELEASE
            BY <3>1, <4>2, SMT
          <5> QED BY <3>3, <4>2, <5>1
        <4> QED BY <4>1, <4>2
      <3> QED BY <3>1, <3>4, <3>5, <3>6
    <2> QED BY <2>1, <2>2
  <1>2. ASSUME UNCHANGED <<alert_cycles, is_alert, RELAYCTL>>
        PROVE  DmsInv' /\ alert_cycles' = alert_cycles
    BY <1>2
  <1>3. CASE Dms!Blink \/ Dms!Read \/ Dms!Reflect
    BY <1>2, <1>3 DEF Dms!Blink, Dms!Read, Dms!Reflect, Dms!relay, Dms!count
  <1>4. CASE Dms!Compare
    BY <1>2, <1>4 DEF Dms!Compare, Dms!relay
  <1>5. CASE UNCHANGED Dms!vars
    BY <1>2, <1>5 DEF Dms!vars, Dms!relay, Dms!count
  <1> QED BY <1>1, <1>2, <1>3, <1>4, <1>5 DEF Dms!Next, Dms!Main

\* The relay follows the handler's count of seconds, and the count goes round
\* on its own, whatever the device's LED does: main() never stops it.
THEOREM RelayFollowsTheClockHolds == AnySpec => RelayFollowsTheClock
  <1>1. Dms!Init => DmsInv
    BY CyclesAssumption, SMT DEF Dms!Init, DmsInv
  <1>2. DmsInv /\ [Dms!Next]_(Dms!vars)
          => [/\ alert_cycles' \in {alert_cycles, (alert_cycles + 1) % (RELEASE + 1)}
              /\ RELAYCTL' <=> alert_cycles' \notin TRIGGER + 1 .. RELEASE]_(Dms!vars)
    BY DmsInvKept DEF DmsInv
  <1> QED BY <1>1, <1>2, DmsInvKept, EachProgramRuns, PTL
          DEF Dms!Spec, RelayFollowsTheClock, Dms!RelayFollowsTheClock

------------------------------------------------------------------------------
(* libarduino. *)

\* The counter is what was counted, and the half that has been read is that of
\* the moment of the call.
UpInv == /\ mcu_ms = interrupts /\ interrupts \in Nat /\ asked \in Nat /\ asked <= interrupts
         /\ up_at \in {"main", "high", "low"}
         /\ up_at = "high" => half = Up!Low(asked)
         /\ up_at = "low" => half = Up!High(asked)

LEMMA UpInvKept == UpInv /\ [Up!Next]_(Up!vars) => UpInv'
  <1> SUFFICES ASSUME UpInv, [Up!Next]_(Up!vars) PROVE UpInv'
    OBVIOUS
  <1> USE DEF UpInv
  <1>1. CASE Up!clockctl_isr
    BY <1>1, SMT DEF Up!clockctl_isr
  <1>2. CASE Up!LoadLowFirst \/ Up!LoadHighFirst
    BY <1>2 DEF Up!LoadLowFirst, Up!LoadHighFirst, Up!Load
  <1>3. CASE Up!LoadHigh \/ Up!LoadLow
    BY <1>3 DEF Up!LoadHigh, Up!LoadLow, Up!Return
  <1>4. CASE UNCHANGED Up!vars
    BY <1>4 DEF Up!vars
  <1> QED BY <1>1, <1>2, <1>3, <1>4 DEF Up!Next, Up!millis

\* Quotient and remainder, by any divisor.
LEMMA Division ==
  ASSUME NEW M \in Nat \ {0}, NEW n \in Nat
  PROVE  n % M \in 0 .. M - 1 /\ n \div M \in Nat /\ n = (M * (n \div M)) + (n % M)
  <1>1. n % M \in 0 .. M - 1 /\ n \div M \in Int /\ n = (M * (n \div M)) + (n % M)
    BY SMT
  <1>2. n \div M >= 0
    BY SMT
  <1> QED BY <1>1, <1>2, SMT

\* A higher quotient is a carry at least.
LEMMA ACarry ==
  ASSUME NEW M \in Nat \ {0}, NEW p \in Nat, NEW q \in Nat, p < q
  PROVE  (M * p) + M <= M * q
  <1>1. PICK d \in Nat : q = (p + 1) + d
    <2>1. q - p - 1 \in Nat /\ q = (p + 1) + (q - p - 1)
      BY SMT
    <2> QED BY <2>1
  <1>2. M * ((p + 1) + d) = ((M * p) + M) + (M * d) /\ M * d \in Nat /\ M * p \in Nat
    BY SMT
  <1> QED BY <1>1, <1>2, SMT

\* What is joined of the halves of two moments lies between them if their high
\* halves are the same, and is off by a carry otherwise.
LEMMA JoinedHalves ==
  ASSUME NEW m \in Nat, NEW n \in Nat, m <= n
  PROVE  /\ \/ Up!Joined(Up!High(n), Up!Low(m)) + 0 \in m .. n
            \/ /\ Up!High(m) < Up!High(n)
               /\ Up!Joined(Up!High(n), Up!Low(m)) + (- HALF) \in m .. n
         /\ \/ Up!Joined(Up!High(m), Up!Low(n)) + 0 \in m .. n
            \/ /\ Up!High(m) < Up!High(n)
               /\ Up!Joined(Up!High(m), Up!Low(n)) + HALF \in m .. n
  <1> DEFINE p == m \div HALF
             q == n \div HALF
             r == m % HALF
             s == n % HALF
             P == HALF * p
             Q == HALF * q
  <1> USE HalfAssumption
  <1>1. /\ r \in 0 .. HALF - 1 /\ p \in Nat /\ m = P + r
        /\ s \in 0 .. HALF - 1 /\ q \in Nat /\ n = Q + s
    BY Division
  <1>2. P \in Nat /\ Q \in Nat /\ p * HALF = P /\ q * HALF = Q
    <2> HIDE DEF p, q
    <2> QED BY <1>1, SMT
  <1>3. /\ p < q => P + HALF <= Q
        /\ q < p => Q + HALF <= P
        /\ p = q => P = Q
    <2> HIDE DEF p, q
    <2> QED BY <1>1, ACarry
  <1>4. /\ Up!High(m) = p /\ Up!High(n) = q /\ Up!Low(m) = r /\ Up!Low(n) = s
        /\ Up!Joined(Up!High(n), Up!Low(m)) = Q + r
        /\ Up!Joined(Up!High(m), Up!Low(n)) = P + s
    <2>1. Up!High(m) = p /\ Up!High(n) = q /\ Up!Low(m) = r /\ Up!Low(n) = s
      BY DEF Up!High, Up!Low
    <2>2. /\ Up!Joined(Up!High(n), Up!Low(m)) = (q * HALF) + r
          /\ Up!Joined(Up!High(m), Up!Low(n)) = (p * HALF) + s
      BY <2>1 DEF Up!Joined
    <2> QED BY <1>2, <2>1, <2>2
  <1> HIDE DEF p, q, r, s, P, Q
  <1>5. ~(q < p)
    BY <1>1, <1>2, <1>3, SMT
  <1>6. /\ (Q + r) + 0 \in m .. n \/ (p < q /\ (Q + r) + (- HALF) \in m .. n)
        /\ (P + s) + 0 \in m .. n \/ (p < q /\ (P + s) + HALF \in m .. n)
    <2>1. CASE p = q
      BY <1>1, <1>2, <1>3, <2>1, SMT
    <2>2. CASE p < q
      <3>1. (Q + r) + (- HALF) \in m .. n \/ (Q + r) + 0 \in m .. n
        BY <1>1, <1>2, <1>3, <2>2, SMT
      <3>2. (P + s) + HALF \in m .. n \/ (P + s) + 0 \in m .. n
        BY <1>1, <1>2, <1>3, <2>2, SMT
      <3> QED BY <2>2, <3>1, <3>2
    <2> QED BY <1>1, <1>5, <2>1, <2>2, SMT
  <1> QED BY <1>4, <1>6

\* What millis() reads is the count at a moment of its call, or off by the
\* carry between the halves, in the direction in which they are read, and only
\* if the low half overflowed: for halves of any width.
THEOREM OffByACarryAtMostHolds == AnySpec => OffByACarryAtMost
  <1>1. Up!Init => UpInv
    BY SMT DEF Up!Init, UpInv
  <1>2. UpInv /\ [Up!Next]_(Up!vars)
          => [up_at' = "main" /\ up_at # "main"
                => \/ Up!OffBy(0)
                   \/ Up!High(asked) < Up!High(interrupts)
                      /\ Up!OffBy(IF up_at = "low" THEN HALF ELSE - HALF)]_(Up!vars)
    <2> SUFFICES ASSUME UpInv, [Up!Next]_(Up!vars), up_at' = "main", up_at # "main"
                 PROVE  \/ Up!OffBy(0)
                        \/ Up!High(asked) < Up!High(interrupts)
                           /\ Up!OffBy(IF up_at = "low" THEN HALF ELSE - HALF)
      OBVIOUS
    <2>1. asked \in Nat /\ interrupts \in Nat /\ asked <= interrupts /\ mcu_ms = interrupts
      BY DEF UpInv
    <2>2. Up!LoadHigh \/ Up!LoadLow
      BY DEF Up!Next, Up!millis, Up!vars, Up!clockctl_isr, Up!LoadLowFirst, Up!LoadHighFirst,
             Up!Load
    <2>3. CASE Up!LoadHigh
      <3>1. /\ up_at = "high"
            /\ answer' = Up!Joined(Up!High(interrupts), Up!Low(asked))
        BY <2>1, <2>3 DEF Up!LoadHigh, Up!Return, UpInv
      <3> QED BY <2>1, <3>1, JoinedHalves DEF Up!OffBy
    <2>4. CASE Up!LoadLow
      <3>1. /\ up_at = "low"
            /\ answer' = Up!Joined(Up!High(asked), Up!Low(interrupts))
        BY <2>1, <2>4 DEF Up!LoadLow, Up!Return, UpInv
      <3> QED BY <2>1, <3>1, JoinedHalves DEF Up!OffBy
    <2> QED BY <2>2, <2>3, <2>4
  <1> QED BY <1>1, <1>2, UpInvKept, EachProgramRuns, PTL
          DEF Up!Spec, OffByACarryAtMost, Up!OffByACarryAtMost

------------------------------------------------------------------------------
(* bcmtest. *)

\* The interrupts so far of a round that shows the level n, before its slice.
Before(n) == CASE slice = 0 -> 0
               [] slice = 1 -> Bcm!BitWeight(n, 0)
               [] slice = 2 -> Bcm!BitWeight(n, 0) + Bcm!BitWeight(n, 1)
               [] slice = 3 -> Bcm!BitWeight(n, 0) + Bcm!BitWeight(n, 1) + Bcm!BitWeight(n, 2)
               [] slice = 4 -> Bcm!BitWeight(n, 0) + Bcm!BitWeight(n, 1) + Bcm!BitWeight(n, 2)
                                 + Bcm!BitWeight(n, 3)

\* Those of this slice: one when it begins, and one whenever it goes on.
Within == IF LED0 THEN (Bcm!slicedelay[slice + 1] - delay) + 1 ELSE 0

BcmInv == /\ slice \in 0 .. 4 /\ delay \in 0 .. Bcm!slicedelay[slice + 1] /\ lit \in Nat
          /\ LED0 \in BOOLEAN /\ held \in BOOLEAN
          /\ held => LED0 = Bcm!Bit(level, slice) /\ lit = Before(level) + Within

LEMMA Delays ==
  /\ Bcm!slicedelay[0 + 1] = 0 /\ Bcm!slicedelay[1 + 1] = 1 /\ Bcm!slicedelay[2 + 1] = 2
  /\ Bcm!slicedelay[3 + 1] = 4 /\ Bcm!slicedelay[4 + 1] = 8
  BY SMT DEF Bcm!slicedelay

LEMMA SameSliceKeeps == BcmInv /\ Bcm!SameSlice => BcmInv'
  <1> SUFFICES ASSUME BcmInv, Bcm!SameSlice PROVE BcmInv'
    OBVIOUS
  <1> DEFINE d == Bcm!slicedelay[slice + 1]
             b == Before(level)
  <1>1. /\ delay > 0 /\ delay' = delay - 1
        /\ lit' = lit + IF LED0' THEN 1 ELSE 0
        /\ UNCHANGED <<level, slice, LED0, held>>
    BY DEF Bcm!SameSlice, Bcm!Lit
  <1>2. slice \in 0 .. 4 /\ d \in Nat /\ delay \in 0 .. d /\ lit \in Nat
    BY Delays, SMT DEF BcmInv
  <1>3. d' = d /\ b' = b
    BY <1>1 DEF Before
  <1>4. LED0 \in BOOLEAN /\ held \in BOOLEAN
    BY DEF BcmInv
  <1>5. held => lit = b + Within
    BY DEF BcmInv
  <1>6. Within = IF LED0 THEN (d - delay) + 1 ELSE 0
    BY DEF Within
  <1>7. Within' = IF LED0 THEN (d - delay') + 1 ELSE 0
    BY <1>1, <1>3 DEF Within
  <1>8. held => b \in Int
    <2>1. ASSUME NEW k \in 0 .. 4 PROVE Bcm!BitWeight(level, k) \in Int
      BY Delays, SMT DEF Bcm!BitWeight
    <2>2. /\ Bcm!BitWeight(level, 0) \in Int /\ Bcm!BitWeight(level, 1) \in Int
          /\ Bcm!BitWeight(level, 2) \in Int /\ Bcm!BitWeight(level, 3) \in Int
      BY <2>1, SMT
    <2> QED BY <1>2, <2>2, SMT DEF Before
  <1> HIDE DEF d, b
  <1>9. lit' \in Nat /\ delay' \in 0 .. d
    BY <1>1, <1>2, SMT
  <1>10. held => lit' = b + Within'
    <2>1. CASE LED0
      BY <1>1, <1>2, <1>5, <1>6, <1>7, <1>8, <2>1, SMT
    <2>2. CASE ~LED0
      <3>1. held => lit = b + 0
        BY <1>5, <1>6, <2>2
      <3>2. lit' = lit + 0 /\ Within' = 0
        BY <1>1, <1>7, <2>2
      <3> QED BY <1>2, <3>1, <3>2, SMT
    <2> QED BY <1>4, <2>1, <2>2
  <1>11. held' => LED0' = Bcm!Bit(level', slice')
    BY <1>1 DEF BcmInv
  <1> QED BY <1>1, <1>2, <1>3, <1>4, <1>9, <1>10, <1>11 DEF BcmInv, d, b

\* A slice that begins when the one before has been lit for its bit's weight.
LEMMA NewSliceKeeps ==
  BcmInv /\ Bcm!NewSlice
    => /\ BcmInv'
       /\ slice' = 0 /\ slice # 0 /\ held => lit = Bcm!Weight(level)
  <1> SUFFICES ASSUME BcmInv, Bcm!NewSlice
               PROVE  /\ BcmInv'
                      /\ slice' = 0 /\ slice # 0 /\ held => lit = Bcm!Weight(level)
    OBVIOUS
  <1> DEFINE w(b) == Bcm!BitWeight(level, b)
             d(k) == Bcm!slicedelay[k + 1]
  <1>1. /\ delay = 0 /\ slice' = (IF slice + 1 > 4 THEN 0 ELSE slice + 1)
        /\ delay' = d(slice') /\ LED0' = Bcm!Bit(level, slice')
        /\ slice' = 0 => held' = TRUE /\ lit' = 0 + IF LED0' THEN 1 ELSE 0
        /\ slice' # 0 => held' = held /\ lit' = lit + IF LED0' THEN 1 ELSE 0
        /\ level' = level
    BY DEF Bcm!NewSlice, Bcm!FollowingSlice, Bcm!SLICES, Bcm!Lit
  <1>2. slice \in 0 .. 4 /\ lit \in Nat /\ held \in BOOLEAN
    BY DEF BcmInv
  <1>3. slice' \in 0 .. 4
    BY <1>1, <1>2, SMT
  <1>4. LED0' \in BOOLEAN
    BY <1>1 DEF Bcm!Bit
  <1>5. /\ d(0) = 0 /\ d(1) = 1 /\ d(2) = 2 /\ d(3) = 4 /\ d(4) = 8
    BY Delays
  <1>6. delay' \in 0 .. d(slice')
    BY <1>1, <1>3, <1>5, SMT
  <1>7. lit' \in Nat
    BY <1>1, <1>2, <1>3, SMT
  <1>8. held' \in BOOLEAN
    BY <1>1, <1>2
  \* A slice that is over has been lit for its bit's weight.
  <1>9. held => Within = w(slice)
    <2>1. Within = IF LED0 THEN (d(slice) - 0) + 1 ELSE 0
      BY <1>1 DEF Within
    <2>2. d(slice) \in Nat
      BY <1>2, <1>5, SMT
    <2>3. w(slice) = IF Bcm!Bit(level, slice) THEN d(slice) + 1 ELSE 0
      BY DEF Bcm!BitWeight
    <2>4. held => LED0 = Bcm!Bit(level, slice)
      BY DEF BcmInv
    <2> HIDE DEF d, w
    <2>5. (d(slice) - 0) + 1 = d(slice) + 1
      BY <2>2, SMT
    <2> QED BY <2>1, <2>3, <2>4, <2>5
  <1>10. Within' = IF LED0' THEN 1 ELSE 0
    <2>1. Within' = IF LED0' THEN (d(slice') - d(slice')) + 1 ELSE 0
      BY <1>1 DEF Within
    <2>2. (d(slice') - d(slice')) + 1 = 1
      <3>1. d(slice') \in Nat
        BY <1>3, <1>5, SMT
      <3> HIDE DEF d
      <3> QED BY <3>1, SMT
    <2> QED BY <2>1, <2>2
  <1>11. held => lit = Before(level) + w(slice)
    BY <1>9 DEF BcmInv
  <1>12. w(0) \in Int /\ w(1) \in Int /\ w(2) \in Int /\ w(3) \in Int /\ w(4) \in Int
    BY <1>5, SMT DEF Bcm!BitWeight
  <1>13. /\ slice = 0 => Before(level) = 0
         /\ slice = 1 => Before(level) = w(0)
         /\ slice = 2 => Before(level) = w(0) + w(1)
         /\ slice = 3 => Before(level) = (w(0) + w(1)) + w(2)
         /\ slice = 4 => Before(level) = ((w(0) + w(1)) + w(2)) + w(3)
    BY DEF Before
  <1>14. /\ slice' = 0 => Before(level)' = 0
         /\ slice' = 1 => Before(level)' = w(0)
         /\ slice' = 2 => Before(level)' = w(0) + w(1)
         /\ slice' = 3 => Before(level)' = (w(0) + w(1)) + w(2)
         /\ slice' = 4 => Before(level)' = ((w(0) + w(1)) + w(2)) + w(3)
    BY <1>1 DEF Before
  <1>15. Bcm!Weight(level) = (((w(0) + w(1)) + w(2)) + w(3)) + w(4)
    BY DEF Bcm!Weight
  <1> DEFINE on == IF LED0' THEN 1 ELSE 0
  <1>16. on \in Nat
    OBVIOUS
  <1> HIDE DEF w, d, on
  <1>17. slice' = 0 /\ slice # 0 /\ held => lit = Bcm!Weight(level)
    <2> SUFFICES ASSUME slice' = 0, slice # 0, held PROVE lit = Bcm!Weight(level)
      OBVIOUS
    <2>1. slice = 4
      BY <1>1, <1>2, SMT
    <2> QED BY <2>1, <1>11, <1>13, <1>15
  <1>18. held' => lit' = Before(level)' + Within'
    <2>1. CASE slice' = 0
      BY <2>1, <1>1, <1>10, <1>14
    <2>2. CASE slice' # 0
      <3> SUFFICES ASSUME held PROVE lit' = Before(level)' + on
        BY <2>2, <1>1, <1>10 DEF on
      <3>1. lit' = lit + on
        BY <2>2, <1>1 DEF on
      <3>2. slice' = slice + 1 /\ slice \in 0 .. 3
        BY <2>2, <1>1, <1>2, SMT
      <3>3. lit = Before(level) + w(slice)
        BY <1>11
      <3>4. Before(level)' = lit
        <4>1. CASE slice = 0
          <5>1. slice' = 1
            BY <4>1, <3>2, SMT
          <5> QED BY <4>1, <5>1, <3>3, <1>12, <1>13, <1>14, SMT
        <4>2. CASE slice = 1
          <5>1. slice' = 2
            BY <4>2, <3>2, SMT
          <5> QED BY <4>2, <5>1, <3>3, <1>13, <1>14
        <4>3. CASE slice = 2
          <5>1. slice' = 3
            BY <4>3, <3>2, SMT
          <5> QED BY <4>3, <5>1, <3>3, <1>13, <1>14
        <4>4. CASE slice = 3
          <5>1. slice' = 4
            BY <4>4, <3>2, SMT
          <5> QED BY <4>4, <5>1, <3>3, <1>13, <1>14
        <4> QED BY <3>2, <4>1, <4>2, <4>3, <4>4, SMT
      <3> QED BY <3>1, <3>4
    <2> QED BY <2>1, <2>2
  <1>19. LED0' = Bcm!Bit(level', slice')
    BY <1>1
  <1>20. delay' \in 0 .. Bcm!slicedelay[slice' + 1]
    BY <1>6 DEF d
  <1>21. held' => lit' = (Before(level) + Within)'
    BY <1>18
  <1> QED BY <1>3, <1>4, <1>7, <1>8, <1>17, <1>19, <1>20, <1>21 DEF BcmInv

LEMMA BcmInvKept == BcmInv /\ [Bcm!Next]_(Bcm!vars) => BcmInv'
  <1> SUFFICES ASSUME BcmInv, [Bcm!Next]_(Bcm!vars) PROVE BcmInv'
    OBVIOUS
  <1>1. CASE Bcm!Step
    <2>1. /\ held' = FALSE
          /\ slice' = slice /\ delay' = delay /\ LED0' = LED0 /\ lit' = lit
      BY <1>1 DEF Bcm!Step
    <2> QED BY <2>1 DEF BcmInv
  <1>2. CASE Bcm!NewSlice
    BY <1>2, NewSliceKeeps
  <1>3. CASE Bcm!SameSlice
    BY <1>3, SameSliceKeeps
  <1>4. CASE UNCHANGED Bcm!vars
    BY <1>4 DEF Bcm!vars, BcmInv, Before, Within
  <1> QED BY <1>1, <1>2, <1>3, <1>4 DEF Bcm!Next, Bcm!timer0_isr

\* A level that stays for a round of the slices is lit for the weight of its
\* bits: the handler's slices and delays neither drop an interrupt of it nor
\* count one twice, wherever main() steps in.
THEOREM LevelIsShownHolds == AnySpec => LevelIsShown
  <1>1. Bcm!Init => BcmInv
    <2> SUFFICES ASSUME Bcm!Init PROVE BcmInv
      OBVIOUS
    <2>1. slice = 0 /\ delay = 0 /\ lit = 0 /\ LED0 = FALSE /\ held = FALSE
      BY DEF Bcm!Init
    <2>2. 0 \in 0 .. Bcm!slicedelay[0 + 1] /\ 0 \in 0 .. 4 /\ 0 \in Nat
      BY Delays, SMT
    <2>3. delay \in 0 .. Bcm!slicedelay[slice + 1] /\ slice \in 0 .. 4 /\ lit \in Nat
      BY <2>1, <2>2
    <2> QED BY <2>1, <2>3 DEF BcmInv
  <1>2. BcmInv /\ [Bcm!Next]_(Bcm!vars)
          => [slice' = 0 /\ slice # 0 /\ held => lit = Bcm!Weight(level)]_(Bcm!vars)
    <2> SUFFICES ASSUME BcmInv, [Bcm!Next]_(Bcm!vars), slice' = 0, slice # 0, held
                 PROVE  lit = Bcm!Weight(level)
      OBVIOUS
    <2>1. Bcm!NewSlice
      BY DEF Bcm!Next, Bcm!timer0_isr, Bcm!Step, Bcm!SameSlice, Bcm!vars
    <2> QED BY <2>1, NewSliceKeeps
  <1> QED BY <1>1, <1>2, BcmInvKept, EachProgramRuns, PTL
          DEF Bcm!Spec, LevelIsShown, Bcm!LevelIsShown

------------------------------------------------------------------------------
(* lcdtest-3310. *)

LcdType == /\ cx \in 0 .. LCD_X_RES - 1 /\ cy \in Nat /\ left \in Nat
           /\ clear_row \in 0 .. LCD_ROWS + 1 /\ inked \subseteq Lcd!Screen

\* The controller is where the driver's cursor is, if that is on the screen.
Agree == cy < LCD_ROWS => x_addr = cx /\ y_addr = cy + 1

\* Nothing is set before this cell of the screen.
BlankBefore(column, row) ==
  \A cell \in inked : cell[2] > row \/ (cell[2] = row /\ cell[1] >= column)

\* lcd_clear() has sent all of the rows before this one, and some of this one.
Clearing == /\ left <= LCD_X_RES /\ BlankBefore(LCD_X_RES - left, clear_row)
            /\ left > 0 => ink = FALSE /\ cy = clear_row - 1 /\ cx = LCD_X_RES - left

LcdInv == /\ LcdType
          /\ clear_row # 0 => Agree
          /\ clear_row = 0 => left = 0
          /\ clear_row \in 1 .. LCD_ROWS => Clearing

LEMMA OnScreen ==
  ASSUME inked \subseteq Lcd!Screen, NEW cell \in inked
  PROVE  /\ cell = <<cell[1], cell[2]>>
         /\ cell[1] \in 0 .. LCD_X_RES - 1 /\ cell[2] \in 1 .. LCD_ROWS
  BY DEF Lcd!Screen

\* lcd_cursor() brings the two together, or does nothing.
LEMMA SetCursorAgrees ==
  ASSUME LcdType, NEW column \in Nat, NEW row \in Nat, Lcd!SetCursor(column, row)
  PROVE  /\ cx' \in 0 .. LCD_X_RES - 1 /\ cy' \in Nat
         /\ Agree => Agree'
         /\ column < LCD_X_RES /\ row < LCD_ROWS => Agree' /\ cx' = column /\ cy' = row
  <1>1. CASE column < LCD_X_RES /\ row < LCD_ROWS
    <2>1. cx' = column /\ cy' = row /\ x_addr' = column /\ y_addr' = row + 1
      BY <1>1 DEF Lcd!SetCursor, Lcd!MoveTo
    <2>2. column \in 0 .. LCD_X_RES - 1
      BY <1>1, ScreenAssumption, SMT
    <2> QED BY <2>1, <2>2 DEF Agree
  <1>2. CASE ~(column < LCD_X_RES /\ row < LCD_ROWS)
    BY <1>2 DEF Lcd!SetCursor, Lcd!cursor, Agree, LcdType
  <1> QED BY <1>1, <1>2

\* A byte takes both of them on, until the last row is full.
LEMMA SendAgrees ==
  ASSUME LcdType, Agree, Lcd!lcd_send
  PROVE  /\ Agree' /\ cx' \in 0 .. LCD_X_RES - 1 /\ cy' \in Nat
         /\ cx + 1 < LCD_X_RES => cx' = cx + 1 /\ cy' = cy
  <1> USE ScreenAssumption
  <1>1. cx \in 0 .. LCD_X_RES - 1 /\ cy \in Nat
    BY DEF LcdType
  <1>2. Lcd!NextRow \in Nat
    BY <1>1, SMT DEF Lcd!NextRow
  <1>3. CASE cx + 1 < LCD_X_RES
    <2>1. /\ cx' = cx + 1 /\ cy' = cy
          /\ x_addr' = (x_addr + 1) % X_RES
          /\ y_addr' = IF x_addr + 1 = X_RES THEN (y_addr + 1) % Y_ROWS ELSE y_addr
      BY <1>3 DEF Lcd!lcd_send, Lcd!Advance
    <2>2. cx + 1 # X_RES /\ (cx + 1) % X_RES = cx + 1
      BY <1>1, <1>3, SMT
    <2>3. cy < LCD_ROWS => x_addr' = cx + 1 /\ y_addr' = cy + 1
      BY <2>1, <2>2 DEF Agree
    <2>4. cx + 1 \in 0 .. LCD_X_RES - 1
      BY <1>1, <1>3, SMT
    <2> QED BY <1>1, <2>1, <2>3, <2>4 DEF Agree
  <1>4. CASE ~(cx + 1 < LCD_X_RES) /\ Lcd!NextRow < LCD_ROWS
    <2>1. cx' = 0 /\ cy' = Lcd!NextRow /\ x_addr' = 0 /\ y_addr' = Lcd!NextRow + 1
      BY <1>4 DEF Lcd!lcd_send, Lcd!MoveTo
    <2>2. 0 \in 0 .. LCD_X_RES - 1
      BY SMT
    <2> QED BY <1>2, <1>4, <2>1, <2>2 DEF Agree
  <1>5. CASE ~(cx + 1 < LCD_X_RES) /\ ~(Lcd!NextRow < LCD_ROWS)
    <2>1. cx' = 0 /\ cy' = Lcd!NextRow
      BY <1>5 DEF Lcd!lcd_send
    <2>2. 0 \in 0 .. LCD_X_RES - 1
      BY SMT
    <2> QED BY <1>2, <1>5, <2>1, <2>2 DEF Agree
  <1> QED BY <1>3, <1>4, <1>5

LEMMA SendByteKeeps == LcdInv /\ Lcd!SendByte => LcdInv'
  <1> SUFFICES ASSUME LcdInv, Lcd!SendByte PROVE LcdInv'
    OBVIOUS
  <1> USE ScreenAssumption
  <1>1. /\ left > 0 /\ left' = left - 1 /\ Lcd!lcd_send /\ Lcd!Put
        /\ ink' = ink /\ clear_row' = clear_row
    BY DEF Lcd!SendByte
  <1>2. /\ LcdType /\ cx \in 0 .. LCD_X_RES - 1 /\ cy \in Nat /\ left \in Nat
        /\ clear_row \in 0 .. LCD_ROWS + 1 /\ inked \subseteq Lcd!Screen
    BY DEF LcdInv, LcdType
  <1>3. left' \in Nat
    BY <1>1, <1>2, SMT
  <1>4. clear_row # 0
    <2>1. left # 0
      BY <1>1, <1>2, SMT
    <2> QED BY <2>1 DEF LcdInv
  <1>5. Agree
    BY <1>4 DEF LcdInv
  <1>6. /\ Agree' /\ cx' \in 0 .. LCD_X_RES - 1 /\ cy' \in Nat
        /\ cx + 1 < LCD_X_RES => cx' = cx + 1 /\ cy' = cy
    BY <1>1, <1>2, <1>5, SendAgrees
  <1>7. inked' \subseteq Lcd!Screen
    BY <1>1, <1>2, Zenon DEF Lcd!Put
  <1>8. ASSUME clear_row \in 1 .. LCD_ROWS PROVE Clearing'
    <2> DEFINE column == LCD_X_RES - left
    <2>1. /\ left <= LCD_X_RES /\ BlankBefore(column, clear_row)
          /\ ink = FALSE /\ cy = clear_row - 1 /\ cx = column
      BY <1>1, <1>8 DEF LcdInv, Clearing
    <2>2. x_addr = column /\ y_addr = clear_row
      <3>1. cy < LCD_ROWS /\ cy + 1 = clear_row
        BY <1>8, <2>1, SMT
      <3> QED BY <1>5, <2>1, <3>1 DEF Agree
    <2>3. inked' = inked \ {<<column, clear_row>>}
      BY <1>1, <2>1, <2>2 DEF Lcd!Put
    <2>4. column \in Nat /\ LCD_X_RES - left' = column + 1
      BY <1>1, <1>2, <2>1, SMT
    <2>5. ASSUME NEW cell \in inked'
          PROVE  cell[2] > clear_row \/ (cell[2] = clear_row /\ cell[1] >= column + 1)
      <3>1. cell \in inked /\ cell # <<column, clear_row>>
        BY <2>3
      <3>2. /\ cell = <<cell[1], cell[2]>>
            /\ cell[1] \in 0 .. LCD_X_RES - 1 /\ cell[2] \in 1 .. LCD_ROWS
        BY <1>2, <3>1, OnScreen
      <3>3. cell[2] > clear_row \/ (cell[2] = clear_row /\ cell[1] >= column)
        BY <2>1, <3>1 DEF BlankBefore
      <3>4. cell[2] = clear_row => cell[1] # column
        BY <3>1, <3>2
      <3> HIDE DEF column
      <3>5. cell[1] >= column /\ cell[1] # column => cell[1] >= column + 1
        BY <2>4, <3>2, SMT
      <3> QED BY <3>3, <3>4, <3>5
    <2>6. BlankBefore(LCD_X_RES - left, clear_row)'
      BY <1>1, <2>4, <2>5 DEF BlankBefore
    <2>7. left' > 0 => cx' = LCD_X_RES - left' /\ cy' = clear_row - 1
      <3> SUFFICES ASSUME left' > 0 PROVE cx' = LCD_X_RES - left' /\ cy' = clear_row - 1
        OBVIOUS
      <3>1. cx + 1 < LCD_X_RES
        BY <1>1, <1>2, <2>1, SMT
      <3> QED BY <1>6, <2>1, <2>4, <3>1
    <2>8. left' <= LCD_X_RES
      BY <1>1, <1>2, <2>1, SMT
    <2> QED BY <1>1, <2>1, <2>6, <2>7, <2>8 DEF Clearing
  <1>9. LcdType'
    BY <1>1, <1>2, <1>3, <1>6, <1>7 DEF LcdType, Lcd!Screen
  <1> QED BY <1>1, <1>4, <1>6, <1>8, <1>9 DEF LcdInv

LEMMA ClearRowKeeps == LcdInv /\ Lcd!ClearRow => LcdInv'
  <1> SUFFICES ASSUME LcdInv, Lcd!ClearRow PROVE LcdInv'
    OBVIOUS
  <1> USE ScreenAssumption
  <1>1. /\ left = 0 /\ clear_row < LCD_ROWS /\ Lcd!SetCursor(0, clear_row)
        /\ left' = LCD_X_RES /\ ink' = FALSE /\ inked' = inked /\ clear_row' = clear_row + 1
    BY DEF Lcd!ClearRow, Lcd!Start
  <1>2. LcdType /\ clear_row \in 0 .. LCD_ROWS + 1 /\ inked \subseteq Lcd!Screen
    BY DEF LcdInv, LcdType
  <1>3. clear_row \in Nat /\ 0 < LCD_X_RES /\ 0 \in Nat
    BY <1>2, SMT
  <1>4. /\ cx' \in 0 .. LCD_X_RES - 1 /\ cy' \in Nat
        /\ Agree' /\ cx' = 0 /\ cy' = clear_row
    BY <1>1, <1>2, <1>3, SetCursorAgrees
  <1>5. clear_row' \in 1 .. LCD_ROWS /\ clear_row' # 0 /\ clear_row' - 1 = clear_row
    BY <1>1, <1>2, SMT
  <1>6. ASSUME NEW cell \in inked
        PROVE  cell[2] > clear_row + 1 \/ (cell[2] = clear_row + 1 /\ cell[1] >= 0)
    <2>1. cell[1] \in 0 .. LCD_X_RES - 1 /\ cell[2] \in 1 .. LCD_ROWS
      BY <1>2, OnScreen
    <2>2. cell[2] > clear_row
      <3>1. CASE clear_row = 0
        BY <2>1, <3>1, SMT
      <3>2. CASE clear_row # 0
        <4>1. clear_row \in 1 .. LCD_ROWS /\ LCD_X_RES - left = LCD_X_RES
          BY <1>1, <1>2, <3>2, SMT
        <4>2. BlankBefore(LCD_X_RES, clear_row)
          BY <4>1 DEF LcdInv, Clearing
        <4>3. cell[2] > clear_row \/ cell[1] >= LCD_X_RES
          BY <4>2 DEF BlankBefore
        <4> QED BY <2>1, <4>3, SMT
      <3> QED BY <3>1, <3>2
    <2> QED BY <1>3, <2>1, <2>2, SMT
  <1>7. LCD_X_RES - left' = 0 /\ left' <= LCD_X_RES /\ left' \in Nat
    BY <1>1, SMT
  <1>8. BlankBefore(LCD_X_RES - left, clear_row)'
    BY <1>1, <1>6, <1>7 DEF BlankBefore
  <1>9. Clearing'
    BY <1>1, <1>4, <1>5, <1>7, <1>8 DEF Clearing
  <1>10. clear_row' \in 0 .. LCD_ROWS + 1
    BY <1>5, SMT
  <1>11. LcdType'
    BY <1>1, <1>2, <1>4, <1>7, <1>10 DEF LcdType, Lcd!Screen
  <1> QED BY <1>4, <1>5, <1>9, <1>11 DEF LcdInv

\* Between two calls everything but the cursors' agreement is free.
LEMMA IdleKeeps ==
  ASSUME LcdInv, Lcd!Idle,
         Agree' /\ cx' \in 0 .. LCD_X_RES - 1 /\ cy' \in Nat,
         left' \in Nat, inked' = inked, clear_row' = clear_row
  PROVE  LcdInv'
  <1>1. clear_row = LCD_ROWS + 1 /\ inked \subseteq Lcd!Screen
    BY DEF LcdInv, LcdType, Lcd!Idle, Lcd!Outside
  <1>2. /\ LCD_ROWS + 1 \in 0 .. LCD_ROWS + 1 /\ LCD_ROWS + 1 # 0
        /\ LCD_ROWS + 1 \notin 1 .. LCD_ROWS
    BY ScreenAssumption, SMT
  <1>3. LcdType'
    BY <1>1, <1>2 DEF LcdType, Lcd!Screen
  <1> QED BY <1>1, <1>2, <1>3 DEF LcdInv

LEMMA IdleAgrees ==
  ASSUME LcdInv, Lcd!Idle
  PROVE  Agree /\ LcdType /\ cx \in 0 .. LCD_X_RES - 1 /\ cy \in Nat /\ left \in Nat
  <1>1. LCD_ROWS + 1 # 0
    BY ScreenAssumption, SMT
  <1> QED BY <1>1 DEF LcdInv, LcdType, Lcd!Idle, Lcd!Outside

LEMMA CallKeeps ==
  ASSUME LcdInv, NEW column \in Nat, NEW row \in Nat, NEW n \in Nat, NEW set
  PROVE  /\ Lcd!lcd_put(n, set) => LcdInv'
         /\ Lcd!lcd_cursor(column, row) => LcdInv'
         /\ Lcd!lcd_clear_line(row) => LcdInv'
         /\ Lcd!lcd_draw(n, set, column, row) => LcdInv'
  <1>1. ASSUME Lcd!lcd_put(n, set) PROVE LcdInv'
    <2>1. /\ Lcd!Idle /\ left' = n /\ inked' = inked /\ clear_row' = clear_row
          /\ UNCHANGED <<cx, cy, x_addr, y_addr>>
      BY <1>1 DEF Lcd!lcd_put, Lcd!Start, Lcd!cursor
    <2>2. Agree' /\ cx' \in 0 .. LCD_X_RES - 1 /\ cy' \in Nat
      BY <2>1, IdleAgrees DEF Agree
    <2> QED BY <2>1, <2>2, IdleKeeps
  <1>2. ASSUME NEW col \in Nat, Lcd!Idle, Lcd!SetCursor(col, row)
        PROVE  Agree' /\ cx' \in 0 .. LCD_X_RES - 1 /\ cy' \in Nat
    BY <1>2, IdleAgrees, SetCursorAgrees
  <1>3. ASSUME Lcd!lcd_cursor(column, row) PROVE LcdInv'
    <2>1. /\ Lcd!Idle /\ Lcd!SetCursor(column, row)
          /\ left' = left /\ inked' = inked /\ clear_row' = clear_row
      BY <1>3 DEF Lcd!lcd_cursor, Lcd!run
    <2> QED BY <2>1, <1>2, IdleAgrees, IdleKeeps
  <1>4. ASSUME Lcd!lcd_clear_line(row) PROVE LcdInv'
    <2>1. /\ Lcd!Idle /\ Lcd!SetCursor(0, row)
          /\ left' = LCD_X_RES /\ inked' = inked /\ clear_row' = clear_row
      BY <1>4 DEF Lcd!lcd_clear_line, Lcd!Start
    <2>2. LCD_X_RES \in Nat /\ 0 \in Nat
      BY ScreenAssumption, SMT
    <2> QED BY <2>1, <2>2, <1>2, IdleKeeps
  <1>5. ASSUME Lcd!lcd_draw(n, set, column, row) PROVE LcdInv'
    <2>1. /\ Lcd!Idle /\ Lcd!SetCursor(column, row)
          /\ left' = n /\ inked' = inked /\ clear_row' = clear_row
      BY <1>5 DEF Lcd!lcd_draw, Lcd!Start
    <2> QED BY <2>1, <1>2, IdleKeeps
  <1> QED BY <1>1, <1>3, <1>4, <1>5

LEMMA LcdInvKept == LcdInv /\ [Lcd!Next]_(Lcd!vars) => LcdInv'
  <1> SUFFICES ASSUME LcdInv, [Lcd!Next]_(Lcd!vars) PROVE LcdInv'
    OBVIOUS
  <1> USE ScreenAssumption
  <1>1. CASE Lcd!SendByte
    BY <1>1, SendByteKeeps
  <1>2. CASE Lcd!ClearRow
    BY <1>2, ClearRowKeeps
  <1>3. CASE Lcd!lcd_clear
    <2>1. /\ left = 0 /\ clear_row' = 0
          /\ UNCHANGED <<cx, cy, left, inked>>
      BY <1>3 DEF Lcd!lcd_clear, Lcd!Idle, Lcd!cursor, Lcd!run
    <2>2. 0 \in 0 .. LCD_ROWS + 1 /\ 0 \notin 1 .. LCD_ROWS
      BY SMT
    <2> QED BY <2>1, <2>2 DEF LcdInv, LcdType, Lcd!Screen
  <1>4. CASE Lcd!ClearReturn
    <2>1. /\ clear_row = LCD_ROWS /\ clear_row' = LCD_ROWS + 1
          /\ UNCHANGED <<cx, cy, x_addr, y_addr, left, inked>>
      BY <1>4 DEF Lcd!ClearReturn, Lcd!Outside, Lcd!cursor, Lcd!run
    <2>2. /\ LCD_ROWS + 1 \in 0 .. LCD_ROWS + 1 /\ LCD_ROWS # 0 /\ LCD_ROWS + 1 # 0
          /\ LCD_ROWS + 1 \notin 1 .. LCD_ROWS
      BY SMT
    <2> QED BY <2>1, <2>2 DEF LcdInv, LcdType, Agree, Lcd!Screen
  <1>5. ASSUME NEW set \in BOOLEAN, NEW n \in Run, Lcd!lcd_put(n, set) PROVE LcdInv'
    <2>1. n \in Nat /\ 0 \in Nat
      OBVIOUS
    <2> QED BY <1>5, <2>1, CallKeeps
  <1>6. ASSUME NEW column \in 0 .. LCD_X_RES, NEW row \in 0 .. LCD_ROWS,
               \/ Lcd!lcd_cursor(column, row) \/ Lcd!lcd_clear_line(row)
               \/ \E set \in BOOLEAN, n \in Run : Lcd!lcd_draw(n, set, column, row)
        PROVE  LcdInv'
    <2>1. column \in Nat /\ row \in Nat /\ 0 \in Nat /\ \A n \in Run : n \in Nat
      BY SMT
    <2> QED BY <1>6, <2>1, CallKeeps
  <1>7. CASE UNCHANGED Lcd!vars
    BY <1>7 DEF Lcd!vars, Lcd!cursor, Lcd!run, LcdInv, LcdType, Agree, Clearing, BlankBefore,
                Lcd!Screen
  <1> QED BY <1>1, <1>2, <1>3, <1>4, <1>5, <1>6, <1>7 DEF Lcd!Next

\* The next byte lands at the driver's cursor as long as that is on the screen,
\* and lcd_clear() leaves a blank screen: for a screen and a controller of any
\* size, and runs of any length that the caller draws.
THEOREM BytesLandAtCursorHolds == AnySpec => []BytesLandAtCursor
  <1>1. Lcd!Init => LcdInv
    <2> SUFFICES ASSUME Lcd!Init PROVE LcdInv
      OBVIOUS
    <2>1. cx = 0 /\ cy = 0 /\ left = 0 /\ clear_row = 0 /\ inked = Lcd!Screen
      BY DEF Lcd!Init
    <2>2. /\ 0 \in 0 .. LCD_X_RES - 1 /\ 0 \in Nat /\ 0 \in 0 .. LCD_ROWS + 1
          /\ 0 \notin 1 .. LCD_ROWS
      BY ScreenAssumption, SMT
    <2> QED BY <2>1, <2>2 DEF LcdInv, LcdType
  <1>2. LcdInv => BytesLandAtCursor
    <2> SUFFICES ASSUME LcdInv PROVE BytesLandAtCursor
      OBVIOUS
    <2>1. left > 0 /\ cy < LCD_ROWS => x_addr = cx /\ y_addr = cy + 1
      <3>1. left > 0 => left # 0
        BY SMT DEF LcdInv, LcdType
      <3> QED BY <3>1 DEF LcdInv, Agree
    <2>2. ASSUME clear_row = LCD_ROWS, left = 0 PROVE inked = {}
      <3>1. clear_row \in 1 .. LCD_ROWS /\ LCD_X_RES - left = LCD_X_RES
        BY <2>2, ScreenAssumption, SMT
      <3>2. BlankBefore(LCD_X_RES, LCD_ROWS)
        BY <2>2, <3>1 DEF LcdInv, Clearing
      <3>3. ASSUME NEW cell \in inked PROVE FALSE
        <4>1. cell[1] \in 0 .. LCD_X_RES - 1 /\ cell[2] \in 1 .. LCD_ROWS
          BY OnScreen DEF LcdInv, LcdType
        <4>2. cell[2] > LCD_ROWS \/ cell[1] >= LCD_X_RES
          BY <3>2 DEF BlankBefore
        <4> QED BY <4>1, <4>2, ScreenAssumption, SMT
      <3> QED BY <3>3
    <2> QED BY <2>1, <2>2 DEF BytesLandAtCursor, Lcd!BytesLandAtCursor
  <1> QED BY <1>1, <1>2, LcdInvKept, EachProgramRuns, PTL DEF Lcd!Spec

------------------------------------------------------------------------------
(* mspov. *)

\* The first letter of this time round, and the column that is to be the i-th.
First == IF again THEN 1 ELSE 0
Cell(i) == <<First + ((i - 1) \div FONTWIDTH), (i - 1) % FONTWIDTH>>

\* How many columns have been shown tells the letter and the position; the
\* position that is left over from the message takes the first letter's place.
PovInv == /\ step \in 0 .. LETTERS /\ position \in Nat /\ again \in BOOLEAN
          /\ shown \in Seq(Nat \X Nat)
          /\ again /\ step = 0 => position > FONTWIDTH /\ shown = <<>>
          /\ First <= step /\ step < LETTERS
               => /\ position <= FONTWIDTH
                  /\ Len(shown) = (FONTWIDTH * (step - First)) + position
          /\ step = LETTERS => Len(shown) = FONTWIDTH * (LETTERS - First)
          /\ \A i \in 1 .. Len(shown) : shown[i] = Cell(i)

LEMMA FirstLetter ==
  ASSUME again \in BOOLEAN
  PROVE  First \in 0 .. 1 /\ First <= LETTERS /\ LETTERS - First \in Nat
  BY MessageAssumption, SMT DEF First

\* Only the first letter, and only when the message has begun before, is not
\* shown.
LEMMA LetterShown ==
  ASSUME PovInv, step < LETTERS, ~(First <= step)
  PROVE  again /\ step = 0
  <1>1. again \in BOOLEAN /\ step \in 0 .. LETTERS
    BY DEF PovInv
  <1>2. CASE again
    <2>1. First = 1
      BY <1>2 DEF First
    <2> QED BY <1>1, <1>2, <2>1, MessageAssumption, SMT
  <1>3. CASE ~again
    <2>1. First = 0
      BY <1>3 DEF First
    <2> QED BY <1>1, <2>1, MessageAssumption, SMT
  <1> QED BY <1>1, <1>2, <1>3

LEMMA ColumnKeeps ==
  ASSUME PovInv, Pov!Column
  PROVE  PovInv'
  <1>1. /\ step < LETTERS /\ position < FONTWIDTH
        /\ shown' = Append(shown, <<step, position>>) /\ position' = position + 1
        /\ step' = step /\ again' = again
    BY DEF Pov!Column
  <1>2. /\ step \in 0 .. LETTERS /\ position \in Nat /\ again \in BOOLEAN
        /\ shown \in Seq(Nat \X Nat)
    BY DEF PovInv
  <1>3. FONTWIDTH \in Nat \ {0} /\ LETTERS \in Nat \ {0}
    BY MessageAssumption
  <1>4. First <= step
    <2>1. ~(position > FONTWIDTH)
      BY <1>1, <1>2, <1>3, SMT
    <2> QED BY <1>1, <2>1, LetterShown DEF PovInv
  <1> DEFINE n == Len(shown)
             q == step - First
  <1>5. First \in 0 .. 1 /\ q \in Nat /\ First + q = step
    BY <1>2, <1>4, FirstLetter, SMT
  <1>6. n = (FONTWIDTH * q) + position /\ n \in Nat
    BY <1>1, <1>2, <1>4, LenProperties DEF PovInv
  <1>7. step \in Nat /\ <<step, position>> \in Nat \X Nat
    BY <1>2, <1>3, SMT
  <1>8. /\ shown' \in Seq(Nat \X Nat) /\ Len(shown') = n + 1
        /\ \A i \in 1 .. n : shown'[i] = shown[i]
        /\ shown'[n + 1] = <<step, position>>
    BY <1>1, <1>2, <1>7, AppendProperties
  <1>9. First' = First /\ \A i : Cell(i)' = Cell(i)
    BY <1>1 DEF First, Cell
  <1> HIDE DEF n, q
  <1>10. n \div FONTWIDTH = q /\ n % FONTWIDTH = position
    <2>1. position \in 0 .. FONTWIDTH - 1
      BY <1>1, <1>2, <1>3, SMT
    <2> QED BY <1>3, <1>5, <1>6, <2>1, SMT
  <1>11. Cell(n + 1) = <<step, position>>
    <2>1. (n + 1) - 1 = n
      BY <1>6, SMT
    <2> QED BY <1>5, <1>10, <2>1 DEF Cell
  <1>12. \A i \in 1 .. Len(shown') : shown'[i] = Cell(i)
    <2> SUFFICES ASSUME NEW i \in 1 .. n + 1 PROVE shown'[i] = Cell(i)
      BY <1>8
    <2>1. CASE i = n + 1
      BY <1>8, <1>11, <2>1
    <2>2. CASE i # n + 1
      <3>1. i \in 1 .. n
        BY <1>6, <2>2, SMT
      <3>2. shown[i] = Cell(i)
        BY <3>1 DEF PovInv, n
      <3> QED BY <1>8, <3>1, <3>2
    <2> QED BY <2>1, <2>2
  <1>13. position' \in Nat /\ position' <= FONTWIDTH
    BY <1>1, <1>2, <1>3, SMT
  <1>14. Len(shown') = (FONTWIDTH * q) + position'
    <2>1. FONTWIDTH * q \in Nat
      BY <1>3, <1>5, SMT
    <2> QED BY <1>1, <1>2, <1>6, <1>8, <2>1, SMT
  <1>15. step # LETTERS
    BY <1>1, <1>2, <1>3, SMT
  <1>16. ~(again /\ step = 0)
    <2>1. ~(position > FONTWIDTH)
      BY <1>1, <1>2, <1>3, SMT
    <2> QED BY <2>1 DEF PovInv
  <1>17. /\ step' \in 0 .. LETTERS /\ position' \in Nat /\ again' \in BOOLEAN
         /\ shown' \in Seq(Nat \X Nat)
    BY <1>1, <1>2, <1>8, <1>13
  <1>18. ~(again' /\ step' = 0) /\ step' # LETTERS
    BY <1>1, <1>15, <1>16
  <1>19. position' <= FONTWIDTH /\ Len(shown') = (FONTWIDTH * (step' - First')) + position'
    BY <1>1, <1>9, <1>13, <1>14 DEF q
  <1>20. \A i \in 1 .. Len(shown') : shown'[i] = Cell(i)'
    BY <1>9, <1>12
  <1> QED BY <1>17, <1>18, <1>19, <1>20 DEF PovInv

LEMMA NextLetterKeeps ==
  ASSUME PovInv, Pov!NextLetter
  PROVE  PovInv'
  <1>1. /\ step < LETTERS /\ position >= FONTWIDTH
        /\ step' = step + 1 /\ position' = 0 /\ shown' = shown /\ again' = again
    BY DEF Pov!NextLetter
  <1>2. /\ step \in 0 .. LETTERS /\ position \in Nat /\ again \in BOOLEAN
        /\ shown \in Seq(Nat \X Nat)
    BY DEF PovInv
  <1>3. FONTWIDTH \in Nat \ {0} /\ LETTERS \in Nat \ {0}
    BY MessageAssumption
  <1>4. First' = First /\ First \in 0 .. 1 /\ \A i : Cell(i)' = Cell(i)
    BY <1>1, <1>2, FirstLetter DEF First, Cell
  <1>5. step' \in 1 .. LETTERS /\ First <= step' /\ step' - First \in Nat
    BY <1>1, <1>2, <1>3, <1>4, SMT
  <1>6. Len(shown) = FONTWIDTH * (step' - First)
    <2>1. CASE First <= step
      <3> DEFINE q == step - First
      <3>1. position <= FONTWIDTH /\ Len(shown) = (FONTWIDTH * q) + position
        BY <1>1, <2>1 DEF PovInv
      <3>2. position = FONTWIDTH
        BY <1>1, <1>2, <1>3, <3>1, SMT
      <3>3. q \in Nat /\ step' - First = q + 1
        BY <1>1, <1>2, <1>4, <2>1, SMT
      <3> HIDE DEF q
      <3>4. FONTWIDTH * (q + 1) = (FONTWIDTH * q) + FONTWIDTH
        BY <1>3, <3>3, SMT
      <3> QED BY <3>1, <3>2, <3>3, <3>4
    <2>2. CASE ~(First <= step)
      <3>1. again /\ step = 0
        BY <1>1, <2>2, LetterShown
      <3>2. shown = <<>>
        BY <3>1 DEF PovInv
      <3>3. Len(shown) = 0
        BY <3>2, SMT
      <3>4. step' - First = 0
        <4>1. First = 1
          BY <3>1 DEF First
        <4> QED BY <1>1, <3>1, <4>1, SMT
      <3>5. FONTWIDTH * 0 = 0
        BY <1>3, SMT
      <3> QED BY <3>3, <3>4, <3>5
    <2> QED BY <2>1, <2>2
  <1>7. Len(shown) \in Nat
    BY <1>2, LenProperties
  <1>8. Len(shown') = (FONTWIDTH * (step' - First')) + position'
    BY <1>1, <1>4, <1>6, <1>7, SMT
  <1>9. step' = LETTERS => Len(shown') = FONTWIDTH * (LETTERS - First')
    BY <1>1, <1>4, <1>6
  <1>10. step' # 0 /\ position' <= FONTWIDTH /\ position' \in Nat /\ step' \in 0 .. LETTERS
    BY <1>1, <1>3, <1>5, SMT
  <1>11. \A i \in 1 .. Len(shown') : shown'[i] = Cell(i)'
    BY <1>1, <1>4 DEF PovInv
  <1> QED BY <1>1, <1>2, <1>8, <1>9, <1>10, <1>11 DEF PovInv

LEMMA AfterMessageKeeps ==
  ASSUME PovInv, Pov!AfterMessage
  PROVE  PovInv'
  <1>1. /\ step = LETTERS /\ position' = position + 1
        /\ \/ position' > FONTWIDTH /\ step' = 0 /\ shown' = <<>> /\ again' = TRUE
           \/ step' = step /\ shown' = shown /\ again' = again
    BY DEF Pov!AfterMessage
  <1>2. /\ step \in 0 .. LETTERS /\ position \in Nat /\ again \in BOOLEAN
        /\ shown \in Seq(Nat \X Nat)
    BY DEF PovInv
  <1>3. LETTERS \in Nat \ {0} /\ position' \in Nat
    BY <1>1, <1>2, MessageAssumption, SMT
  <1>4. CASE position' > FONTWIDTH /\ step' = 0 /\ shown' = <<>> /\ again' = TRUE
    <2>1. shown' \in Seq(Nat \X Nat) /\ Len(shown') = 0
      BY <1>4, EmptySeq
    <2>2. First' = 1
      BY <1>4 DEF First
    <2>3. 1 .. 0 = {} /\ ~(1 <= 0) /\ 0 # LETTERS /\ 0 \in 0 .. LETTERS
      BY <1>3, SMT
    <2> QED BY <1>3, <1>4, <2>1, <2>2, <2>3 DEF PovInv
  <1>5. CASE step' = step /\ shown' = shown /\ again' = again
    <2>1. First' = First /\ \A i : Cell(i)' = Cell(i)
      BY <1>5 DEF First, Cell
    <2>2. step # 0 /\ ~(step < LETTERS)
      BY <1>1, <1>3, SMT
    <2> QED BY <1>1, <1>2, <1>3, <1>5, <2>1, <2>2 DEF PovInv
  <1> QED BY <1>1, <1>4, <1>5

LEMMA PovInvKept == PovInv /\ [Pov!Next]_(Pov!vars) => PovInv'
  <1> SUFFICES ASSUME PovInv, [Pov!Next]_(Pov!vars) PROVE PovInv'
    OBVIOUS
  <1>1. CASE UNCHANGED <<step, position, shown, again>>
    BY <1>1 DEF PovInv, First, Cell
  <1>2. Pov!AfterMessage \/ Pov!Column \/ Pov!NextLetter
          \/ UNCHANGED <<step, position, shown, again>>
    BY DEF Pov!Next, Pov!TIMERA0_ISR, Pov!BlankColumn, Pov!vars
  <1> QED BY <1>1, <1>2, ColumnKeeps, NextLetterKeeps, AfterMessageKeeps

\* No more columns have been shown than the message has.
LEMMA NotTooMany ==
  ASSUME PovInv
  PROVE  Len(shown) <= (LETTERS - First) * FONTWIDTH
  <1> DEFINE k == LETTERS - First
             n == Len(shown)
  <1>1. /\ step \in 0 .. LETTERS /\ position \in Nat /\ again \in BOOLEAN
        /\ shown \in Seq(Nat \X Nat)
    BY DEF PovInv
  <1>2. k \in Nat /\ First \in 0 .. 1 /\ First <= LETTERS /\ n \in Nat
    BY <1>1, FirstLetter, LenProperties
  <1>3. FONTWIDTH \in Nat \ {0} /\ LETTERS \in Nat \ {0}
    BY MessageAssumption
  <1>4. k * FONTWIDTH = FONTWIDTH * k /\ FONTWIDTH * k \in Nat
    <2> HIDE DEF k
    <2> QED BY <1>2, <1>3, SMT
  <1>5. n <= FONTWIDTH * k
    <2>1. CASE step = LETTERS
      <3>1. n = FONTWIDTH * k
        BY <2>1 DEF PovInv
      <3> HIDE DEF n, k
      <3> QED BY <1>4, <3>1, SMT
    <2>2. CASE step # LETTERS /\ First <= step
      <3> DEFINE q == step - First
      <3>1. step < LETTERS /\ q \in Nat /\ q < k
        BY <1>1, <1>2, <1>3, <2>2, SMT
      <3>2. position <= FONTWIDTH /\ n = (FONTWIDTH * q) + position
        BY <2>2, <3>1 DEF PovInv
      <3> HIDE DEF n, k, q
      <3>3. (FONTWIDTH * q) + FONTWIDTH <= FONTWIDTH * k /\ FONTWIDTH * q \in Nat
        <4>1. FONTWIDTH * q \in Nat
          BY <1>3, <3>1, SMT
        <4> QED BY <1>2, <1>3, <3>1, <4>1, ACarry
      <3> QED BY <1>1, <1>2, <1>3, <1>4, <3>2, <3>3, SMT
    <2>3. CASE step # LETTERS /\ ~(First <= step)
      <3>1. step < LETTERS
        BY <1>1, <1>3, <2>3, SMT
      <3>2. shown = <<>>
        BY <2>3, <3>1, LetterShown DEF PovInv
      <3>3. n = 0
        BY <3>2, SMT
      <3> HIDE DEF n, k
      <3> QED BY <1>4, <3>3, SMT
    <2> QED BY <2>1, <2>2, <2>3
  <1> QED BY <1>4, <1>5

\* Each time round the columns of the message are shown in order, each once,
\* and all of them before its end, but the first letter's only the first time:
\* for a message of any length and letters of any width.
THEOREM ShowsMessageHolds == AnySpec => []ShowsMessage
  <1>1. Pov!Init => PovInv
    <2> SUFFICES ASSUME Pov!Init PROVE PovInv
      OBVIOUS
    <2>1. step = 0 /\ position = 0 /\ shown = <<>> /\ again = FALSE
      BY DEF Pov!Init
    <2>2. First = 0
      BY <2>1 DEF First
    <2>3. shown \in Seq(Nat \X Nat) /\ Len(shown) = 0
      BY <2>1, EmptySeq
    <2>4. /\ 0 \in 0 .. LETTERS /\ 0 \in Nat /\ 0 # LETTERS /\ 0 <= FONTWIDTH
          /\ (FONTWIDTH * (0 - 0)) + 0 = 0 /\ 1 .. 0 = {}
      BY MessageAssumption, SMT
    <2> QED BY <2>1, <2>2, <2>3, <2>4 DEF PovInv
  <1>2. PovInv => ShowsMessage
    <2> SUFFICES ASSUME PovInv PROVE ShowsMessage
      OBVIOUS
    <2> DEFINE expected == Pov!Columns(First)
               k == (LETTERS - First) * FONTWIDTH
               n == Len(shown)
    <2>1. shown \in Seq(Nat \X Nat) /\ again \in BOOLEAN
      BY DEF PovInv
    <2>2. First \in 0 .. 1 /\ LETTERS - First \in Nat /\ FONTWIDTH \in Nat \ {0}
      BY <2>1, FirstLetter, MessageAssumption
    <2>3. n \in Nat /\ n <= k /\ k \in Nat
      <3>1. k \in Nat
        <4> DEFINE l == LETTERS - First
        <4>1. l \in Nat
          BY <2>2
        <4> HIDE DEF l
        <4>2. l * FONTWIDTH \in Nat
          BY <2>2, <4>1, SMT
        <4> QED BY <4>2 DEF l
      <3> QED BY <2>1, <3>1, LenProperties, NotTooMany
    <2>4. expected = [i \in 1 .. k |-> Cell(i)]
      BY DEF Pov!Columns, Cell
    <2>5. \A i \in 1 .. k : Cell(i) \in Nat \X Nat
      <3> SUFFICES ASSUME NEW i \in 1 .. k PROVE Cell(i) \in Nat \X Nat
        OBVIOUS
      <3> HIDE DEF k
      <3>1. i - 1 \in Nat
        BY <2>3, SMT
      <3>2. (i - 1) \div FONTWIDTH \in Nat /\ (i - 1) % FONTWIDTH \in Nat
        <4>1. /\ (i - 1) \div FONTWIDTH \in Nat
              /\ (i - 1) % FONTWIDTH \in 0 .. FONTWIDTH - 1
          BY <2>2, <3>1, Division
        <4> QED BY <2>2, <4>1, SMT
      <3>3. First + ((i - 1) \div FONTWIDTH) \in Nat
        BY <2>2, <3>2, SMT
      <3> QED BY <3>2, <3>3 DEF Cell
    <2>6. \A i \in 1 .. n : shown[i] = expected[i] /\ expected[i] \in Nat \X Nat
      <3> SUFFICES ASSUME NEW i \in 1 .. n
                   PROVE  shown[i] = expected[i] /\ expected[i] \in Nat \X Nat
        OBVIOUS
      <3>1. i \in 1 .. k
        <4> HIDE DEF n, k
        <4> QED BY <2>3, SMT
      <3>2. shown[i] = Cell(i)
        BY DEF PovInv
      <3>3. expected[i] = Cell(i)
        <4> HIDE DEF expected, k
        <4> QED BY <2>4, <3>1
      <3> QED BY <2>5, <3>1, <3>2, <3>3
    <2> HIDE DEF expected, k
    <2>7. shown = SubSeq(expected, 1, n)
      <3> HIDE DEF n
      <3>1. /\ SubSeq(expected, 1, n) \in Seq(Nat \X Nat)
            /\ Len(SubSeq(expected, 1, n)) = IF 1 <= n THEN n - 1 + 1 ELSE 0
            /\ \A i \in 1 .. n - 1 + 1 : SubSeq(expected, 1, n)[i] = expected[1 + i - 1]
        BY <2>3, <2>6, SubSeqProperties
      <3>2. Len(SubSeq(expected, 1, n)) = n /\ n - 1 + 1 = n
        BY <2>3, <3>1, SMT
      <3>3. ASSUME NEW i \in 1 .. n PROVE shown[i] = SubSeq(expected, 1, n)[i]
        <4>1. 1 + i - 1 = i
          BY <2>3, SMT
        <4> QED BY <2>6, <3>1, <3>2, <4>1
      <3> QED BY <2>1, <3>1, <3>2, <3>3, SeqEqual DEF n
    <2>8. ASSUME step = LETTERS PROVE shown = expected
      <3>1. n = k
        <4> DEFINE l == LETTERS - First
        <4>1. n = FONTWIDTH * l
          BY <2>8 DEF PovInv
        <4>2. l \in Nat
          BY <2>2
        <4> HIDE DEF l, n
        <4>3. FONTWIDTH * l = l * FONTWIDTH
          BY <2>2, <4>2, SMT
        <4> QED BY <4>1, <4>3 DEF l, k
      <3>2. expected \in Seq(Nat \X Nat) /\ Len(expected) = n
        <4> HIDE DEF n
        <4>1. expected \in [1 .. n -> Nat \X Nat]
          BY <2>4, <2>5, <3>1
        <4> QED BY <2>3, <4>1, SeqDef, SMT
      <3> QED BY <2>1, <2>6, <3>2, SeqEqual
    <2> QED BY <2>7, <2>8 DEF ShowsMessage, Pov!ShowsMessage, expected, First
  <1> QED BY <1>1, <1>2, PovInvKept, EachProgramRuns, PTL DEF Pov!Spec
==============================================================================
