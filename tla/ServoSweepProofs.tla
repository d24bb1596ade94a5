--------------------------- MODULE ServoSweepProofs ---------------------------
(***************************************************************************)
(* Proofs about ServoSweep, for either firmware and link, any number of    *)
(* servos and any width of a byte, an int and the clock.                   *)
(***************************************************************************)
EXTENDS ServoSweep, TLAPS

Bytes == 0..(Byte - 1)
Clock == 0..(ClockMod - 1)

-----------------------------------------------------------------------------
(* Arithmetic.                                                             *)

\* An int handed to a byte parameter is a byte.
LEMMA CutIsByte == ASSUME NEW a \in Int PROVE a % Byte \in Bytes
  BY ServoAssumption DEF Bytes

LEMMA CutIsAngle == ASSUME NEW a \in Int PROVE Cut(a) \in Angle
  BY CutIsByte DEF Cut, Angle, Bytes

\* An angle of commands, of initServo and of the constructor.
LEMMA BytesAreAngles == Bytes \subseteq Angle /\ Angle \subseteq Int
  BY ServoAssumption DEF Bytes, Angle

\* A difference that is cut to an int is no greater than it was.
LEMMA KeptNoMore == ASSUME NEW d \in Nat PROVE Kept(d) \in Int /\ Kept(d) <= d
  <1>1. ASSUME NEW a \in Nat PROVE a % IntMod \in Int /\ a % IntMod <= a
    BY ServoAssumption
  <1>2. d + IntMod \div 2 \in Nat
    BY ServoAssumption
  <1> QED BY <1>1, <1>2, ServoAssumption DEF Kept

\* A byte that is no target is a byte after a step towards it, uncut.
LEMMA StepIsByte ==
    ASSUME NEW p \in Bytes, NEW t \in Bytes, p # t
    PROVE  /\ p < t => (p + 1) % Byte = p + 1
           /\ p > t => (p - 1) % Byte = p - 1
  BY ServoAssumption DEF Bytes

LEMMA ClockSum == ASSUME NEW a \in Clock PROVE Plus(a, 1) \in Clock
  BY ServoAssumption DEF Plus, Clock

LEMMA ClockDifference ==
    ASSUME NEW a \in Clock, NEW b \in Clock PROVE Elapsed(a, b) \in Clock
  BY ServoAssumption DEF Elapsed, Clock

LEMMA ClockIsNat == Clock \subseteq Nat
  BY ServoAssumption DEF Clock

\* A millisecond adds at most one to a difference, and no time is no time.
LEMMA DifferenceGrows ==
    ASSUME NEW a \in Clock, NEW b \in Clock
    PROVE  Elapsed(Plus(a, 1), b) <= Elapsed(a, b) + 1 /\ Elapsed(a, a) = 0
  BY ServoAssumption DEF Plus, Elapsed, Clock

\* Either firmware turns a servo by one uncut degree towards the angle t, if at
\* all; only the base leaves t, by one degree down, when the servo is there.
LEMMA DegreeTurns ==
    ASSUME NEW p \in Angle, NEW t \in Angle
    PROVE  /\ p < t => Degree(p, t) = p + 1
           /\ p > t => Degree(p, t) = p - 1
           /\ p = t => Degree(p, t) = IF Base THEN Cut(p - 1) ELSE p
           /\ Degree(p, t) \in Angle
  <1>1. CASE Base
    <2>1. Cut(p - 1) \in Angle /\ p \in Bytes /\ t \in Bytes
      BY <1>1, CutIsAngle, BytesAreAngles DEF Angle, Bytes
    <2>2. CASE p # t
      BY <1>1, <2>1, <2>2, StepIsByte, ServoAssumption DEF Degree, Cut, Angle, Bytes
    <2>3. CASE p = t
      BY <1>1, <2>1, <2>3, ServoAssumption DEF Degree, Bytes
    <2> QED BY <2>2, <2>3
  <1>2. CASE ~Base
    BY <1>2 DEF Degree, Cut, Angle
  <1> QED BY <1>1, <1>2

-----------------------------------------------------------------------------
(* The invariant.                                                          *)

\* What moveServo takes for the time since the last degree is no more than
\* that time is; between the step and its time stamp it is not looked at.
NoMore(ms, s) == ms <= since[s] \/ since[s] = MaxSince

TimeInv ==
    /\ \A s \in Servo : delay[s] < MaxSince
    /\ seen.delay < MaxSince
    /\ \A s \in Servo : (pc = "stamp" /\ s = i) \/ NoMore(Elapsed(now, last[s]), s)
    /\ pc \in {"target", "pace", "move"} => NoMore(delta, i)

ServoInv == TypeOK /\ TimeInv

LEMMA ServoInit == Init => ServoInv
  <1> SUFFICES ASSUME Init PROVE ServoInv
    OBVIOUS
  <1>1. 0 \in Bytes /\ 0 \in Clock /\ 1 \in Servo /\ 0 \in 0..MaxLoop /\ 0 \in 0..MaxSince
    BY ServoAssumption DEF Bytes, Clock, Servo
  <1>2. TypeOK
    BY <1>1, BytesAreAngles, ServoAssumption DEF Init, TypeOK, Bytes, Clock
  <1>3. Elapsed(0, 0) = 0
    BY DEF Elapsed
  <1>4. TimeInv
    BY <1>1, <1>3, ServoAssumption DEF Init, TimeInv, NoMore
  <1> QED BY <1>2, <1>4 DEF ServoInv

LEMMA NextServoType ==
    ASSUME TypeOK, NEW p, NEW q, NextServo(p, q)
    PROVE  i' \in Servo /\ spent' \in 0..MaxLoop
  BY ServoAssumption DEF TypeOK, NextServo, Servo

LEMMA ServoType == TypeOK /\ [Next]_vars => TypeOK'
  <1> SUFFICES ASSUME TypeOK, [Next]_vars PROVE TypeOK'
    OBVIOUS
  <1> USE DEF TypeOK
  <1>0. fw' = fw => Angle' = Angle
    BY DEF Angle, Base
  <1>1. ASSUME NEW s \in Servo, NEW angle \in Angles, NEW ms \in Delays,
               SetTargetPos(s, angle, ms)
        PROVE  TypeOK'
    <2>1. Cut(angle) \in Angle /\ ms \in 0..(Byte - 1)
      BY CutIsAngle, ServoAssumption
    <2> QED BY <1>0, <1>1, <2>1 DEF SetTargetPos, main
  <1>2. CASE HostDies
    BY <1>0, <1>2 DEF HostDies, servo, main
  <1>3. CASE Tick
    <2>1. now' \in 0..(ClockMod - 1)
      BY <1>3, ClockSum DEF Tick, Clock
    <2>2. since' \in [Servo -> 0..MaxSince] /\ spent' \in 0..MaxLoop
      BY <1>3, ServoAssumption DEF Tick
    <2> QED BY <1>0, <1>3, <2>1, <2>2 DEF Tick
  <1>4. CASE InitDelay
    BY <1>0, <1>4, ServoAssumption DEF InitDelay, Goto
  <1>5. CASE InitServo
    <2>1. InitAngle[i] \in Angle
      BY BytesAreAngles, ServoAssumption DEF Bytes
    <2>2. since' \in [Servo -> 0..MaxSince] /\ last' \in [Servo -> 0..(ClockMod - 1)]
      BY <1>5, ServoAssumption DEF InitServo
    <2> QED BY <1>0, <1>5, <2>1, <2>2, NextServoType DEF InitServo, NextServo
  <1>6. CASE Delta
    <2>0. now \in Clock /\ last[i] \in Clock
      BY DEF Clock
    <2>1. Elapsed(now, last[i]) \in Nat
      BY ONLY <2>0, ClockDifference, ClockIsNat
    <2>2. delta' \in Int
      BY <1>6, <2>1, KeptNoMore DEF Delta
    <2> QED BY <1>0, <1>6, <2>2 DEF Delta, Goto, servo
  <1>7. CASE LoadTarget \/ LoadDelay
    BY <1>0, <1>7 DEF LoadTarget, LoadDelay, Goto, servo
  <1>8. CASE Stay
    BY <1>0, <1>8, NextServoType DEF Stay, NextServo, servo
  <1>9. CASE Move
    <2>1. \A t \in {seen.target, target[i]} : Degree(pos[i], t) \in Angle
      BY DegreeTurns
    <2>2. pos' \in [Servo -> Angle]
      BY <1>9, <2>1 DEF Move
    <2>3. since' \in [Servo -> 0..MaxSince]
      BY <1>9, ServoAssumption DEF Move
    <2> QED BY <1>0, <1>9, <2>2, <2>3 DEF Move, Goto
  <1>10. CASE Stamp
    BY <1>0, <1>10, NextServoType DEF Stamp, TimeOf, NextServo
  <1>11. CASE UNCHANGED vars
    BY <1>0, <1>11 DEF vars
  <1> QED BY <1>1, <1>2, <1>3, <1>4, <1>5, <1>6, <1>7, <1>8, <1>9, <1>10, <1>11 DEF Next, Main

LEMMA ServoTime == ServoInv /\ [Next]_vars => TimeInv'
  <1> SUFFICES ASSUME ServoInv, [Next]_vars PROVE TimeInv'
    OBVIOUS
  <1> USE DEF ServoInv, TimeInv, TypeOK, NoMore
  <1>0. TypeOK'
    BY ServoType
  <1>1. ASSUME NEW s \in Servo, NEW angle \in Angles, NEW ms \in Delays,
               SetTargetPos(s, angle, ms)
        PROVE  TimeInv'
    BY <1>1, ServoAssumption DEF SetTargetPos, main
  <1>2. CASE HostDies
    BY <1>2 DEF HostDies, servo, main
  <1>3. CASE Tick
    <2>1. ASSUME NEW s \in Servo, NEW ms \in Int, NEW more \in Int, more <= ms + 1,
                 ms <= since[s] \/ since[s] = MaxSince
          PROVE  more <= since'[s] \/ since'[s] = MaxSince
      BY <1>3, <2>1, ServoAssumption DEF Tick
    <2>2. \A s \in Servo : (pc = "stamp" /\ s = i) \/ NoMore(Elapsed(now, last[s]), s)'
      <3> SUFFICES ASSUME NEW s \in Servo, ~(pc = "stamp" /\ s = i)
                   PROVE  NoMore(Elapsed(now, last[s]), s)'
        OBVIOUS
      <3>1. now \in Clock /\ last[s] \in Clock /\ now' \in Clock
        BY <1>0 DEF Clock
      <3>2. Elapsed(now, last[s]) \in Nat /\ Elapsed(now', last[s]) \in Nat
        <4>1. Elapsed(now, last[s]) \in Clock /\ Elapsed(now', last[s]) \in Clock
          BY ONLY <3>1, ClockDifference
        <4> QED BY ONLY <4>1, ServoAssumption DEF Clock
      <3>3. Elapsed(now', last[s]) <= Elapsed(now, last[s]) + 1
        BY <3>1, <1>3, DifferenceGrows DEF Tick
      <3> QED BY <2>1, <3>2, <3>3, <1>3 DEF Tick
    <2>3. pc \in {"target", "pace", "move"} => NoMore(delta, i)'
      BY <2>1, <1>3 DEF Tick
    <2> QED BY <1>3, <2>2, <2>3 DEF Tick
  <1>4. CASE InitDelay
    BY <1>4, ServoAssumption DEF InitDelay, Goto
  <1>5. ASSUME NEW S \in SUBSET Servo, i \in S,
               last' = [last EXCEPT ![i] = now], now' = now,
               \A s \in Servo \ {i} : since'[s] = since[s],
               since'[i] = since[i] \/ since'[i] = 0,
               pc \in {"angle", "stamp"}
        PROVE  \A s \in Servo : NoMore(Elapsed(now, last[s]), s)'
    <2>1. now \in Clock /\ \A s \in Servo : since[s] \in Nat
      BY ServoAssumption DEF Clock
    <2>2. Elapsed(now, now) = 0
      BY <2>1, DifferenceGrows
    <2>3. last'[i] = now /\ since'[i] \in Nat
      BY <1>5, <2>1
    <2>4. ASSUME NEW s \in Servo \ {i} PROVE NoMore(Elapsed(now, last[s]), s)'
      BY <1>5, <2>4
    <2> QED BY <1>5, <2>2, <2>3, <2>4
  <1>6. CASE InitServo
    <2>1. \A s \in Servo : NoMore(Elapsed(now, last[s]), s)'
      BY <1>5, <1>6 DEF InitServo
    <2> QED BY <1>6, <2>1 DEF InitServo, NextServo
  <1>7. CASE Delta
    <2>0. now \in Clock /\ last[i] \in Clock
      BY DEF Clock
    <2>1. Elapsed(now, last[i]) \in Nat
      BY ONLY <2>0, ClockDifference, ClockIsNat
    <2>2. Kept(Elapsed(now, last[i])) <= Elapsed(now, last[i])
          /\ Kept(Elapsed(now, last[i])) \in Int
      BY <2>1, KeptNoMore
    <2>3. NoMore(Kept(Elapsed(now, last[i])), i)
      <3>1. since[i] \in Int /\ NoMore(Elapsed(now, last[i]), i)
        BY <1>7 DEF Delta
      <3> QED BY <2>1, <2>2, <3>1
    <2>4. NoMore(delta, i)'
      BY <1>7, <2>3 DEF Delta, Goto, servo
    <2> QED BY <1>7, <2>4 DEF Delta, Goto, servo
  <1>8. CASE LoadTarget \/ LoadDelay
    BY <1>8 DEF LoadTarget, LoadDelay, Goto, servo
  <1>9. CASE Stay
    BY <1>9, NextServoType DEF Stay, NextServo, servo
  <1>10. CASE Move
    BY <1>10 DEF Move, Goto
  <1>11. CASE Stamp
    <2>1. \A s \in Servo : NoMore(Elapsed(now, last[s]), s)'
      BY <1>5, <1>11 DEF Stamp, TimeOf
    <2> QED BY <1>11, <2>1 DEF Stamp, NextServo
  <1>12. CASE UNCHANGED vars
    BY <1>12 DEF vars
  <1> QED BY <1>1, <1>2, <1>3, <1>4, <1>6, <1>7, <1>8, <1>9, <1>10, <1>11, <1>12
          DEF Next, Main

LEMMA ServoInvariant == Spec => []ServoInv
  <1>1. ServoInv /\ [Next]_vars => ServoInv'
    BY ServoType, ServoTime DEF ServoInv
  <1> QED BY ServoInit, <1>1, PTL DEF Spec

-----------------------------------------------------------------------------
(* The theorems.                                                           *)

\* The bytes stay bytes and the clock a clock, whatever the commands ask for.
THEOREM ServoTypeCorrect == Spec => []TypeOK
  BY ServoInvariant, PTL DEF ServoInv

\* But for initServo only moveServo turns a servo.
LEMMA OnlyMoveTurns ==
    ASSUME TypeOK, [Next]_vars, pc # "angle", NEW s \in Servo, pos'[s] # pos[s]
    PROVE  Move /\ s = i
  BY DEF TypeOK, Next, Main, vars, servo, main, SetTargetPos, HostDies, Tick,
         InitDelay, InitServo, Delta, LoadTarget, LoadDelay, Stay, Move, Stamp

\* A servo goes a degree at a time, never past the targets it has looked at and
\* never from one end of the byte to the other, but where a command to the base
\* that came between the two looks asked for the angle the servo was at.
THEOREM ServoOneDegree == Spec => OneDegree
  <1> DEFINE Turned(s) ==
        \/ \E t \in {seen.target, target[s]} : Towards(pos[s], pos'[s], t)
        \/ /\ target[s] = pos[s] /\ seen.target # pos[s]
           /\ pos'[s] = Cut(pos[s] - 1)
  <1>1. ServoInv /\ [Next]_vars =>
          [pc # "angle" => \A s \in Servo : pos'[s] # pos[s] => Turned(s)]_vars
    <2> SUFFICES ASSUME ServoInv, [Next]_vars, pc # "angle",
                        NEW s \in Servo, pos'[s] # pos[s]
                 PROVE  Turned(s)
      OBVIOUS
    <2>1. Move /\ s = i
      BY OnlyMoveTurns DEF ServoInv
    <2>2. pos[s] \in Angle /\ seen.target \in Angle /\ target[s] \in Angle
      BY DEF ServoInv, TypeOK
    <2>3. Base => pos[s] # seen.target
      BY <2>1 DEF Move, Due
    <2>4. PICK t \in {seen.target, target[s]} : pos'[s] = Degree(pos[s], t)
      BY <2>1 DEF ServoInv, TypeOK, Move
    <2>5. pos[s] \in Int /\ seen.target \in Int /\ target[s] \in Int
      BY <2>2, BytesAreAngles
    <2>6. CASE pos[s] # t
      <3>1. Towards(pos[s], pos'[s], t)
        BY <2>2, <2>4, <2>5, <2>6, DegreeTurns DEF Towards
      <3> QED BY <3>1
    <2>7. CASE pos[s] = t
      <3>1. Base /\ pos'[s] = Cut(pos[s] - 1)
        BY <2>2, <2>4, <2>7, DegreeTurns
      <3> QED BY <2>3, <2>4, <2>7, <3>1
    <2> QED BY <2>6, <2>7
  <1> QED BY <1>1, ServoInvariant, PTL DEF OneDegree, Spec

\* Two degrees of a servo are more than its step delay apart, on any clock.
THEOREM ServoPaced == Spec => Paced
  <1>1. ServoInv /\ [Next]_vars =>
          [pc # "angle" =>
             \A s \in Servo : pos'[s] # pos[s] => since[s] > seen.delay]_vars
    <2> SUFFICES ASSUME ServoInv, [Next]_vars, pc # "angle",
                        NEW s \in Servo, pos'[s] # pos[s]
                 PROVE  since[s] > seen.delay
      OBVIOUS
    <2>1. Move /\ s = i
      BY OnlyMoveTurns DEF ServoInv
    <2>2. since[s] \in Int /\ seen.delay \in Int /\ delta \in Int
      BY ServoAssumption DEF ServoInv, TypeOK
    <2> QED BY <2>1, <2>2, ServoAssumption DEF ServoInv, TimeInv, NoMore, Move, Due
  <1> QED BY <1>1, ServoInvariant, PTL DEF Paced, Spec
=============================================================================
