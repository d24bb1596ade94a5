--------------------------- MODULE WheelPIDProofs ---------------------------
(***************************************************************************)
(* Proofs about WheelPID, for every number of wheels, counter width, power *)
(* limit, parameter set and target.                                        *)
(***************************************************************************)
EXTENDS WheelPID, TLAPS

-----------------------------------------------------------------------------
(* Arithmetic.                                                             *)

\* Two's complement keeps a sum or difference of two counters a counter.
LEMMA WrapIsCounter ==
    ASSUME NEW x \in Int, -2 * HalfRange < x, x < 2 * HalfRange
    PROVE  Wrap(x) \in Counter
  BY RangeAssumption DEF Wrap, Counter

\* A limited value is within the limits.
LEMMA ClampInRange ==
    ASSUME NEW x \in Int
    PROVE  Clamp(x) \in -MAX_PWM..MAX_PWM
  BY RangeAssumption DEF Clamp

\* Rounding division yields an integer.
LEMMA CDivIsInt ==
    ASSUME NEW a \in Int, NEW b \in Nat
    PROVE  CDiv(a, b) \in Int
  BY DEF CDiv

\* A counter that has counted is a counter.
LEMMA CountIsCounter ==
    ASSUME NEW e \in Counter, NEW by \in {1, -1}
    PROVE  Wrap(e + by) \in Counter
  BY RangeAssumption DEF Wrap, Counter

\* One more interrupt is one more tick, wherever the counter wraps.
LEMMA CountedOnce ==
    ASSUME NEW e \in Counter, NEW p \in Counter, NEW n \in -MaxTicks..MaxTicks,
           NEW by \in {1, -1}, n + by \in -MaxTicks..MaxTicks,
           Wrap(e - p) = n
    PROVE  Wrap(Wrap(e + by) - p) = n + by
  BY RangeAssumption DEF Wrap, Counter

-----------------------------------------------------------------------------
(* The invariant: types, the range of the power, and the tracked counts.   *)

PidInv == TypeOK /\ OutputInRange /\ TrackedTicks

\* Zero is a value of every variable that is a number.
LEMMA AllZeroTypes ==
    /\ AllZero \in [Wheel -> Int] /\ AllZero \in [Wheel -> Counter]
    /\ AllZero \in [Wheel -> -MaxTicks..MaxTicks]
    /\ AllZero \in [Wheel -> -MAX_PWM..MAX_PWM]
    /\ \A w \in Wheel : AllZero[w] = 0
    /\ Wrap(0 - 0) = 0
  BY RangeAssumption DEF AllZero, Counter, Wrap

LEMMA PidInit == Init => PidInv
  <1> SUFFICES ASSUME Init PROVE PidInv
    OBVIOUS
  <1>1. TypeOK
    <2>1. forward \in [Wheel -> BOOLEAN]
      BY DEF Init
    <2> QED BY <2>1, AllZeroTypes DEF Init, TypeOK
  <1>2. OutputInRange
    BY AllZeroTypes DEF Init, OutputInRange
  <1>3. TrackedTicks
    BY AllZeroTypes DEF Init, TrackedTicks, FrameTicks
  <1> QED BY <1>1, <1>2, <1>3 DEF PidInv

\* The measurements and results of a frame are integers.
LEMMA FrameTypes ==
    ASSUME TypeOK, NEW w \in Wheel
    PROVE  /\ FrameTicks(w) \in Counter
           /\ FrameTicks(w) \in Int
           /\ Increment(w) \in Int
           /\ NewOutput(w) \in -MAX_PWM..MAX_PWM
           /\ NewITerm(w) \in Int
  <1>1. FrameTicks(w) \in Counter
    <2>1. enc[w] \in Counter /\ prevEnc[w] \in Counter
      BY DEF TypeOK
    <2>2. /\ enc[w] - prevEnc[w] \in Int
          /\ -2 * HalfRange < enc[w] - prevEnc[w]
          /\ enc[w] - prevEnc[w] < 2 * HalfRange
      BY <2>1, RangeAssumption DEF Counter
    <2> QED BY <2>2, WrapIsCounter DEF FrameTicks
  <1>2. FrameTicks(w) \in Int
    BY <1>1, RangeAssumption DEF Counter
  <1>3. /\ target[w] \in Int /\ prevFrame[w] \in Int
        /\ iTerm[w] \in Int /\ outputPWM[w] \in Int
    BY DEF TypeOK
  <1>4. gain[w] \in Gains
    BY DEF TypeOK
  <1>5. /\ gain[w].kp \in Nat /\ gain[w].kd \in Nat /\ gain[w].ki \in Nat
        /\ gain[w].ko \in Nat
    BY <1>4, HostAssumption
  <1>6. Increment(w) \in Int
    <2> DEFINE a == gain[w].kp * (target[w] - FrameTicks(w))
                      - gain[w].kd * (FrameTicks(w) - prevFrame[w]) + iTerm[w]
    <2>1. a \in Int
      BY <1>2, <1>3, <1>5
    <2>2. Increment(w) = CDiv(a, gain[w].ko)
      BY DEF Increment
    <2> HIDE DEF a
    <2> QED BY <2>1, <2>2, <1>5, CDivIsInt
  <1>7. NewOutput(w) \in -MAX_PWM..MAX_PWM
    BY <1>3, <1>6, ClampInRange DEF NewOutput
  <1>8. NewITerm(w) \in Int
    <2>1. gain[w].ki * (target[w] - FrameTicks(w)) \in Int
      BY <1>2, <1>3, <1>5
    <2> QED BY <2>1, <1>3 DEF NewITerm
  <1> QED BY <1>1, <1>2, <1>6, <1>7, <1>8

LEMMA CountStep ==
    ASSUME PidInv, NEW w \in Wheel, Count(w)
    PROVE  PidInv'
  <1> DEFINE by == IF forward[w] THEN 1 ELSE -1
  <1>0. by \in {1, -1} /\ by \in Int
    OBVIOUS
  <1>1. /\ frame[w] + by \in -MaxTicks..MaxTicks
        /\ enc' = [enc EXCEPT ![w] = Wrap(@ + by)]
        /\ frame' = [frame EXCEPT ![w] = @ + by]
        /\ UNCHANGED <<moving, target, prevEnc, prevFrame, iTerm, outputPWM,
                       gain, forward, tracked>>
    BY DEF Count, pidVars
  <1> HIDE DEF by
  <1>2. \A v \in Wheel : enc[v] \in Counter /\ prevEnc[v] \in Counter
                         /\ frame[v] \in -MaxTicks..MaxTicks
    BY DEF PidInv, TypeOK
  <1>3. Wrap(enc[w] + by) \in Counter
    BY <1>0, <1>2, CountIsCounter
  <1>4. TypeOK'
    BY <1>1, <1>3 DEF PidInv, TypeOK
  <1>5. OutputInRange'
    BY <1>1 DEF PidInv, OutputInRange
  <1>6. TrackedTicks'
    <2> SUFFICES ASSUME NEW v \in tracked PROVE FrameTicks(v)' = frame'[v]
      BY <1>1 DEF TrackedTicks
    <2>1. v \in Wheel /\ FrameTicks(v) = frame[v]
      BY DEF PidInv, TypeOK, TrackedTicks
    <2>2. CASE v = w
      <3>1. enc'[w] = Wrap(enc[w] + by) /\ frame'[w] = frame[w] + by
        BY <1>1 DEF PidInv, TypeOK
      <3>2. Wrap(enc[w] - prevEnc[w]) = frame[w]
        BY <2>1, <2>2 DEF FrameTicks
      <3>3. Wrap(Wrap(enc[w] + by) - prevEnc[w]) = frame[w] + by
        BY <3>2, <1>0, <1>1, <1>2, CountedOnce
      <3> QED BY <2>2, <3>1, <3>3, <1>1 DEF FrameTicks
    <2>3. CASE v # w
      <3>1. enc'[v] = enc[v] /\ frame'[v] = frame[v]
        BY <1>1, <2>1, <2>3 DEF PidInv, TypeOK
      <3> QED BY <2>1, <3>1, <1>1 DEF FrameTicks
    <2> QED BY <2>2, <2>3
  <1> QED BY <1>4, <1>5, <1>6 DEF PidInv

LEMMA CommandStep ==
    ASSUME PidInv,
           \/ \E t \in [Wheel -> Targets] : Move(t)
           \/ Stop \/ AutoStop \/ ResetEncoders \/ EnergyMode
           \/ \E g \in [Wheel -> Gains] : UpdatePID(g)
    PROVE  PidInv'
  <1>1. 0 \in -MAX_PWM..MAX_PWM
    BY RangeAssumption
  <1> USE <1>1, AllZeroTypes
      DEF PidInv, TypeOK, OutputInRange, TrackedTicks, FrameTicks, pidVars
  <1>2. ASSUME NEW t \in [Wheel -> Targets], Move(t) PROVE PidInv'
    <2>1. t \in [Wheel -> Int]
      BY HostAssumption
    <2> QED BY <1>2, <2>1 DEF Move
  <1>3. CASE Stop
    BY <1>3 DEF Stop, ResetPIDObjParam
  <1>4. CASE AutoStop
    BY <1>4 DEF AutoStop
  <1>5. CASE ResetEncoders
    BY <1>5 DEF ResetEncoders, ResetPIDObjParam
  <1>6. CASE EnergyMode
    BY <1>6 DEF EnergyMode
  <1>7. ASSUME NEW g \in [Wheel -> Gains], UpdatePID(g) PROVE PidInv'
    BY <1>7 DEF UpdatePID
  <1> QED BY <1>2, <1>3, <1>4, <1>5, <1>6, <1>7

LEMMA RunFrameStep ==
    ASSUME PidInv, RunFrame
    PROVE  PidInv'
  <1>1. \A w \in Wheel : /\ FrameTicks(w) \in Int
                         /\ NewOutput(w) \in -MAX_PWM..MAX_PWM
                         /\ NewOutput(w) \in Int
                         /\ NewITerm(w) \in Int
    BY FrameTypes, RangeAssumption DEF PidInv
  <1>2. 0 \in -MAX_PWM..MAX_PWM
    BY RangeAssumption
  <1>3. TypeOK'
    <2>1. prevEnc' \in [Wheel -> Counter] /\ prevFrame' \in [Wheel -> Int]
      BY <1>1 DEF RunFrame, PidInv, TypeOK
    <2>2. iTerm' \in [Wheel -> Int] /\ outputPWM' \in [Wheel -> Int]
      BY <1>1 DEF RunFrame, PidInv, TypeOK
    <2>3. forward' \in [Wheel -> BOOLEAN]
      <3>1. \A w \in Wheel : (outputPWM'[w] > 0) \in BOOLEAN
        OBVIOUS
      <3>2. \A w \in Wheel : forward[w] \in BOOLEAN
        BY DEF PidInv, TypeOK
      <3> QED BY <3>1, <3>2 DEF RunFrame
    <2>4. tracked' \subseteq Wheel
      BY DEF RunFrame, Turning
    <2> QED BY <2>1, <2>2, <2>3, <2>4, AllZeroTypes DEF RunFrame, PidInv, TypeOK
  <1>4. OutputInRange'
    BY <1>1, <1>2 DEF RunFrame, OutputInRange
  <1>5. TrackedTicks'
    <2> SUFFICES ASSUME NEW w \in Turning PROVE FrameTicks(w)' = frame'[w]
      BY DEF RunFrame, TrackedTicks
    <2>1. w \in Wheel
      BY DEF Turning
    <2>2. enc'[w] = enc[w] /\ prevEnc'[w] = enc[w] /\ enc[w] \in Int
      BY <2>1, RangeAssumption DEF RunFrame, PidInv, TypeOK, Counter
    <2>3. Wrap(enc'[w] - prevEnc'[w]) = 0
      BY <2>2, RangeAssumption DEF Wrap
    <2> QED BY <2>1, <2>3, AllZeroTypes DEF FrameTicks, RunFrame
  <1> QED BY <1>3, <1>4, <1>5 DEF PidInv

LEMMA IdleFrameStep ==
    ASSUME PidInv, IdleFrame
    PROVE  PidInv'
  <1>1. TypeOK'
    BY AllZeroTypes DEF IdleFrame, Followed, PidInv, TypeOK
  <1>2. OutputInRange'
    BY AllZeroTypes, RangeAssumption DEF IdleFrame, PidInv, OutputInRange
  <1>3. TrackedTicks'
    <2> SUFFICES ASSUME NEW w \in Wheel PROVE FrameTicks(w)' = frame'[w]
      BY DEF IdleFrame, TrackedTicks
    <2>1. enc'[w] = enc[w] /\ prevEnc'[w] = enc[w] /\ enc[w] \in Int
      BY RangeAssumption DEF IdleFrame, Followed, PidInv, TypeOK, Counter
    <2>2. Wrap(enc'[w] - prevEnc'[w]) = 0
      BY <2>1, RangeAssumption DEF Wrap
    <2> QED BY <2>2, AllZeroTypes DEF FrameTicks, IdleFrame
  <1> QED BY <1>1, <1>2, <1>3 DEF PidInv

LEMMA PidNext == PidInv /\ [Next]_vars => PidInv'
  <1> SUFFICES ASSUME PidInv, [Next]_vars PROVE PidInv'
    OBVIOUS
  <1>1. ASSUME NEW w \in Wheel, Count(w) PROVE PidInv'
    BY <1>1, CountStep
  <1>2. CASE RunFrame
    BY <1>2, RunFrameStep
  <1>3. CASE IdleFrame
    BY <1>3, IdleFrameStep
  <1>4. CASE UNCHANGED vars
    BY <1>4
    DEF PidInv, TypeOK, OutputInRange, TrackedTicks, FrameTicks, vars, pidVars
  <1> QED BY <1>1, <1>2, <1>3, <1>4, CommandStep DEF Next

LEMMA PidInvariant == Spec => []PidInv
  BY PidInit, PidNext, PTL DEF Spec

\* The types of the controllers.
THEOREM PidTypeCorrect == Spec => []TypeOK
  <1>1. PidInv => TypeOK
    BY DEF PidInv
  <1> QED BY <1>1, PidInvariant, PTL

\* No parameters, targets or counts make a controller ask for more power than
\* the byte of driveMotor holds.
THEOREM PidOutputInRange == Spec => []OutputInRange
  <1>1. PidInv => OutputInRange
    BY DEF PidInv
  <1> QED BY <1>1, PidInvariant, PTL

\* The controllers measure what the interrupts of the frame counted, however
\* often the counter has wrapped.
THEOREM PidTrackedTicks == Spec => []TrackedTicks
  <1>1. PidInv => TrackedTicks
    BY DEF PidInv
  <1> QED BY <1>1, PidInvariant, PTL

\* Anti-windup: no frame that leaves a wheel at a limit of its power moves
\* the wheel's integral.
THEOREM PidNoWindup == Spec => NoWindup
  <1> DEFINE A(w) == iTerm'[w] # iTerm[w] =>
                 iTerm' = AllZero \/ outputPWM'[w] \in (1 - MAX_PWM)..(MAX_PWM - 1)
  <1>1. PidInv /\ [Next]_vars => [\A w \in Wheel : A(w)]_vars
    <2> SUFFICES ASSUME PidInv, Next, NEW w \in Wheel PROVE A(w)
      OBVIOUS
    <2>1. CASE RunFrame
      <3>1. iTerm'[w] # iTerm[w] => w \in Turning /\ NewITerm(w) # iTerm[w]
        BY <2>1 DEF RunFrame, PidInv, TypeOK
      <3>2. NewITerm(w) # iTerm[w] =>
              NewOutput(w) \in (1 - MAX_PWM)..(MAX_PWM - 1)
        <4>1. outputPWM[w] \in Int /\ Increment(w) \in Int
          BY FrameTypes DEF PidInv, TypeOK
        <4> QED BY <4>1, RangeAssumption DEF NewITerm, NewOutput, Clamp
      <3>3. w \in Turning => outputPWM'[w] = NewOutput(w)
        BY <2>1 DEF RunFrame
      <3> QED BY <3>1, <3>2, <3>3
    <2>2. ASSUME \/ \E v \in Wheel : Count(v)
                 \/ \E t \in [Wheel -> Targets] : Move(t)
                 \/ AutoStop \/ EnergyMode
                 \/ \E g \in [Wheel -> Gains] : UpdatePID(g)
          PROVE  A(w)
      BY <2>2 DEF Count, Move, AutoStop, EnergyMode, UpdatePID, pidVars
    <2>3. CASE Stop \/ ResetEncoders \/ IdleFrame
      BY <2>3 DEF Stop, ResetEncoders, IdleFrame, ResetPIDObjParam
    <2> QED BY <2>1, <2>2, <2>3 DEF Next
  <1> QED BY <1>1, PidInvariant, PTL DEF Spec, NoWindup

-----------------------------------------------------------------------------
(* Refinement of the frames.                                               *)

LEMMA PidFramesInit == Init => Frames!Init
  <1>1. \A w \in Wheel : AllZero[w] = 0
    BY AllZeroTypes
  <1> QED BY <1>1 DEF Init, Frames!Init, Turning, NotZero

\* Resetting the controllers leaves nothing that is not zero.
LEMMA ResetForgets ==
    ASSUME target' = AllZero, prevFrame' = AllZero, outputPWM' = AllZero
    PROVE  Turning' = {} /\ NotZero(outputPWM)' = {} /\ NotZero(prevFrame)' = {}
  <1>1. \A w \in Wheel : AllZero[w] = 0
    BY AllZeroTypes
  <1> QED BY <1>1 DEF Turning, NotZero

LEMMA MoveIsAsked ==
    ASSUME NEW t \in [Wheel -> Targets], t # AllZero
    PROVE  \E w \in Wheel : t[w] # 0
  BY DEF AllZero

LEMMA PidFramesStep ==
    ASSUME TypeOK, Next
    PROVE  [Frames!Next]_(Frames!vars)
  <1> USE DEF Frames!Next, Frames!vars, Frames!wheels, Frames!BetweenFrames,
              Frames!Forget, pidVars
  <1>1. ASSUME NEW w \in Wheel, Count(w) PROVE UNCHANGED Frames!vars
    BY <1>1 DEF Count, Turning, NotZero
  <1>2. ASSUME NEW t \in [Wheel -> Targets], Move(t) PROVE Frames!Move
    <2>1. moving' = TRUE /\ target' = t /\ UNCHANGED <<prevFrame, outputPWM>>
      BY <1>2 DEF Move
    <2>2. Turning' \in (SUBSET Wheel) \ {{}}
      <3>1. PICK w \in Wheel : t[w] # 0
        BY <1>2, MoveIsAsked DEF Move
      <3> QED BY <2>1, <3>1 DEF Turning
    <2> QED BY <2>1, <2>2 DEF Frames!Move, NotZero
  <1>3. CASE Stop
    BY <1>3, ResetForgets DEF Stop, ResetPIDObjParam, Frames!Halt
  <1>4. CASE AutoStop
    BY <1>4 DEF AutoStop, Frames!Expire, Turning, NotZero
  <1>5. CASE ResetEncoders
    BY <1>5, ResetForgets DEF ResetEncoders, ResetPIDObjParam, Frames!Reset
  <1>6. CASE EnergyMode
    BY <1>6 DEF EnergyMode, Turning, NotZero
  <1>7. ASSUME NEW g \in [Wheel -> Gains], UpdatePID(g) PROVE UNCHANGED Frames!vars
    BY <1>7 DEF UpdatePID, Turning, NotZero
  <1>8. CASE RunFrame
    <2>1. /\ moving /\ UNCHANGED <<moving, target>>
          /\ prevFrame' = [w \in Wheel |-> IF w \in Turning THEN FrameTicks(w)
                                           ELSE prevFrame[w]]
          /\ outputPWM' = [w \in Wheel |-> IF w \in Turning THEN NewOutput(w) ELSE 0]
      BY <1>8 DEF RunFrame
    <2>2. Turning' = Turning
      BY <2>1 DEF Turning
    <2>3. NotZero(outputPWM)' \subseteq Turning /\ Turning \subseteq Wheel
      BY <2>1 DEF NotZero, Turning
    <2>4. NotZero(prevFrame)' \ Turning = NotZero(prevFrame) \ Turning
      BY <2>1 DEF NotZero
    <2>5. Wheel \in (SUBSET Wheel) \ {{}}
      BY RangeAssumption DEF Wheel
    <2>6. NotZero(outputPWM)' \ Wheel = NotZero(outputPWM) \ Wheel
      BY DEF NotZero
    <2> QED BY <2>1, <2>2, <2>3, <2>4, <2>5, <2>6 DEF Frames!Run, Frames!Due
  <1>9. CASE IdleFrame
    <2>1. CASE \E w \in Wheel : prevFrame[w] # 0
      <3>1. NotZero(prevFrame) # {}
        BY <2>1 DEF NotZero
      <3> QED BY <1>9, <2>1, <3>1, ResetForgets DEF IdleFrame, Frames!Idle
    <2>2. CASE ~ \E w \in Wheel : prevFrame[w] # 0
      BY <1>9, <2>2 DEF IdleFrame, Turning, NotZero
    <2> QED BY <2>1, <2>2
  <1> QED
    BY <1>1, <1>2, <1>3, <1>4, <1>5, <1>6, <1>7, <1>8, <1>9 DEF Next

\* Whatever the parameters, the counts and the width of the counters, the
\* controllers keep to the rules with which BaseLoop replaces them.
THEOREM PidImplementsWheelFrames == Spec => ImplementsWheelFrames
  <1>1. PidInv /\ [Next]_vars => [Frames!Next]_(Frames!vars)
    <2> SUFFICES ASSUME PidInv, [Next]_vars PROVE [Frames!Next]_(Frames!vars)
      OBVIOUS
    <2>1. CASE Next
      BY <2>1, PidFramesStep DEF PidInv
    <2>2. CASE UNCHANGED vars
      BY <2>2 DEF vars, pidVars, Frames!vars, Frames!wheels, Turning, NotZero
    <2> QED BY <2>1, <2>2
  <1> QED
    BY <1>1, PidFramesInit, PidInvariant, PTL
    DEF Spec, ImplementsWheelFrames, Frames!Spec
=============================================================================
