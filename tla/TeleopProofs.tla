----------------------------- MODULE TeleopProofs -----------------------------
(***************************************************************************)
(* Proofs about Teleop, for all velocities and steps its assumption allows.*)
(***************************************************************************)
EXTENDS Teleop, TLAPS

-----------------------------------------------------------------------------
(* Arithmetic.                                                             *)

\* A tenth more or less of a velocity is one.
LEMMA ScaleIsNat ==
    ASSUME NEW v \in Nat, NEW k \in {9, 10, 11}
    PROVE  (v * k) \div 10 \in Nat
  <1>1. CASE k = 9
    BY <1>1
  <1>2. CASE k = 10
    BY <1>2
  <1>3. CASE k = 11
    BY <1>3
  <1> QED BY <1>1, <1>2, <1>3

\* A selected velocity in a direction.
LEMMA DirectedIsVelocity ==
    ASSUME NEW v \in 0..MaxVel, NEW d \in -1..1
    PROVE  v * d \in Velocity /\ v * d \in (-v)..v
  <1>1. CASE d = -1
    BY <1>1, TeleopAssumption DEF Velocity
  <1>2. CASE d = 0
    BY <1>2, TeleopAssumption DEF Velocity
  <1>3. CASE d = 1
    BY <1>3, TeleopAssumption DEF Velocity
  <1> QED BY <1>1, <1>2, <1>3

\* A ramp goes at most a step, and no further than its target.
LEMMA RampGoesThere ==
    ASSUME NEW t \in Velocity, NEW c \in Velocity, NEW step \in Nat \ {0}
    PROVE  /\ Ramp(t, c, step) \in Velocity
           /\ Ramp(t, c, step) - c \in (-step)..step
           /\ Ramp(t, c, step) > c => Ramp(t, c, step) <= t
           /\ Ramp(t, c, step) < c => Ramp(t, c, step) >= t
  BY TeleopAssumption DEF Ramp, Velocity

\* A change towards a target of at most s does not pass s.
LEMMA TowardsIsWithin ==
    ASSUME NEW s \in Nat, NEW t \in (-s)..s, NEW v \in Int, NEW c \in Int,
           c > v => c <= t, c < v => c >= t
    PROVE  (c > v => c <= s) /\ (c < v => -c <= s)
  OBVIOUS

-----------------------------------------------------------------------------
(* The invariant.                                                          *)

\* While the loop runs, the ramped velocities are what was published.
TeleopInv ==
    /\ TypeOK
    /\ running => pub = [linear |-> controlSpeed, angular |-> controlTurn]

\* What a turn of the loop that ramps from <<v, w>> publishes.
LEMMA PublishRamps ==
    ASSUME NEW v \in Velocity, NEW w \in Velocity, Publish(v, w),
           x' \in -1..1, th' \in -1..1, speed' \in 0..MaxVel, turn' \in 0..MaxVel
    PROVE  /\ controlSpeed' \in Velocity /\ controlTurn' \in Velocity
           /\ pub' = [linear |-> controlSpeed', angular |-> controlTurn']
           /\ controlSpeed' - v \in (-SpeedStep)..SpeedStep
           /\ controlTurn' - w \in (-TurnStep)..TurnStep
           /\ controlSpeed' > v => controlSpeed' <= speed'
           /\ controlSpeed' < v => -controlSpeed' <= speed'
           /\ controlTurn' > w => controlTurn' <= turn'
           /\ controlTurn' < w => -controlTurn' <= turn'
  <1> DEFINE t == speed' * x'
             u == turn' * th'
  <1>1. t \in Velocity /\ t \in (-speed')..speed'
    BY DirectedIsVelocity
  <1>2. u \in Velocity /\ u \in (-turn')..turn'
    BY DirectedIsVelocity
  <1>3. controlSpeed' = Ramp(t, v, SpeedStep) /\ controlTurn' = Ramp(u, w, TurnStep)
    BY DEF Publish, AngularStep
  <1> HIDE DEF t, u
  <1>4. /\ controlSpeed' \in Velocity /\ controlSpeed' - v \in (-SpeedStep)..SpeedStep
        /\ controlSpeed' > v => controlSpeed' <= t
        /\ controlSpeed' < v => controlSpeed' >= t
    BY <1>1, <1>3, RampGoesThere, TeleopAssumption
  <1>5. /\ controlTurn' \in Velocity /\ controlTurn' - w \in (-TurnStep)..TurnStep
        /\ controlTurn' > w => controlTurn' <= u
        /\ controlTurn' < w => controlTurn' >= u
    BY <1>2, <1>3, RampGoesThere, TeleopAssumption
  <1>6. pub' = [linear |-> controlSpeed', angular |-> controlTurn']
    BY DEF Publish, AngularStep
  <1>7. /\ controlSpeed' > v => controlSpeed' <= speed'
        /\ controlSpeed' < v => -controlSpeed' <= speed'
    <2>1. speed' \in Nat /\ v \in Int /\ controlSpeed' \in Int
      BY <1>4, TeleopAssumption DEF Velocity
    <2> QED BY <1>1, <1>4, <2>1, TowardsIsWithin
  <1>8. /\ controlTurn' > w => controlTurn' <= turn'
        /\ controlTurn' < w => -controlTurn' <= turn'
    <2>1. turn' \in Nat /\ w \in Int /\ controlTurn' \in Int
      BY <1>5, TeleopAssumption DEF Velocity
    <2> QED BY <1>2, <1>5, <2>1, TowardsIsWithin
  <1> QED BY <1>4, <1>5, <1>6, <1>7, <1>8

\* The inputs of that turn: the velocities ramped from and what the key did.
LEMMA TurnInputs ==
    ASSUME TeleopInv,
           \/ \E b \in moveBindings : MoveKey(b)
           \/ \E b \in speedBindings : SpeedKey(b)
           \/ NoKey
    PROVE  /\ x' \in -1..1 /\ th' \in -1..1
           /\ speed' \in 0..MaxVel /\ turn' \in 0..MaxVel
           /\ count' \in 0..5 /\ running /\ running' /\ hands' \in BOOLEAN
           /\ Publish(pub.linear, pub.angular)
           /\ pub.linear \in Velocity /\ pub.angular \in Velocity
  <1> USE DEF TeleopInv, TypeOK
  <1>1. ASSUME NEW b \in moveBindings, MoveKey(b)
        PROVE  /\ x' \in -1..1 /\ th' \in -1..1 /\ count' \in 0..5
               /\ speed' = speed /\ turn' = turn
               /\ running /\ running' /\ hands' = hands
               /\ Publish(controlSpeed, controlTurn)
    BY <1>1 DEF MoveKey, moveBindings
  <1>2. ASSUME NEW b \in speedBindings, SpeedKey(b)
        PROVE  /\ speed' \in 0..MaxVel /\ turn' \in 0..MaxVel
               /\ x' = x /\ th' = th /\ count' \in 0..5
               /\ running /\ running' /\ hands' = hands
               /\ Publish(controlSpeed, controlTurn)
    <2>1. b[1] \in {9, 10, 11} /\ b[2] \in {9, 10, 11}
      BY DEF speedBindings
    <2>2. (speed * b[1]) \div 10 \in Nat /\ (turn * b[2]) \div 10 \in Nat
      BY <2>1, ScaleIsNat, TeleopAssumption
    <2> QED BY <1>2, <2>2, TeleopAssumption DEF SpeedKey
  <1>3. ASSUME NoKey
        PROVE  /\ x' \in -1..1 /\ th' \in -1..1 /\ count' \in 0..5
               /\ speed' = speed /\ turn' = turn
               /\ running /\ running' /\ hands' = hands
               /\ Publish(controlSpeed, controlTurn)
    BY <1>3 DEF NoKey, Counted
  <1> QED BY <1>1, <1>2, <1>3

\* A stop key publishes a message to stand still.
LEMMA StopStands ==
    ASSUME TeleopInv, StopKey
    PROVE  /\ pub' = Still /\ controlSpeed' = 0 /\ controlTurn' = 0
           /\ x' = 0 /\ th' = 0
  <1>1. speed' * x' = 0 /\ turn' * th' = 0 /\ x' = 0 /\ th' = 0
    <2>1. speed \in Int /\ turn \in Int
      BY TeleopAssumption DEF TeleopInv, TypeOK
    <2> QED BY <2>1 DEF StopKey
  <1>2. controlSpeed' = Ramp(0, 0, SpeedStep) /\ controlTurn' = Ramp(0, 0, TurnStep)
    BY <1>1 DEF StopKey, Publish, AngularStep
  <1>3. controlSpeed' = 0 /\ controlTurn' = 0
    BY <1>2 DEF Ramp
  <1> QED BY <1>1, <1>3 DEF StopKey, Publish, AngularStep, Still

LEMMA TeleopInit == Init => TeleopInv
  BY TeleopAssumption DEF Init, TeleopInv, TypeOK, Still, Velocity

LEMMA TeleopNext == TeleopInv /\ [Next]_vars => TeleopInv'
  <1> SUFFICES ASSUME TeleopInv, [Next]_vars PROVE TeleopInv'
    OBVIOUS
  <1>0. 0 \in Velocity
    BY TeleopAssumption DEF Velocity
  <1>1. CASE \/ \E b \in moveBindings : MoveKey(b)
             \/ \E b \in speedBindings : SpeedKey(b)
             \/ NoKey
    <2>1. /\ x' \in -1..1 /\ th' \in -1..1
          /\ speed' \in 0..MaxVel /\ turn' \in 0..MaxVel
          /\ count' \in 0..5 /\ running' /\ hands' \in BOOLEAN
          /\ Publish(pub.linear, pub.angular)
          /\ pub.linear \in Velocity /\ pub.angular \in Velocity
      BY <1>1, TurnInputs
    <2>2. /\ controlSpeed' \in Velocity /\ controlTurn' \in Velocity
          /\ pub' = [linear |-> controlSpeed', angular |-> controlTurn']
      BY <2>1, PublishRamps
    <2>3. running' \in BOOLEAN
      BY <1>1 DEF TeleopInv, TypeOK, MoveKey, SpeedKey, NoKey, Counted
    <2> QED BY <2>1, <2>2, <2>3 DEF TeleopInv, TypeOK
  <1>2. CASE StopKey
    BY <1>0, <1>2, StopStands DEF TeleopInv, TypeOK, StopKey, Still
  <1>3. CASE Quit
    BY <1>0, <1>3 DEF TeleopInv, TypeOK, Quit, Still
  <1>4. CASE HandsOff
    BY <1>4 DEF TeleopInv, TypeOK, HandsOff
  <1>5. CASE UNCHANGED vars
    BY <1>5 DEF TeleopInv, TypeOK, vars
  <1> QED BY <1>1, <1>2, <1>3, <1>4, <1>5 DEF Next

LEMMA TeleopInvariant == Spec => []TeleopInv
  BY TeleopInit, TeleopNext, PTL DEF Spec

-----------------------------------------------------------------------------
(* The theorems.                                                           *)

\* Everything published stays within the velocities that can be selected.
THEOREM TeleopTypeCorrect == Spec => []TypeOK
  BY TeleopInvariant, PTL DEF TeleopInv

\* No message differs from the one before by more than a step of the ramps,
\* but one to stand still that a stop key or the end of the program sends.
THEOREM TeleopRamped == Spec => Ramped
  <1>1. TeleopInv /\ [Next]_vars =>
          [\/ /\ pub'.linear  - pub.linear  \in (-SpeedStep)..SpeedStep
              /\ pub'.angular - pub.angular \in (-TurnStep)..TurnStep
           \/ pub' = Still /\ (StopKey \/ Quit)]_vars
    <2> SUFFICES ASSUME TeleopInv, Next
                 PROVE  \/ /\ pub'.linear  - pub.linear  \in (-SpeedStep)..SpeedStep
                           /\ pub'.angular - pub.angular \in (-TurnStep)..TurnStep
                        \/ pub' = Still /\ (StopKey \/ Quit)
      OBVIOUS
    <2>1. CASE \/ \E b \in moveBindings : MoveKey(b)
               \/ \E b \in speedBindings : SpeedKey(b)
               \/ NoKey
      <3>1. /\ pub' = [linear |-> controlSpeed', angular |-> controlTurn']
            /\ controlSpeed' - pub.linear \in (-SpeedStep)..SpeedStep
            /\ controlTurn' - pub.angular \in (-TurnStep)..TurnStep
        BY <2>1, TurnInputs, PublishRamps
      <3> QED BY <3>1
    <2>2. CASE StopKey
      BY <2>2, StopStands
    <2>3. CASE Quit
      BY <2>3 DEF Quit
    <2>4. CASE HandsOff
      <3>1. pub' = pub /\ pub.linear \in Int /\ pub.angular \in Int
        BY <2>4, TeleopAssumption DEF HandsOff, TeleopInv, TypeOK, Velocity
      <3> QED BY <3>1, TeleopAssumption
    <2> QED BY <2>1, <2>2, <2>3, <2>4 DEF Next
  <1> QED BY <1>1, TeleopInvariant, PTL DEF Ramped, Spec

\* The robot is never sped up beyond the velocities selected at that time.
THEOREM TeleopWithinSelected == Spec => WithinSelected
  <1> DEFINE Within ==
        /\ pub'.linear > 0 /\ pub'.linear > pub.linear => pub'.linear <= speed'
        /\ pub'.linear < 0 /\ pub'.linear < pub.linear => -pub'.linear <= speed'
        /\ pub'.angular > 0 /\ pub'.angular > pub.angular => pub'.angular <= turn'
        /\ pub'.angular < 0 /\ pub'.angular < pub.angular => -pub'.angular <= turn'
  <1>1. TeleopInv /\ [Next]_vars => [Within]_vars
    <2> SUFFICES ASSUME TeleopInv, Next PROVE Within
      OBVIOUS
    <2>1. CASE \/ \E b \in moveBindings : MoveKey(b)
               \/ \E b \in speedBindings : SpeedKey(b)
               \/ NoKey
      <3>1. /\ pub' = [linear |-> controlSpeed', angular |-> controlTurn']
            /\ controlSpeed' > pub.linear => controlSpeed' <= speed'
            /\ controlSpeed' < pub.linear => -controlSpeed' <= speed'
            /\ controlTurn' > pub.angular => controlTurn' <= turn'
            /\ controlTurn' < pub.angular => -controlTurn' <= turn'
        BY <2>1, TurnInputs, PublishRamps
      <3> QED BY <3>1
    <2>2. CASE StopKey
      BY <2>2, StopStands DEF Still
    <2>3. CASE Quit
      BY <2>3 DEF Quit, Still
    <2>4. CASE HandsOff
      <3>1. pub' = pub /\ pub.linear \in Int /\ pub.angular \in Int
        BY <2>4, TeleopAssumption DEF HandsOff, TeleopInv, TypeOK, Velocity
      <3> QED BY <3>1
    <2> QED BY <2>1, <2>2, <2>3, <2>4 DEF Next
  <1> QED BY <1>1, TeleopInvariant, PTL DEF WithinSelected, Spec
=============================================================================
