-------------------------------- MODULE Teleop --------------------------------
(***************************************************************************)
(* The keyboard teleoperation node                                         *)
(* (robot_yolo_teleop/src/mrobot_teleop/scripts/mrobot_teleop.py).  One    *)
(* action is one turn of its loop: a key, or none within the 0.1 s that    *)
(* getKey waits, the ramps, and the message published on /cmd_vel.         *)
(* Velocities are integers, in fractions of the ramps.                     *)
(***************************************************************************)
EXTENDS Integers

CONSTANTS
    Speed, Turn,          \* the velocities selected at the start
    SpeedStep, TurnStep,  \* the most they change by from message to message
    MaxVel                \* bound: velocities the user may select

ASSUME TeleopAssumption ==
    /\ SpeedStep \in Nat \ {0} /\ TurnStep \in Nat \ {0} /\ MaxVel \in Nat
    /\ Speed \in 0..MaxVel /\ Turn \in 0..MaxVel

VARIABLES
    x, th,           \* direction of travel and of turning
    speed, turn,     \* the selected velocities
    count,           \* turns of the loop without a key, up to the limit
    controlSpeed,    \* the ramped velocities
    controlTurn,
    pub,             \* the last message published
    running,         \* the loop has not ended
    hands            \* the user still presses keys

vars == <<x, th, speed, turn, count, controlSpeed, controlTurn, pub, running, hands>>

Still    == [linear |-> 0, angular |-> 0]
Velocity == (-MaxVel)..MaxVel

\* The directions the eight keys stand for, and the changes of the speed keys
\* in tenths.
moveBindings  == {<<1, 0>>, <<1, -1>>, <<0, 1>>, <<0, -1>>,
                  <<1, 1>>, <<-1, 0>>, <<-1, 1>>, <<-1, -1>>}
speedBindings == {<<11, 11>>, <<9, 9>>, <<11, 10>>, <<9, 10>>, <<10, 11>>, <<10, 9>>}

TypeOK ==
    /\ x \in -1..1 /\ th \in -1..1
    /\ speed \in 0..MaxVel /\ turn \in 0..MaxVel
    /\ count \in 0..5
    /\ controlSpeed \in Velocity /\ controlTurn \in Velocity
    /\ pub \in [linear : Velocity, angular : Velocity]
    /\ running \in BOOLEAN /\ hands \in BOOLEAN

Init ==
    /\ x = 0 /\ th = 0
    /\ speed = Speed /\ turn = Turn
    /\ count = 0
    /\ controlSpeed = 0 /\ controlTurn = 0
    /\ pub = Still
    /\ running = TRUE /\ hands = TRUE

-----------------------------------------------------------------------------

\* Mistake: the ramp does not stop at its target.
Ramp_Past(target, control, step) ==
    CASE target > control -> control + step
      [] target < control -> control - step
      [] OTHER            -> target

\* A ramp: at most step towards the target, and not past it.
Ramp(target, control, step) ==
    CASE target > control ->
           IF target < control + step THEN target ELSE control + step
      [] target < control ->
           IF target > control - step THEN target ELSE control - step
      [] OTHER -> target

\* Mistake: the ramp of turning adds the other's step.
AngularStep_Sum == SpeedStep + TurnStep

\* The step of the ramp of turning.
AngularStep == TurnStep

\* The rest of a turn of the loop, from the ramped velocities speed1 and turn1.
Publish(speed1, turn1) ==
    /\ controlSpeed' = Ramp(speed' * x', speed1, SpeedStep)
    /\ controlTurn' = Ramp(turn' * th', turn1, AngularStep)
    /\ pub' = [linear |-> controlSpeed', angular |-> controlTurn']

\* A direction key.
MoveKey(b) ==
    /\ running /\ hands
    /\ x' = b[1] /\ th' = b[2] /\ count' = 0
    /\ UNCHANGED <<speed, turn, running, hands>>
    /\ Publish(controlSpeed, controlTurn)

\* A speed key; it keeps the direction alive as well.
SpeedKey(b) ==
    /\ running /\ hands
    /\ (speed * b[1]) \div 10 <= MaxVel /\ (turn * b[2]) \div 10 <= MaxVel
    /\ speed' = (speed * b[1]) \div 10 /\ turn' = (turn * b[2]) \div 10
    /\ count' = 0
    /\ UNCHANGED <<x, th, running, hands>>
    /\ Publish(controlSpeed, controlTurn)

\* Space or k: stop at once.
StopKey ==
    /\ running /\ hands
    /\ x' = 0 /\ th' = 0
    /\ UNCHANGED <<speed, turn, count, running, hands>>
    /\ Publish(0, 0)

\* Mistake: turns without a key are not counted.
Counted_Not == count

\* The turns without a key after one more.
Counted == IF count < 5 THEN count + 1 ELSE count

\* No key, or any other: after more than four the robot is to stop smoothly.
NoKey ==
    /\ running
    /\ count' = Counted
    /\ x' = (IF count' > 4 THEN 0 ELSE x) /\ th' = (IF count' > 4 THEN 0 ELSE th)
    /\ UNCHANGED <<speed, turn, running, hands>>
    /\ Publish(controlSpeed, controlTurn)

\* CTRL-C, or an exception in any turn: finally, the robot is stopped.
Quit ==
    /\ running
    /\ running' = FALSE
    /\ pub' = Still
    /\ UNCHANGED <<x, th, speed, turn, count, controlSpeed, controlTurn, hands>>

HandsOff ==
    /\ hands /\ hands' = FALSE
    /\ UNCHANGED <<x, th, speed, turn, count, controlSpeed, controlTurn, pub, running>>

Next ==
    \/ \E b \in moveBindings : MoveKey(b)
    \/ \E b \in speedBindings : SpeedKey(b)
    \/ StopKey \/ NoKey \/ Quit \/ HandsOff

\* getKey returns after 0.1 s at the latest.
Spec == Init /\ [][Next]_vars /\ WF_vars(NoKey)

-----------------------------------------------------------------------------
(* Properties.                                                             *)

\* Messages change by a step of the ramps, but for a message to stand still
\* that a stop key or the end of the program sends: any other key, and the time
\* without one, stop the robot smoothly (msg, and the ramps of the loop).
Ramped ==
    [][\/ /\ pub'.linear  - pub.linear  \in (-SpeedStep)..SpeedStep
          /\ pub'.angular - pub.angular \in (-TurnStep)..TurnStep
       \/ pub' = Still /\ (StopKey \/ Quit)]_vars

\* The robot is never sped up beyond the velocities that are selected, however
\* these were changed while it moved.
WithinSelected ==
    [][/\ pub'.linear > 0 /\ pub'.linear > pub.linear => pub'.linear <= speed'
       /\ pub'.linear < 0 /\ pub'.linear < pub.linear => -pub'.linear <= speed'
       /\ pub'.angular > 0 /\ pub'.angular > pub.angular => pub'.angular <= turn'
       /\ pub'.angular < 0 /\ pub'.angular < pub.angular => -pub'.angular <= turn']_vars

\* Let go of the keys, and the robot comes to rest for good, whether the program
\* goes on or ends.
ReleaseStops == ~hands ~> [](pub = Still)
=============================================================================
