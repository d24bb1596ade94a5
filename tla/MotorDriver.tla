----------------------------- MODULE MotorDriver -----------------------------
(***************************************************************************)
(* The driver pins of the motors, write by write                           *)
(* (mobileBase/motor_driver.ino): setMotorsPWM as the main program runs it *)
(* from updateMotorPWM and from the auto-stop, and as the interrupt of the *)
(* I2C bus runs it for a stop command in the middle of the former.         *)
(***************************************************************************)
EXTENDS Integers

CONSTANT
    NW      \* number of wheels

ASSUME SystemAssumption == NW \in Nat \ {0}

Wheel == 1..NW

\* The arguments of setMotorsPWM by their signs.
Power == [Wheel -> {-1, 0, 1}]
Zero  == [w \in Wheel |-> 0]

\* The writes to the pins of one wheel, in their order.
Writes == {"in1Low", "in2Low", "pwmOne", "dir", "in1", "in2", "pwm"}

\* A call of setMotorsPWM under way: the wheel and the write it has come to.
NoCall == [wheel |-> 0, write |-> "in1Low", power |-> Zero]
Call(power) == [wheel |-> 1, write |-> "in1Low", power |-> power]

VARIABLES
    moving,    \* motor_driver.ino: moving
    forward,   \* wheels with direcX = FORWARDS
    in1,       \* wheels whose IN1 pin is HIGH
    in2,       \* wheels whose IN2 pin is HIGH
    duty,      \* PWM pin of each wheel: at 0, at 1 of 255, or at its power
    main,      \* the call of the main program
    isr,       \* the call of the I2C interrupt, which suspends the main program
    tested,    \* the main program has found moving TRUE, for a frame or to stop
    raced,     \* history: a stop has interrupted the last call of the main program
    undone     \* history: the last stop came while a frame was under way

pins == <<forward, in1, in2, duty>>
vars == <<moving, pins, main, isr, tested, raced, undone>>

TypeOK ==
    /\ moving \in BOOLEAN /\ raced \in BOOLEAN /\ undone \in BOOLEAN
    /\ tested \in {"none", "frame", "stop"}
    /\ forward \subseteq Wheel /\ in1 \subseteq Wheel /\ in2 \subseteq Wheel
    /\ duty \in [Wheel -> {"zero", "one", "power"}]
    /\ main \in [wheel : 0..NW, write : Writes, power : Power]
    /\ isr \in [wheel : 0..NW, write : Writes, power : {Zero}]

Init ==
    /\ moving = FALSE /\ raced = FALSE /\ undone = FALSE
    /\ tested = "none"
    /\ forward = Wheel
    /\ in1 = {} /\ in2 = {}
    /\ duty = [w \in Wheel |-> "zero"]
    /\ main = NoCall /\ isr = NoCall

-----------------------------------------------------------------------------
(* setMotorsPWM, one write at a time.                                      *)

\* The writes by the one before them.
After == [in1Low |-> "in2Low", in2Low |-> "pwmOne", pwmOne |-> "dir",
          dir |-> "in1", in1 |-> "in2", in2 |-> "pwm", pwm |-> "pwm"]

\* Mistake: the wheel is not released before it is driven the other way.
AfterWrite_NoRelease(c) ==
    IF c.write = "in1Low" /\ c.power[c.wheel] # 0 THEN "dir" ELSE After[c.write]

\* The write after c.write on the same wheel; a wheel without power is only
\* released and braked.
AfterWrite(c) ==
    IF c.write = "pwmOne" /\ c.power[c.wheel] = 0 THEN "pwm" ELSE After[c.write]

\* Mistake: the wheels are not counted.
Advance_NoEnd(c) ==
    IF c.write # "pwm" THEN [c EXCEPT !.write = AfterWrite(c)]
    ELSE [c EXCEPT !.wheel = @ + 1, !.write = "in1Low"]

\* The call after one more write.
Advance(c) ==
    IF c.write # "pwm" THEN [c EXCEPT !.write = AfterWrite(c)]
    ELSE IF c.wheel < NW
         THEN [c EXCEPT !.wheel = @ + 1, !.write = "in1Low"]
         ELSE NoCall

Level(pin, w, high) == IF high THEN pin \cup {w} ELSE pin \ {w}

\* Mistake: the direction is recorded after the pins are set.
DirStep_Late == "in2"

\* The step that records the direction.
DirStep == "dir"

\* The effect of the write call c has come to.
Write(c) ==
    LET w == c.wheel
    IN  /\ in1' = CASE c.write = "in1Low" -> in1 \ {w}
                    [] c.write = "in1" -> Level(in1, w, c.power[w] > 0)
                    [] OTHER -> in1
        /\ in2' = CASE c.write = "in2Low" -> in2 \ {w}
                    [] c.write = "in2" -> Level(in2, w, c.power[w] < 0)
                    [] OTHER -> in2
        /\ duty' = CASE c.write = "pwmOne" -> [duty EXCEPT ![w] = "one"]
                     [] c.write = "pwm" ->
                          [duty EXCEPT ![w] = IF c.power[w] = 0 THEN "zero"
                                                                ELSE "power"]
                     [] OTHER -> duty
        /\ forward' = IF c.write = DirStep THEN Level(forward, w, c.power[w] > 0)
                                         ELSE forward

-----------------------------------------------------------------------------
(* The callers.                                                            *)

Idle == main.wheel = 0 /\ isr.wheel = 0

\* Commands run between two calls of the main program when they come over
\* the serial line, and at any write of one when they come over I2C.
Receives == isr.wheel = 0

\* 'm' with a non-zero argument: setMoveStatus(RUNNING).
MoveCmd ==
    /\ Receives
    /\ moving' = TRUE
    /\ UNCHANGED <<pins, main, isr, tested, raced, undone>>

\* Mistake: the motors are left as they are.
StopCall_None == NoCall

\* What setMoveStatus(STOP) does to the motors: setMotorsPWM(0, 0, 0).
StopCall == Call(Zero)

\* 'm 0 0 0': setMoveStatus(STOP).
StopCmd ==
    /\ Receives
    /\ moving' = FALSE
    /\ isr' = StopCall
    /\ raced' = (main.wheel # 0)
    /\ undone' = (main.wheel # 0 \/ tested = "frame")
    /\ UNCHANGED <<pins, main, tested>>

\* updateMotorPWM or the test of the auto-stop finds the base moving.
TestMoving ==
    /\ Idle
    /\ tested = "none"
    /\ moving
    /\ tested' \in {"frame", "stop"}
    /\ UNCHANGED <<moving, pins, main, isr, raced, undone>>

\* updateMotorPWM hands the computed powers over, whatever moving is by now.
UpdateMotors ==
    /\ Idle
    /\ tested = "frame" /\ tested' = "none"
    /\ \E p \in Power : main' = Call(p)
    /\ raced' = FALSE /\ UNCHANGED <<moving, pins, isr, undone>>

\* The auto-stop of loop().
AutoStop ==
    /\ Idle
    /\ tested = "stop" /\ tested' = "none"
    /\ moving' = FALSE
    /\ main' = Call(Zero)
    /\ raced' = FALSE /\ undone' = FALSE /\ UNCHANGED <<pins, isr>>

\* The interrupt runs to its end before the main program goes on.
IsrWrite ==
    /\ isr.wheel # 0
    /\ Write(isr)
    /\ isr' = Advance(isr)
    /\ UNCHANGED <<moving, main, tested, raced, undone>>

MainWrite ==
    /\ main.wheel # 0
    /\ isr.wheel = 0
    /\ Write(main)
    /\ main' = Advance(main)
    /\ UNCHANGED <<moving, isr, tested, raced, undone>>

Next ==
    \/ MoveCmd \/ StopCmd \/ TestMoving \/ UpdateMotors \/ AutoStop
    \/ IsrWrite \/ MainWrite

Spec == Init /\ [][Next]_vars

-----------------------------------------------------------------------------
(* What is expected of the pins.                                           *)

\* What the driver chip makes of them (the head of motor_driver.ino: a PWM
\* pin at low level brakes).
Mode(w) ==
    IF duty[w] = "zero" THEN "brake"
    ELSE IF w \in in1 THEN IF w \in in2 THEN "brake" ELSE "forwards"
    ELSE IF w \in in2 THEN "backwards" ELSE "off"

\* The comment of setMotorsPWM: between any two of braking and turning either
\* way the bridge is switched off, lest current shoots through it.  A call that
\* a stop interrupts is excepted, and leaves nothing behind for the next.
DeadTime ==
    [][~raced => \A w \in Wheel :
          Mode(w)' # Mode(w) => Mode(w) = "off" \/ Mode(w)' = "off"]_vars

\* The encoder interrupts (encoder_detect.ino) take the direction of a driven
\* wheel from direcX: it is the one the pins drive the wheel in, at every
\* point of a call, interrupted or not.
CountsItsDirection ==
    \A w \in Wheel : /\ Mode(w) = "forwards" => w \in forward
                     /\ Mode(w) = "backwards" => w \notin forward

\* When a stop has been executed, by command or by the auto-stop, and no call is
\* under way no wheel is left free or turning: all are braked.  This is what the
\* head of motor_driver.ino (lines 5-8) and of setMotorsPWM (lines 83-84) demand;
\* the comment of stopMotorMove (lines 204-208) says that a stop is free running
\* and no brake, which is true of that function alone: setMotorsPWM brakes after
\* it.  A stop that comes in the middle of a frame is excepted: the frame drives
\* the wheels after it.
StopBrakes == ~moving /\ Idle /\ ~undone => \A w \in Wheel : Mode(w) = "brake"
=============================================================================
