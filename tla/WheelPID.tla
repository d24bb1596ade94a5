------------------------------ MODULE WheelPID ------------------------------
(***************************************************************************)
(* The wheel controllers of the base                                       *)
(* (mobileBase/pid_controller.ino, encoder_detect.ino): what a PID frame   *)
(* measures and computes, and what the commands and the stops of the main  *)
(* loop do to the controllers between two frames.  BaseLoop models when    *)
(* these operations run; here each is one step, as over the serial line.   *)
(***************************************************************************)
EXTENDS Integers

CONSTANTS
    NW,         \* number of wheels
    MAX_PWM,    \* largest power
    HalfRange,  \* an encoder counter is in -HalfRange..HalfRange-1
    MaxTicks,   \* bound: encoder interrupts of a wheel between two frames
    Targets,    \* bound: targets the host asks for
    Gains,      \* parameter sets [kp, kd, ki, ko] in use
    MaxITerm    \* bound: absolute value up to which ITerm is explored

ASSUME RangeAssumption ==
    /\ NW \in Nat \ {0}
    /\ MAX_PWM \in Nat \ {0}
    /\ HalfRange \in Nat /\ MaxTicks \in Nat
    /\ MaxTicks < HalfRange
    /\ MaxITerm \in Nat

ASSUME HostAssumption ==
    /\ Targets \subseteq Int
    /\ Gains # {}
    /\ \A g \in Gains : /\ g.kp \in Nat /\ g.kd \in Nat /\ g.ki \in Nat
                        /\ g.ko \in Nat

Wheel   == 1..NW
Counter == -HalfRange..(HalfRange - 1)

VARIABLES
    moving,      \* motor_driver.ino: moving
    target,      \* TargetTicksPerFrame of each wheel
    prevEnc,     \* PrevEnc
    prevFrame,   \* PrevFrameTicks
    iTerm,       \* ITerm
    outputPWM,   \* outputPWM
    gain,        \* XWheel_Kp, XWheel_Kd, XWheel_Ki and XWheel_Ko
    enc,         \* X_enc_cnt
    forward,     \* direcX = FORWARDS
    frame,       \* interrupts counted since the last frame, with their sign
    tracked      \* wheels read at the last frame and not disturbed since

pidVars == <<target, prevEnc, prevFrame, iTerm, outputPWM>>
vars == <<moving, pidVars, gain, enc, forward, frame, tracked>>

TypeOK ==
    /\ moving \in BOOLEAN
    /\ target \in [Wheel -> Int]
    /\ prevEnc \in [Wheel -> Counter]
    /\ prevFrame \in [Wheel -> Int]
    /\ iTerm \in [Wheel -> Int]
    /\ outputPWM \in [Wheel -> Int]
    /\ gain \in [Wheel -> Gains]
    /\ enc \in [Wheel -> Counter]
    /\ forward \in [Wheel -> BOOLEAN]
    /\ frame \in [Wheel -> -MaxTicks..MaxTicks]
    /\ tracked \subseteq Wheel

AllZero == [w \in Wheel |-> 0]

Init ==
    /\ moving = FALSE
    /\ target = AllZero /\ prevEnc = AllZero /\ prevFrame = AllZero
    /\ iTerm = AllZero /\ outputPWM = AllZero
    /\ gain \in [Wheel -> Gains]
    /\ enc = AllZero
    /\ forward = [w \in Wheel |-> TRUE]
    /\ frame = AllZero
    /\ tracked = Wheel

-----------------------------------------------------------------------------
(* Arithmetic of the processor.                                            *)

\* Mistake: the counter is compared without wrapping.
Wrap_None(x) == x

\* A sum or difference of two counters, in two's complement.
Wrap(x) == IF x >= HalfRange THEN x - 2 * HalfRange
           ELSE IF x < -HalfRange THEN x + 2 * HalfRange ELSE x

\* Division rounds towards zero; by zero it yields zero, as the Cortex-M3 of
\* the board does when its trap is off, which is how it starts.
CDiv(a, b) == IF b = 0 THEN 0 ELSE IF a >= 0 THEN a \div b ELSE -((-a) \div b)

\* Mistake: only the upper limit is applied.
Clamp_UpperOnly(x) == IF x >= MAX_PWM THEN MAX_PWM ELSE x

Clamp(x) == IF x >= MAX_PWM THEN MAX_PWM
            ELSE IF x <= -MAX_PWM THEN -MAX_PWM ELSE x

-----------------------------------------------------------------------------
(* Interrupts of the encoders.                                             *)

\* A falling edge of wheel w is counted in the direction last commanded.
Count(w) ==
    LET by == IF forward[w] THEN 1 ELSE -1
    IN  /\ frame[w] + by \in -MaxTicks..MaxTicks
        /\ enc' = [enc EXCEPT ![w] = Wrap(@ + by)]
        /\ frame' = [frame EXCEPT ![w] = @ + by]
        /\ UNCHANGED <<moving, pidVars, gain, forward, tracked>>

-----------------------------------------------------------------------------
(* Commands and stops.                                                     *)

\* resetPIDObjParam: everything is zero, the previous count included.
ResetPIDObjParam ==
    /\ target' = AllZero /\ prevEnc' = AllZero /\ prevFrame' = AllZero
    /\ iTerm' = AllZero /\ outputPWM' = AllZero

\* 'm' with a non-zero argument.
Move(t) ==
    /\ t # AllZero
    /\ moving' = TRUE
    /\ target' = t
    /\ UNCHANGED <<prevEnc, prevFrame, iTerm, outputPWM, gain, enc, forward,
                   frame, tracked>>

\* 'm 0 0 0': the encoders keep their counts, the controllers forget them.
Stop ==
    /\ moving' = FALSE
    /\ ResetPIDObjParam
    /\ tracked' = {}
    /\ UNCHANGED <<gain, enc, forward, frame>>

\* The auto-stop of loop() leaves the controllers alone.
AutoStop ==
    /\ moving
    /\ moving' = FALSE
    /\ UNCHANGED <<pidVars, gain, enc, forward, frame, tracked>>

\* 'r': counters and controllers start from zero together.
ResetEncoders ==
    /\ enc' = AllZero /\ frame' = AllZero
    /\ ResetPIDObjParam
    /\ tracked' = Wheel
    /\ UNCHANGED <<moving, gain, forward>>

\* Energy mode zeroes the counters and leaves the controllers alone.
EnergyMode ==
    /\ ~moving
    /\ enc' = AllZero
    /\ tracked' = {}
    /\ UNCHANGED <<moving, pidVars, gain, forward, frame>>

\* 'u': new parameters for every wheel, in the middle of anything.
UpdatePID(g) ==
    /\ gain' = g
    /\ UNCHANGED <<moving, pidVars, enc, forward, frame, tracked>>

-----------------------------------------------------------------------------
(* One PID frame, updateMotorPWM.                                          *)

\* The ticks a wheel is found to have made since PrevEnc was taken.
FrameTicks(w) == Wrap(enc[w] - prevEnc[w])

\* The change of power doWheelPID computes.
Increment(w) ==
    LET g == gain[w]
        error == target[w] - FrameTicks(w)
    IN  CDiv(g.kp * error - g.kd * (FrameTicks(w) - prevFrame[w]) + iTerm[w],
             g.ko)

NewOutput(w) == Clamp(outputPWM[w] + Increment(w))

\* Mistake: accumulates while the output is saturated.
NewITerm_Windup(w) == iTerm[w] + gain[w].ki * (target[w] - FrameTicks(w))

\* The integral stands still while the output is at a limit.
NewITerm(w) ==
    IF outputPWM[w] + Increment(w) \in (1 - MAX_PWM)..(MAX_PWM - 1)
    THEN iTerm[w] + gain[w].ki * (target[w] - FrameTicks(w))
    ELSE iTerm[w]

Turning == {w \in Wheel : target[w] # 0}

\* The base moves: a wheel with a target runs its controller, the others are
\* switched off and their counts left unread; then the motors are set.
RunFrame ==
    /\ moving
    /\ \A w \in Turning : NewITerm(w) \in -MaxITerm..MaxITerm
    /\ prevEnc' = [w \in Wheel |-> IF w \in Turning THEN enc[w] ELSE prevEnc[w]]
    /\ prevFrame' =
          [w \in Wheel |-> IF w \in Turning THEN FrameTicks(w) ELSE prevFrame[w]]
    /\ iTerm' = [w \in Wheel |-> IF w \in Turning THEN NewITerm(w) ELSE iTerm[w]]
    /\ outputPWM' = [w \in Wheel |-> IF w \in Turning THEN NewOutput(w) ELSE 0]
    /\ forward' = [w \in Wheel |-> IF outputPWM'[w] = 0 THEN forward[w]
                                   ELSE outputPWM'[w] > 0]
    /\ frame' = AllZero
    /\ tracked' = Turning
    /\ UNCHANGED <<moving, target, gain, enc>>

\* Mistake: an idle frame does not follow the encoders.
Followed_Not == prevEnc

\* The counts an idle frame leaves as the previous ones.
Followed == enc

\* The base stands: the controllers are reset unless the last frame of every
\* wheel was empty, and follow the encoders.
IdleFrame ==
    /\ ~moving
    /\ IF \E w \in Wheel : prevFrame[w] # 0
       THEN /\ target' = AllZero /\ prevFrame' = AllZero
            /\ iTerm' = AllZero /\ outputPWM' = AllZero
       ELSE UNCHANGED <<target, prevFrame, iTerm, outputPWM>>
    /\ prevEnc' = Followed
    /\ frame' = AllZero
    /\ tracked' = Wheel
    /\ UNCHANGED <<moving, gain, enc, forward>>

Next ==
    \/ \E w \in Wheel : Count(w)
    \/ \E t \in [Wheel -> Targets] : Move(t)
    \/ Stop
    \/ AutoStop
    \/ ResetEncoders
    \/ EnergyMode
    \/ \E g \in [Wheel -> Gains] : UpdatePID(g)
    \/ RunFrame
    \/ IdleFrame

Spec == Init /\ [][Next]_vars

-----------------------------------------------------------------------------
(* What is expected of the controllers.                                    *)

\* doWheelPID measures what the encoder interrupts of the frame counted, over
\* a wrap of the counter and a reset of both by 'r', for a wheel whose count
\* was read at the last frame and not disturbed since.
TrackedTicks == \A w \in tracked : FrameTicks(w) = frame[w]

\* Whatever the parameters and the measurement, the power handed to
\* setMotorsPWM fits the byte of driveMotor.
OutputInRange == \A w \in Wheel : outputPWM[w] \in -MAX_PWM..MAX_PWM

\* The integral does not wind up: a frame that leaves a wheel at a limit of
\* its power leaves its integral where it was.
NoWindup ==
    [][\A w \in Wheel : iTerm'[w] # iTerm[w] =>
          iTerm' = AllZero \/ outputPWM'[w] \in (1 - MAX_PWM)..(MAX_PWM - 1)]_vars

\* No startup spike: a frame never measures more ticks than its encoder made
\* interrupts between two frames (the comment of resetPIDObjParam: "prevent
\* startup spikes", "assign both Encoder and PrevEnc the current encoder
\* value"; pid_controller.h on PrevFrameTicks).
NoSpike == \A w \in Wheel : prevFrame[w] \in -MaxTicks..MaxTicks

\* The controllers keep the rules their main loop relies on, with which BaseLoop
\* replaces them: whatever parameters and counts are, only a wheel with a target
\* gets power, and only in a frame of a moving base (updateMotorPWM).
NotZero(f) == {w \in Wheel : f[w] # 0}

Frames == INSTANCE WheelFrames WITH
             target  <- Turning,
             power   <- NotZero(outputPWM),
             counted <- NotZero(prevFrame),
             todo    <- {}

ImplementsWheelFrames == Frames!Spec
=============================================================================
