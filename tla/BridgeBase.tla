----------------------------- MODULE BridgeBase -----------------------------
(***************************************************************************)
(* The base controller of the two-wheel bridge (ROSArduinoBridge, compiled *)
(* with USE_BASE): the drive commands, updatePID and the auto-stop of its  *)
(* main loop, with the encoders and the clock going on all the time.  The  *)
(* processor has words of one byte: a count kept by an interrupt           *)
(* (ARDUINO_ENC_COUNTER) is read and cleared piece by piece, one kept by a *)
(* shield (ROBOGAIA) at once.                                              *)
(*                                                                         *)
(* The powers are abstracted to zero or not zero: doPID computes any, so   *)
(* that its output and ITerm are left out.  A frame may come in any pass:  *)
(* nextPID is left out.                                                    *)
(***************************************************************************)
EXTENDS Integers

CONSTANTS
    NW,        \* number of wheels
    Encoders,  \* who counts, "shield" or "counter"
    LongMod,   \* values of a long
    IntMod,    \* values of an int
    Splits,    \* the places of a long between two bytes, as powers
    ClockMod,  \* values of millis()
    AUTO_STOP_INTERVAL,
    MaxTicks,  \* bound: counts of a wheel between two readings
    MaxLoop    \* bound: milliseconds from one test of the auto-stop to the next,
               \* the waits of PING for its echoes included

ASSUME BridgeAssumption ==
    /\ NW \in Nat \ {0}
    /\ Encoders \in {"shield", "counter"}
    /\ IntMod \in Nat \ {0} /\ LongMod \in Nat \ {0} /\ LongMod % IntMod = 0
    /\ \A s \in Splits : s \in Nat \ {0} /\ LongMod % s = 0
    /\ MaxTicks \in Nat /\ 2 * MaxTicks < IntMod
    /\ ClockMod \in Nat /\ AUTO_STOP_INTERVAL \in Nat \ {0} /\ MaxLoop \in Nat \ {0}
    /\ AUTO_STOP_INTERVAL + MaxLoop + 1 < ClockMod

Wheel == 1..NW

\* Ages of commands are only told apart up to here.
MaxAge == AUTO_STOP_INTERVAL + MaxLoop + 1

VARIABLES
    moving,     \* diff_controller.h: moving
    speeds,     \* wheels whose motor is given a speed
    since,      \* millis() - lastMotorCommand, which are unsigned
    encoder,    \* Encoder of each wheel
    prevEnc,    \* PrevEnc
    prevInput,  \* PrevInput
    enc,        \* the counts themselves
    pc,         \* where the main program is
    wheel,      \* the wheel whose count is read or cleared
    split,      \* where that is interrupted, 0: not begun
    low,        \* the bytes read below split
    back,       \* where resetPID returns to
    host,       \* the host still sends commands
    spent,      \* history: milliseconds since the last test of the auto-stop
    stale,      \* history: MaxAge has passed since the last command
    disturbed,  \* history: the wheel has counted since its read was begun
    frame,      \* history: counts since the last reading, with their sign
    measured,   \* history: counts of the frame that has been read in this pass
    tracked,    \* history: wheels whose PrevEnc is that of the last reading,
                \* which was not disturbed
    exact       \* history: wheels whose Encoder was so read in this pass

drive     == <<moving, speeds>>
time      == <<since, spent, stale, host>>
pidVars   == <<encoder, prevEnc, prevInput>>
readVars  == <<wheel, split, low, disturbed>>
frameVars == <<frame, measured, tracked, exact>>
vars == <<drive, time, pidVars, enc, pc, back, readVars, frameVars>>

TypeOK ==
    /\ moving \in BOOLEAN /\ host \in BOOLEAN
    /\ stale \in BOOLEAN /\ disturbed \in BOOLEAN
    /\ speeds \subseteq Wheel /\ tracked \subseteq Wheel /\ exact \subseteq Wheel
    /\ since \in 0..(ClockMod - 1) /\ spent \in 0..MaxLoop
    /\ enc \in [Wheel -> 0..(LongMod - 1)]
    /\ encoder \in [Wheel -> 0..(LongMod - 1)]
    /\ prevEnc \in [Wheel -> 0..(LongMod - 1)]
    /\ prevInput \in [Wheel -> Int]
    /\ pc \in {"serial", "zero", "read", "frame", "reset", "auto"}
    /\ back \in {"serial", "auto"}
    /\ wheel \in Wheel /\ split \in Splits \cup {0}
    /\ frame \in [Wheel -> -MaxTicks..MaxTicks]
    /\ measured \in [Wheel -> -MaxTicks..MaxTicks]

\* setup(), which calls resetPID; millis() is 0 and lastMotorCommand is
\* AUTO_STOP_INTERVAL.
Init ==
    /\ moving = FALSE /\ speeds = {}
    /\ since = ClockMod - AUTO_STOP_INTERVAL /\ spent = 0
    /\ stale = TRUE /\ host = TRUE
    /\ enc = [w \in Wheel |-> 0]
    /\ encoder = enc /\ prevEnc = enc /\ prevInput = enc
    /\ pc = "reset" /\ back = "serial"
    /\ wheel = 1 /\ split = 0 /\ low = 0 /\ disturbed = FALSE
    /\ frame = enc /\ measured = enc /\ tracked = {} /\ exact = {}

-----------------------------------------------------------------------------
(* Outside the program: the encoders, the clock, the host.                 *)

Count(w, by) ==
    /\ frame[w] + by \in -MaxTicks..MaxTicks
    /\ enc' = [enc EXCEPT ![w] = (@ + by) % LongMod]
    /\ frame' = [frame EXCEPT ![w] = @ + by]
    /\ disturbed' = (disturbed \/ (w = wheel /\ split # 0))
    /\ UNCHANGED <<drive, time, pidVars, pc, back, wheel, split, low,
                   measured, tracked, exact>>

Tick ==
    /\ spent < MaxLoop
    /\ since' = (since + 1) % ClockMod /\ spent' = spent + 1
    /\ stale' = (stale \/ since' = MaxAge)
    /\ UNCHANGED <<drive, host, pidVars, enc, pc, back, readVars, frameVars>>

HostDies ==
    /\ host' = FALSE
    /\ UNCHANGED <<drive, since, spent, stale, pidVars, enc, pc, back, readVars, frameVars>>

-----------------------------------------------------------------------------
(* The counts: how they are read and cleared, wheel by wheel.              *)

\* The difference of two counts, cut to an int.
Trunc(x) == ((x + IntMod \div 2) % IntMod) - IntMod \div 2
Input(w) == Trunc(encoder[w] - prevEnc[w])

\* On with the next wheel, or at p after the last.
NextWheel(p) ==
    /\ wheel' = IF wheel < NW THEN wheel + 1 ELSE 1
    /\ pc' = IF wheel < NW THEN pc ELSE p
    /\ split' = 0 /\ low' = 0 /\ disturbed' = FALSE

\* resetEncoder: the bytes below a place that an interrupt may come at ...
ClearLow ==
    /\ pc = "zero" /\ Encoders = "counter" /\ split = 0
    /\ \E s \in Splits : /\ split' = s
                         /\ enc' = [enc EXCEPT ![wheel] = @ - (@ % s)]
    /\ UNCHANGED <<drive, pidVars, pc, wheel, low, disturbed, back, frameVars>>

\* ... and the others.
ClearHigh ==
    /\ pc = "zero"
    /\ Encoders = "counter" => split # 0
    /\ enc' = [enc EXCEPT ![wheel] = IF split = 0 THEN 0 ELSE @ % split]
    /\ NextWheel("reset")
    /\ UNCHANGED <<drive, pidVars, back, frameVars>>

\* readEncoder, of updatePID and of resetPID: the lower bytes ...
ReadLow ==
    /\ pc \in {"read", "reset"} /\ Encoders = "counter" /\ split = 0
    /\ \E s \in Splits : split' = s /\ low' = enc[wheel] % s
    /\ UNCHANGED <<drive, pidVars, enc, pc, wheel, disturbed, back, frameVars>>

\* Mistake: the bytes below are added to the whole.
Read_NoMask == enc[wheel] + low

\* ... and the others; the value the read results in.
Read == IF split = 0 THEN enc[wheel] ELSE enc[wheel] - (enc[wheel] % split) + low

\* Stores what is read, and closes the stretch in which counts belong to a
\* frame.
ReadEncoder ==
    /\ Encoders = "counter" => split # 0
    /\ encoder' = [encoder EXCEPT ![wheel] = Read]
    /\ frame' = [frame EXCEPT ![wheel] = 0]

-----------------------------------------------------------------------------
(* Commands of the serial line.                                            *)

\* Mistake: the motors are left to the controller.
StopSpeeds_Kept == speeds

\* setMotorSpeeds(0, 0).
StopSpeeds == {}

\* 'm' with a non-zero argument.
Move ==
    /\ pc = "serial" /\ host
    /\ moving' = TRUE /\ since' = 0 /\ stale' = FALSE
    /\ UNCHANGED <<speeds, spent, host, pidVars, enc, pc, readVars, back, frameVars>>

\* 'm 0 0': the motors are stopped and the controllers reset.
Stop ==
    /\ pc = "serial" /\ host
    /\ moving' = FALSE /\ speeds' = StopSpeeds
    /\ since' = 0 /\ stale' = FALSE
    /\ pc' = "reset"
    /\ UNCHANGED <<spent, host, pidVars, enc, readVars, back, frameVars>>

\* 'r': the counts are cleared, then the controllers reset.
ResetEncoders ==
    /\ pc = "serial" /\ host
    /\ pc' = "zero"
    /\ UNCHANGED <<drive, pidVars, enc, readVars, back, frameVars>>

-----------------------------------------------------------------------------
(* A pass of loop().                                                       *)

\* No command is left: a PID frame begins, unless its time has not come.
RunLoop ==
    /\ pc = "serial"
    /\ pc' \in {"read", "auto"} /\ back' = "auto"
    /\ UNCHANGED <<drive, pidVars, enc, readVars, frameVars>>

\* updatePID: after the last wheel a moving base runs its controllers, one
\* that stands resets them if the last frame was not empty.
UpdateRead ==
    /\ pc = "read" /\ ReadEncoder
    /\ NextWheel(IF moving THEN "frame"
                 ELSE IF \E w \in Wheel : prevInput[w] # 0 THEN "reset" ELSE "auto")
    /\ tracked' = IF moving THEN tracked ELSE tracked \ {wheel}
    /\ measured' = [measured EXCEPT ![wheel] = frame[wheel]]
    /\ exact' = IF disturbed THEN exact \ {wheel} ELSE exact \cup {wheel}
    /\ UNCHANGED <<drive, prevEnc, prevInput, enc, back>>

\* Mistake: the previous count is zeroed.
ResetPrev_Zero == 0

\* PrevEnc = Encoder.
ResetPrev == Read

\* resetPID.
ResetRead ==
    /\ pc = "reset" /\ ReadEncoder
    /\ prevEnc' = [prevEnc EXCEPT ![wheel] = ResetPrev]
    /\ prevInput' = [prevInput EXCEPT ![wheel] = 0]
    /\ NextWheel(back)
    /\ tracked' = IF disturbed THEN tracked \ {wheel} ELSE tracked \cup {wheel}
    /\ UNCHANGED <<drive, enc, back, measured, exact>>

\* doPID of both wheels, and the motors set to what it computes.
Frame ==
    /\ pc = "frame"
    /\ prevInput' = [w \in Wheel |-> Input(w)]
    /\ prevEnc' = encoder
    /\ speeds' \in SUBSET Wheel
    /\ pc' = "auto"
    /\ tracked' = exact
    /\ UNCHANGED <<moving, encoder, enc, readVars, back, frame, measured, exact>>

\* Mistakes: a millisecond late, a millisecond early; the next frame sets the
\* motors again.
Expired_Late == since > AUTO_STOP_INTERVAL + 1
Expired_Early == since >= AUTO_STOP_INTERVAL
Halted_Kept == moving

\* The test of the auto-stop, and its moving = 0.
Expired == since > AUTO_STOP_INTERVAL
Halted == FALSE

AutoStop ==
    /\ pc = "auto"
    /\ speeds' = IF Expired THEN StopSpeeds ELSE speeds
    /\ moving' = IF Expired THEN Halted ELSE moving
    /\ pc' = "serial" /\ back' = "serial" /\ spent' = 0
    /\ measured' = [w \in Wheel |-> 0] /\ exact' = {}
    /\ UNCHANGED <<since, stale, host, pidVars, enc, readVars, frame, tracked>>

\* The parts of the program that neither read nor set the clock.  PING waits in
\* pulseIn, up to a second for each, and changes nothing: it is time that passes
\* before them, and a part of MaxLoop.
Timeless ==
    /\ \/ ResetEncoders \/ RunLoop \/ ClearLow \/ ClearHigh
       \/ ReadLow \/ UpdateRead \/ ResetRead \/ Frame
    /\ UNCHANGED time

Next ==
    \/ \E w \in Wheel, by \in {-1, 1} : Count(w, by)
    \/ Tick \/ HostDies
    \/ Move \/ Stop
    \/ Timeless \/ AutoStop

\* Time goes on, and so does the program, which gets to the end of its pass
\* whatever else is sent: MaxLoop bounds that.  Assumed of the host: it does not
\* send PINGs so fast that the loop never finds the serial buffer empty.
Spec == Init /\ [][Next]_vars /\ WF_vars(Tick) /\ WF_vars(Timeless \/ AutoStop)

-----------------------------------------------------------------------------
(* What is expected of the base.                                           *)

\* A base that is not moving gives no motor a speed, whatever a frame had
\* computed before (runCommand, loop and updatePID).
StoppedIsStill == ~moving => speeds = {}

\* A frame of a base that was reset or ran the frame before measures what was
\* counted in that frame, over a wrap of the count, a reset by 'r' and the
\* narrower type of the difference (updatePID, doPID), if no interrupt came
\* between the bytes of a read.
MeasuresFrame ==
    pc = "frame" => \A w \in tracked \cap exact : Input(w) = measured[w]

\* No motor has a speed longer than the interval, and the pass that finds it
\* over, after the last command, whatever frames run and over the wrap of
\* millis() (loop: "Stop the robot if it hasn't received a movement command in
\* this number of milliseconds").
DeadMan == speeds # {} => since <= AUTO_STOP_INTERVAL + spent

\* When the host is silent the base comes to rest, for good: not even the wrap
\* of millis(), after which the last command seems recent, sets it going.
SilenceRests == ~host ~> [](speeds = {} /\ ~moving)

\* The bridge keeps the promise of the dead-man switch, as the base does: only
\* an old command is given up, and no motor is left on by one.
DMS == INSTANCE DeadManSwitch WITH
          StopAge <- AUTO_STOP_INTERVAL,
          Limit   <- AUTO_STOP_INTERVAL + MaxLoop,
          enabled <- moving,
          powered <- speeds # {},
          age     <- IF stale THEN MaxAge ELSE since,
          stalled <- FALSE

ImplementsDeadManSwitch == DMS!Spec
=============================================================================
