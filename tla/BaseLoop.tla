------------------------------ MODULE BaseLoop ------------------------------
(***************************************************************************)
(* The main loop of the omni-wheel base                                    *)
(* (blackTornadoRobot_arduinoDUE/mobileBase): setup(), loop() and the      *)
(* motor commands of runCommand(), which run between two passes of the     *)
(* loop when they come over the serial line and inside an interrupt, at    *)
(* any point of a pass, when they come over I2C.  The clock stands still   *)
(* while an interrupt runs.                                                *)
(*                                                                         *)
(* Times are in ticks of one clock.  Wheel values are abstracted to zero   *)
(* or not zero, so a field of the three PID objects is the set of wheels   *)
(* in which it is not zero.                                                *)
(***************************************************************************)
EXTENDS Integers

CONSTANTS
    NW,                  \* number of wheels
    ClockMod,            \* millis() counts modulo this
    PID_INTERVAL,        \* period of the wheel controllers
    AUTO_STOP_INTERVAL,  \* age at which a drive command is given up
    ENERGE_MODE_TIME,    \* age at which the drivers are put into standby
    MaxLoop,             \* bound: clock ticks during one pass of loop()
    WaitTicks,           \* longest wait in a command, 0: no command waits
    Link                 \* how the host is connected: "serial", or "iic" for
                         \* the I2C bus besides the serial line

ASSUME TimesAssumption ==
    /\ PID_INTERVAL \in Nat /\ AUTO_STOP_INTERVAL \in Nat
    /\ ENERGE_MODE_TIME \in Nat /\ MaxLoop \in Nat /\ WaitTicks \in Nat
    /\ ClockMod \in Nat
    /\ AUTO_STOP_INTERVAL < ENERGE_MODE_TIME
    /\ PID_INTERVAL < ClockMod
    /\ ENERGE_MODE_TIME + 2 * MaxLoop + WaitTicks < ClockMod

ASSUME SystemAssumption ==
    /\ NW \in Nat \ {0}
    /\ Link \in {"serial", "iic"}

Wheel == 1..NW
Clock == 0..(ClockMod - 1)

\* Ages of commands are only told apart up to here.
AgeCap == ENERGE_MODE_TIME + 2 * MaxLoop + 1

(* Unsigned arithmetic of the clock: a sum and a difference of two times.  *)
(* Each definition named X_... is a mistake in X that a run must notice.   *)
Plus_NoWrap(a, n) == a + n
Elapsed_Absolute(a, b) == IF b <= a THEN a - b ELSE b - a

Plus(a, n) == IF a + n < ClockMod THEN a + n ELSE a + n - ClockMod
Elapsed(a, b) == IF b <= a THEN a - b ELSE a - b + ClockMod

VARIABLES
    now,      \* millis()
    next,     \* nextPIDLoopCheck
    last,     \* lastMotorCommand
    moving,   \* motor_driver.ino: moving
    stby,     \* the driver chips are in standby
    target,   \* wheels with TargetTicksPerFrame # 0
    out,      \* wheels with outputPWM # 0
    ticks,    \* wheels with PrevFrameTicks # 0
    driven,   \* wheels whose driver inputs are set to turn the motor
    pc,       \* where the main program is
    todo,     \* wheels still to be visited by the for-each-wheel code at pc
    args,     \* the arguments of setMotorsPWM that are not zero
    snap,     \* the operand of a time difference that was read first
    spent,    \* ticks that have passed in this pass of loop()
    alive,    \* the host still sends commands
    age,      \* ticks since the last 'm' command, up to AgeCap
    halted,   \* the last completed order was a stop, not a drive command
    asked,    \* the wheels the last command asked to turn
    slept     \* a command has waited since the last 'm' command

clockVars == <<now, spent, age>>
pidVars   == <<target, out, ticks>>
pinVars   == <<stby, driven>>
ctrlVars  == <<pc, todo, args, snap>>
hostVars  == <<alive, halted, asked, slept>>
vars == <<now, next, last, moving, stby, target, out, ticks, driven, pc,
          todo, args, snap, spent, alive, age, halted, asked, slept>>

NoSnap == [by |-> "none", at |-> 0]

\* At "hung" the interrupt never returns to the main program.
PcSet == {"initPins", "initPid", "serial", "pid", "reset", "wheel", "store",
          "args", "pins", "next", "auto", "autoCmp", "stop", "brake",
          "energy", "energyCmp", "standby", "hung"}

TypeOK ==
    /\ now \in Clock /\ next \in Clock /\ last \in Clock
    /\ moving \in BOOLEAN /\ stby \in BOOLEAN
    /\ target \subseteq Wheel /\ out \subseteq Wheel /\ ticks \subseteq Wheel
    /\ driven \subseteq Wheel /\ args \subseteq Wheel /\ todo \subseteq Wheel
    /\ asked \subseteq Wheel
    /\ pc \in PcSet
    /\ snap \in [by : {"none", "clock", "last"}, at : Clock]
    /\ spent \in 0..MaxLoop
    /\ age \in 0..AgeCap
    /\ alive \in BOOLEAN /\ halted \in BOOLEAN /\ slept \in BOOLEAN

Init ==
    /\ now = 0
    /\ next = PID_INTERVAL
    /\ last = AUTO_STOP_INTERVAL
    /\ moving = FALSE
    /\ stby = TRUE
    /\ target = {} /\ out = {} /\ ticks = {} /\ driven = {}
    /\ pc = "initPins" /\ todo = {} /\ args = {} /\ snap = NoSnap
    /\ spent = 0
    /\ alive = TRUE
    /\ age = AgeCap
    /\ halted = TRUE
    /\ asked = {} /\ slept = FALSE

-----------------------------------------------------------------------------
(* The host's commands.                                                    *)

\* Serial bytes are taken at the head of loop(); the receive interrupt of
\* the I2C bus runs a command wherever the main program happens to be.
Receives == alive /\ pc # "hung" /\ (Link = "serial" => pc = "serial")

\* Mistakes: setMoveStatus does not wake the drivers, and a base that moves
\* already keeps its targets.
Awake_Not == stby
Targets_First(S) == IF moving THEN target ELSE S

\* setMotorStandby(DISABLE) of setMoveStatus, and setPIDTargetTicks.
Awake == FALSE
Targets(S) == S

\* 'm' with a non-zero argument.
MoveCmd(S) ==
    /\ Receives
    /\ S # {}
    /\ last' = now
    /\ moving' = TRUE
    /\ stby' = Awake
    /\ target' = Targets(S)
    /\ age' = 0 /\ halted' = FALSE /\ asked' = S /\ slept' = FALSE
    /\ UNCHANGED <<now, next, out, ticks, driven, spent, alive, ctrlVars>>

\* 'm 0 0 0'.
StopCmd ==
    /\ Receives
    /\ last' = now
    /\ moving' = FALSE
    /\ driven' = {}
    /\ target' = {} /\ out' = {} /\ ticks' = {}
    /\ age' = 0 /\ halted' = TRUE /\ asked' = {} /\ slept' = FALSE
    /\ UNCHANGED <<now, next, stby, spent, alive, ctrlVars>>

\* 'r': the targets are zeroed with the rest of the PID objects.
ResetCmd ==
    /\ Receives
    /\ target' = {} /\ out' = {} /\ ticks' = {}
    /\ asked' = {}
    /\ UNCHANGED <<now, next, last, moving, pinVars, ctrlVars, spent, alive,
                   age, halted, slept>>

\* The age of the last 'm' command after n more ticks.
Older(n) == IF age + n < AgeCap THEN age + n ELSE AgeCap

\* 'p', 'f' and 'k' over the serial line: loop() sleeps in the delay() of a
\* beep, or waits in pulseIn() for three echoes.
WaitCmd(n) ==
    /\ alive /\ pc = "serial"
    /\ slept' = TRUE
    /\ now' = Plus(now, n)
    /\ age' = Older(n)
    /\ UNCHANGED <<next, last, moving, pidVars, pinVars, ctrlVars, spent,
                   alive, halted, asked>>

\* 'f' and 'k' over I2C: pulseIn(), which counts turns of its own loop, waits
\* inside the interrupt, and the clock misses that time.
BlindWaitCmd(n) ==
    /\ Receives /\ Link = "iic"
    /\ slept' = TRUE
    /\ age' = Older(n)
    /\ UNCHANGED <<now, next, last, moving, pidVars, pinVars, ctrlVars, spent,
                   alive, halted, asked>>

\* 'p' over I2C, for a beep with pauses: delay() waits inside the interrupt for
\* a clock that stands still, for ever.
HangCmd ==
    /\ Receives /\ Link = "iic" /\ WaitTicks > 0
    /\ slept' = TRUE
    /\ pc' = "hung"
    /\ UNCHANGED <<clockVars, next, last, moving, pidVars, pinVars, todo, args,
                   snap, alive, halted, asked>>

Command ==
    \/ \E S \in SUBSET Wheel : MoveCmd(S)
    \/ StopCmd
    \/ ResetCmd
    \/ \E n \in 1..WaitTicks : WaitCmd(n) \/ BlindWaitCmd(n)
    \/ HangCmd

\* The host, or the cable to it, fails and no further command arrives.
HostDies ==
    /\ alive
    /\ alive' = FALSE
    /\ UNCHANGED <<now, next, last, moving, pidVars, pinVars, ctrlVars, spent,
                   age, halted, asked, slept>>

\* Time passes.  The clock counts it, at most MaxLoop times in one pass of
\* loop(), unless the program hangs in an interrupt.
Tick ==
    /\ \/ /\ pc # "hung" /\ spent < MaxLoop
          /\ now' = Plus(now, 1)
          /\ spent' = spent + 1
       \/ /\ pc = "hung"
          /\ UNCHANGED <<now, spent>>
    /\ age' = IF age < AgeCap THEN age + 1 ELSE age
    /\ UNCHANGED <<next, last, moving, pidVars, pinVars, ctrlVars, hostVars>>

-----------------------------------------------------------------------------
(* The main program.                                                       *)

Goto(p) == pc' = p /\ UNCHANGED <<todo, args, snap>>

\* The wheel whose turn it is in code written out for A, then B, then C.
Turn(w) == w \in todo /\ \A v \in todo : w <= v

\* Done with wheel w: go on with the others, then continue at p with the
\* wheels in S to visit.
Visited(w, again, p, S) ==
    IF todo = {w} THEN pc' = p /\ todo' = S
                  ELSE pc' = again /\ todo' = todo \ {w}

\* setup(): the drivers are put into standby ...
InitPins ==
    /\ pc = "initPins"
    /\ stby' = TRUE
    /\ Goto("initPid")
    /\ UNCHANGED <<clockVars, next, last, moving, pidVars, driven, hostVars>>

\* ... and the PID objects are zeroed; interrupts are already possible.
InitPid ==
    /\ pc = "initPid"
    /\ target' = {} /\ out' = {} /\ ticks' = {}
    /\ Goto("serial")
    /\ UNCHANGED <<clockVars, next, last, moving, pinVars, hostVars>>

\* No byte is waiting in the serial buffer.
SerialEmpty ==
    /\ pc = "serial"
    /\ Goto("pid")
    /\ UNCHANGED <<clockVars, next, last, moving, pidVars, pinVars, hostVars>>

\* Mistake: the difference of unsigned times is compared with zero, as if it
\* could be negative.
PidDue_Unsigned == Elapsed(now, next) > 0

PidDue == now > next

\* Mistakes: updateMotorPWM does not look at the flag, the flag is inverted.
GetMoveStatus_Always == TRUE
GetMoveStatus_Inverted == ~moving

GetMoveStatus == moving

\* The test of the PID period and, inside updateMotorPWM, of moving.
PidTest ==
    /\ pc = "pid"
    /\ \/ /\ ~PidDue
          /\ Goto("auto")
       \/ /\ PidDue /\ ~GetMoveStatus
          /\ Goto("reset")
       \/ /\ PidDue /\ GetMoveStatus
          /\ pc' = "wheel" /\ todo' = Wheel
          /\ UNCHANGED <<args, snap>>
    /\ UNCHANGED <<clockVars, next, last, moving, pidVars, pinVars, hostVars>>

\* updateMotorPWM when stopped: the objects are reset unless the last frame
\* of every wheel was empty.
IdleReset ==
    /\ pc = "reset"
    /\ IF ticks # {} THEN target' = {} /\ out' = {} /\ ticks' = {}
                     ELSE UNCHANGED pidVars
    /\ Goto("next")
    /\ UNCHANGED <<clockVars, next, last, moving, pinVars, hostVars>>

\* Mistake: the power of a wheel without a target is left as it was.
Off_Kept(w) == out

Off(w) == out \ {w}

\* updateMotorPWM when moving: a wheel without a target gets no power.
WheelIdle(w) ==
    /\ pc = "wheel" /\ Turn(w)
    /\ w \notin target
    /\ out' = Off(w)
    /\ Visited(w, "wheel", "args", Wheel)
    /\ UNCHANGED <<clockVars, next, last, moving, target, ticks, pinVars, args,
                   snap, hostVars>>

\* A wheel with a target enters doWheelPID ...
WheelStart(w) ==
    /\ pc = "wheel" /\ Turn(w)
    /\ w \in target
    /\ Goto("store")
    /\ UNCHANGED <<clockVars, next, last, moving, pidVars, pinVars, hostVars>>

\* ... which may count any frame and compute any power.
WheelStore(w) ==
    /\ pc = "store" /\ Turn(w)
    /\ ticks' \in {ticks \cup {w}, ticks \ {w}}
    /\ out' \in {out \cup {w}, out \ {w}}
    /\ Visited(w, "wheel", "args", Wheel)
    /\ UNCHANGED <<clockVars, next, last, moving, target, pinVars, args, snap,
                   hostVars>>

\* The arguments of setMotorsPWM are evaluated, in no particular order.
LoadArg(w) ==
    /\ pc = "args" /\ w \in todo
    /\ args' = args \cup ({w} \cap out)
    /\ Visited(w, "args", "pins", Wheel)
    /\ UNCHANGED <<clockVars, next, last, moving, pidVars, pinVars, snap,
                   hostVars>>

\* setMotorsPWM drives or brakes one wheel.
SetPins(w) ==
    /\ pc = "pins" /\ Turn(w)
    /\ driven' = IF w \in args THEN driven \cup {w} ELSE driven \ {w}
    /\ Visited(w, "pins", "next", {})
    /\ args' = args \ {w}
    /\ UNCHANGED <<clockVars, next, last, moving, pidVars, stby, snap,
                   hostVars>>

\* The next frame is due one interval after the last one was, however late
\* that one ran.
NextPid ==
    /\ pc = "next"
    /\ next' = Plus(next, PID_INTERVAL)
    /\ Goto("auto")
    /\ UNCHANGED <<clockVars, last, moving, pidVars, pinVars, hostVars>>

\* First half of a test on millis() - lastMotorCommand: C++ does not say
\* which of the two is read first.
ReadOperand ==
    snap' \in {[by |-> "clock", at |-> now], [by |-> "last", at |-> last]}

\* The difference when the other operand is read.
Age ==
    IF snap.by = "clock" THEN Elapsed(snap.at, last) ELSE Elapsed(now, snap.at)

\* Mistake: the interval of the energy mode is used.
TooOld_ForEnergy == Age > ENERGE_MODE_TIME

TooOld == Age > AUTO_STOP_INTERVAL

AutoTest ==
    /\ pc = "auto"
    /\ IF GetMoveStatus THEN pc' = "autoCmp" /\ ReadOperand
                        ELSE pc' = "energy" /\ UNCHANGED snap
    /\ UNCHANGED <<clockVars, next, last, moving, pidVars, pinVars, todo, args,
                   hostVars>>

AutoCompare ==
    /\ pc = "autoCmp"
    /\ pc' = IF TooOld THEN "stop" ELSE "energy"
    /\ snap' = NoSnap
    /\ UNCHANGED <<clockVars, next, last, moving, pidVars, pinVars, todo, args,
                   hostVars>>

\* setMoveStatus(STOP) of the auto-stop: the flag first ...
AutoStop ==
    /\ pc = "stop"
    /\ moving' = FALSE
    /\ pc' = "brake" /\ todo' = Wheel
    /\ UNCHANGED <<clockVars, next, last, pidVars, pinVars, args, snap,
                   hostVars>>

\* Mistake: only the first wheel is braked.
Braked_First(w) == driven \ ({w} \cap {1})

Braked(w) == driven \ {w}

\* ... then setMotorsPWM(0, 0, 0), wheel by wheel.
Brake(w) ==
    /\ pc = "brake" /\ Turn(w)
    /\ driven' = Braked(w)
    /\ Visited(w, "brake", "energy", {})
    /\ halted' = (halted \/ (todo = {w} /\ ~moving))
    /\ UNCHANGED <<clockVars, next, last, moving, pidVars, stby, args, snap,
                   alive, asked, slept>>

\* Mistake: energy mode is entered only when the motors are already off.
Resting_Off == ~moving /\ driven = {}

Resting == ~moving

EnergyTest ==
    /\ pc = "energy"
    /\ IF ~Resting THEN pc' = "serial" /\ spent' = 0 /\ UNCHANGED snap
                   ELSE pc' = "energyCmp" /\ ReadOperand /\ UNCHANGED spent
    /\ UNCHANGED <<now, age, next, last, moving, pidVars, pinVars, todo, args,
                   hostVars>>

EnergyCompare ==
    /\ pc = "energyCmp"
    /\ IF Age > ENERGE_MODE_TIME
       THEN pc' = "standby" /\ UNCHANGED spent
       ELSE pc' = "serial" /\ spent' = 0
    /\ snap' = NoSnap
    /\ UNCHANGED <<now, age, next, last, moving, pidVars, pinVars, todo, args,
                   hostVars>>

\* Energy mode: both chips are put into standby.
Standby ==
    /\ pc = "standby"
    /\ stby' = TRUE
    /\ spent' = 0
    /\ Goto("serial")
    /\ UNCHANGED <<now, age, next, last, moving, pidVars, driven, hostVars>>

Step ==
    \/ InitPins \/ InitPid \/ SerialEmpty
    \/ PidTest \/ IdleReset \/ NextPid
    \/ \E w \in Wheel : \/ WheelIdle(w) \/ WheelStart(w) \/ WheelStore(w)
                        \/ LoadArg(w) \/ SetPins(w) \/ Brake(w)
    \/ AutoTest \/ AutoCompare \/ AutoStop
    \/ EnergyTest \/ EnergyCompare \/ Standby

Next == Command \/ HostDies \/ Tick \/ Step

\* The processor runs the main program, unless an interrupt hangs, and the clock
\* advances; nothing is assumed of the host.
Spec == Init /\ [][Next]_vars /\ WF_vars(Step) /\ WF_vars(Tick)

-----------------------------------------------------------------------------
(* What is expected of the base.                                           *)

\* Wheels that are turned: the inputs drive them and the chips are awake.
Powered == IF stby THEN {} ELSE driven

\* A stop that has been executed, by command (motor_driver.ino, setMoveStatus)
\* or by the auto-stop of loop(), lasts: no wheel is driven again before the
\* next drive command, whatever a pass of the loop had under way.
StopIsFinal == halted => driven = {}

\* The drivers never sleep while the base believes that it moves
\* (setMoveStatus, and the energy mode of loop()).
AwakeWhileMoving == moving => ~stby

\* While the base moves, the controllers aim at what the last command asked
\* for: the reset in updateMotorPWM never throws a fresh target away.
TargetIsAsked == moving => target = asked

\* When a frame of a moving base is over, only wheels that the last command asked
\* to turn do, whatever powers an earlier command or a stop has left behind
\* (updateMotorPWM).
OnlyAskedTurn == pc = "next" /\ moving => driven \subseteq asked

\* The dead-man switch of loop(): no wheel is powered by a command older than
\* the auto-stop interval and the two passes it takes to notice and to brake,
\* unless a command has waited meanwhile.
DeadMan ==
    Powered # {} /\ ~slept => age <= AUTO_STOP_INTERVAL + 2 * MaxLoop

\* Last resort: even when the auto-stop was raced, energy mode cuts the power,
\* unless a command has waited meanwhile.
EnergyDeadMan ==
    Powered # {} /\ ~slept => age <= ENERGE_MODE_TIME + 2 * MaxLoop

\* loop() gives a drive command up only when it is older than the auto-stop
\* interval; a fresh one ends by a stop command only.
OnlyStaleHalts ==
    [][moving /\ ~moving' => halted' \/ age > AUTO_STOP_INTERVAL]_vars

\* A host that falls silent leaves a base that comes to rest: stopped, and
\* in the end in standby for good (loop(), auto-stop and energy mode), unless a
\* beep over I2C has hung the program.
SilenceQuiesces == ~alive ~> (pc = "hung" \/ [](~moving /\ stby))

\* The controllers run again and again, in every one of their periods (loop(),
\* nextPIDLoopCheck).
ControllersRecur == []<><<NextPid>>_vars

\* Frames that were missed while a command waited, or that fall due all at once
\* where the clock comes round, are made up in a burst that ends: the loop gets
\* ahead of its schedule again, unless commands wait again and again, or a beep
\* over I2C has hung the program (loop(), nextPIDLoopCheck).
BurstsEnd ==
    \/ <>(pc = "hung")
    \/ []<><<\E n \in 1..WaitTicks : WaitCmd(n)>>_vars
    \/ []<>(pc = "pid" /\ ~PidDue)

\* The loop implements the dead-man switch: it gives up only an old command, and
\* never leaves a wheel powered by one, but for the time that commands wait.
DMS == INSTANCE DeadManSwitch WITH
          StopAge <- AUTO_STOP_INTERVAL,
          Limit   <- AUTO_STOP_INTERVAL + 2 * MaxLoop,
          MaxAge  <- AgeCap,
          enabled <- moving,
          powered <- Powered # {},
          stalled <- slept

ImplementsDeadManSwitch == DMS!Spec

\* The frames of the loop, wheel by wheel, keep the rules of WheelFrames, to
\* which WheelPID adds the arithmetic (updateMotorPWM).
Frames == INSTANCE WheelFrames WITH
             power   <- out,
             counted <- ticks,
             todo    <- IF pc \in {"wheel", "store"} /\ todo # Wheel THEN todo ELSE {}

ImplementsWheelFrames == Frames!Spec
=============================================================================
