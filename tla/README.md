# A model of the robot's base controllers

TLA+ modules for the programs of this repository that move a robot: the firmware
of the three-wheeled base (`src/blackTornadoRobot_arduinoDUE/mobileBase`, called
*mobileBase* below), the base controller of the two-wheeled bridge
(`src/ROSArduinoBridge`), its serial parser and servos included, and the keyboard teleoperation node
(`src/robot_yolo_teleop`). TLC checks them on small instances; the TLA+ proof
system proves most of their safety properties for every value of the constants.

1. The system
2. Modules
3. Runs, bounds and fairness
4. Proofs
5. Findings
6. Known limits: what fails outside the runs
7. Assumptions and abstractions
8. Hazards, and the properties that cover them
9. Not modelled
10. Plan

## 1. The system

A host (a ROS node on a PC, the operator's keyboard, or an I2C master) sends
one-letter commands to a microcontroller. Its main loop takes serial commands,
runs the wheel controllers every 25 ms, stops a base whose last drive command is
old, moves the servos, and puts the motor drivers into standby. Three kinds of
interrupt run in between: the encoders' (counting), the clock's (`millis()`) and
the I2C bus's, which **runs whole commands inside the interrupt**. Nothing is
locked and no interrupt is ever masked.

| component | state | operations | talks to |
|---|---|---|---|
| main loop, commands and stops (`mobileBase.ino`, `motor_driver.ino`) | `nextPIDLoopCheck`, `lastMotorCommand`, `moving`, the standby pins | `setup`, `loop`, `runCommand`, `setMoveStatus`, `setMotorStandby` | calls the controllers, drivers and servos; is called by the command link |
| wheel controllers and encoders (`pid_controller.*`, `encoder_detect.ino`) | a PID object per wheel, twelve gains, three counters, three directions | `updateMotorPWM`, `doWheelPID`, `resetPIDObjParam`, `UPDATE_PID`, the encoder interrupts, `resetEncodersCnt` | reads the counters; calls `setMotorsPWM` |
| motor driver pins (`motor_driver.ino`) | IN1, IN2 and PWM pin of each wheel, `direcX` | `setMotorsPWM`, `driveMotor`, `setMotorStandby` | sets the direction in which the encoders count |
| command link (both firmwares: `mobileBase.ino`, `serialI2CData.*`; `loop` and `resetCommand` of `ROSArduinoBridge.ino`) | the serial ring buffer, the one object `cmdDataObj` (the bridge: `chr`, `arg`, `index`, `argv1`, `argv2`), the reply buffer | `procRecChar`, `runCommand`, `recIICData`, `sendIICData`, `resetCmdParam`, `resetCommand` | serial line and I2C bus of the base share the object |
| servos (both firmwares: `servos_control.*`; `servos.*` of the bridge) | current and target angle, step delay, time of the last step | `initServo`, `setTargetPos`, `moveServo`; `setTargetPosition`, `doSweep` | commands change what the main loop is reading |
| two-wheel bridge (`ROSArduinoBridge`) | `moving`, `lastMotorCommand`, two PID objects, two counters of four bytes on a processor of one | `m`, `r`, the auto-stop, `updatePID`, `doPID`, `resetPID`, `readEncoder`, `resetEncoder` | encoder interrupts change counters in the middle of a read |
| keyboard teleoperation (`mrobot_teleop.py`) | direction, selected velocities, ramped velocities | keys, the time-out of `getKey`, `finally` | publishes `cmd_vel` |
| sensors and battery (`sensors.*`, `batterry_detect.ino`) | none that outlives a call | readings, beeps | a beep sleeps in `delay()`, an ultrasonic reading waits in `pulseIn()`: both stop the loop, and inside the I2C interrupt the first never returns and the second waits without the clock |
| simulation and launch files, object detection build, C++ exercises, rosserial library, camera SDKs | - | - | descriptions, build products, exercises, vendored code: not modelled |

**What makes it hard.** A stop command may run between the test of `moving` and
the pin writes it guards (interleaving). Both operands of a time difference may be
read on two sides of a command that changes one of them (atomicity). `millis()`,
the counters and the bytes of angles wrap (numeric edges). Four different
events zero different parts of controllers and counters (stale state). The ring
buffer overflows while a beep sleeps, and characters are lost anywhere
(unreliable delivery). The host may fall silent at any moment (liveness), and a beep
asked for over I2C waits in the interrupt for a clock that the interrupt stops.

**What makes each component correct.**

- *Main loop*: an executed stop is final; no motor is powered by an old command;
  a command is not given up early; a base that moves has its drivers awake, aims
  at what was asked and turns no other wheel; silence ends in standby; the controllers keep running, and
  frames that a wait has delayed are made up in a burst that ends.
- *Controllers*: a frame measures the interrupts of that frame; the power fits the
  driver's byte; the integral does not wind up; no spike at the start.
- *Pins*: the direction counted is the one driven; the bridge is switched off
  between two modes; a stop leaves every wheel braked.
- *Link*: commands are run once, as sent and in order; after a loss the next whole
  command is run as sent; a reply is that of the command run last; each command is run.
- *Servos*: one degree at a time, never past the target that was read, no faster than its
  pace, position and target agreeing in the end.
- *Bridge*: a stopped base gives no motor a speed; the auto-stop acts in time, on
  old commands only, and for good when the host is silent; a frame measures what
  was counted in it.
- *Teleoperation*: messages are ramped, within the selected velocity, and end at
  rest when the keys are released.

## 2. Modules

A specification has one action per statement or call at which another actor can
come in between, and one for a whole command where nothing can.
`X_Something`, defined before `X`, is `X` with a plausible slip in it; it is used
by nothing and serves to show that a run would notice the slip.

**BaseLoop** - `setup()` and `loop()`. `pc` is the place in the loop: `serial`
(`SerialEmpty` leaves it), `pid`/`reset`/`wheel`/`store`/`args`/`pins`/`next` for the
frame (`PidTest`, `IdleReset`, `WheelIdle`, `WheelStart`, `WheelStore`, `LoadArg`,
`SetPins`, `NextPid`), `auto`/`autoCmp`/`stop`/`brake` for the auto-stop (`AutoTest`,
`AutoCompare`, `AutoStop`, `Brake`) and `energy`/`energyCmp`/`standby` for the
energy mode. `Command` is the host: `m` with and without speed, `r`, and the commands that wait for up to
`WaitTicks`, beeps (`p`) in `delay()` and ultrasonic readings (`f`, `k`) in `pulseIn()`. It
is enabled at `serial` only when `Link = "serial"` and everywhere, `setup()` included, when
`Link = "iic"`. A wait is one of three things: `WaitCmd`, in the loop, where the clock goes on;
`BlindWaitCmd`, `pulseIn()` inside the I2C interrupt, which counts turns of its own loop while
the clock stands still; and `HangCmd`, `delay()` inside the interrupt, which waits for that clock
and never returns (`pc` stays at `hung`, and the pins as they are). A field of the PID objects is the *set of wheels*
in which it is not zero. `snap` is the operand of `millis() - lastMotorCommand`
that was loaded first - either of the two, as C leaves the order open.
History variables: `age`, `halted`, `asked`, `slept`, `alive`.

**DeadManSwitch** - the abstract specification: a drive command enables, the
controller of an enabled base powers or not, only an old command expires, and time
never carries a powered motor past a limit, unless the host makes the base wait
(`Stall`). Both firmwares implement it:
`BaseLoop!ImplementsDeadManSwitch` instantiates it with `enabled <- moving`,
`powered <- Powered # {}`, `stalled <- slept` and the limit of two passes past the
interval, `BridgeBase!ImplementsDeadManSwitch` with `powered <- speeds # {}`, no
stalls, a limit of one pass, and an age that is `since` until that has once grown past
all limits.

**WheelPID** - the arithmetic of the controllers: gains, targets, the integral,
integer division towards zero, saturation, and counters in two's complement. Its
actions are the operations BaseLoop schedules: `RunFrame`, `IdleFrame`
(`updateMotorPWM`), `Move`, `Stop`, `AutoStop`, `ResetEncoders`, `EnergyMode`, `UpdatePID`
and `Count` (the encoder interrupts). A divisor `ko` of zero is in: the quotient is
then 0, as on the board's Cortex-M3, whose trap for it is off.

**WheelFrames** - the abstract controllers: which wheels are asked to turn, have power, have
counted. A wheel gets power in a frame of a moving base only and only with a target, a frame that is over
has come to every wheel, no command or stop comes inside a frame, and a base that stands forgets its
last run. `BaseLoop!ImplementsWheelFrames` visits the wheels one by one (its `todo` becomes the abstract
one), `WheelPID!ImplementsWheelFrames` in one step, with gains, counters and integrals instead of sets.

**MotorDriver** - `setMotorsPWM` write by write. `main` and `isr` are two calls
under way, the second inside the interrupt of a stop command, which runs to its end
before the first goes on. `Mode(w)` is what the driver chip makes of the pins.

**CommandLink** - characters through the ring buffer into the object of either
firmware (`fw`), whose argument buffers are *one memory*, as `atoi` reads and
over-long arguments write across their ends. A number is the sequence of characters
`atoi` takes; `u` leaves the conversion out (`Converted`) and works on the text of its gains
(`Gains`), which runs to the next NUL. A serial command goes through `runCommand` step by step (`Args`, `Clear`,
`Switch`, `Act`, `ResetParam`), and a message of the base's I2C bus may come between any two of them and
between any two characters. `Switch` and `Act` stand for the `switch` of `runCommand` as the link sees it:
the letter is loaded, then the case for it runs with what stands in the object at that moment and
appends its answer; what the case does to motors or servos is in the other modules. `Fits` says
which commands the buffers have room for, with an end behind each argument, and `pid_args` for the gains; `Overrun`, that the byte behind the buffers was written.
History: `sent`, `ran`, `last`, `heard` (what the main program took since the last
end character), `reply` and `spoilt` (the links on which something was lost or mixed).

**CommandDelivery** - the abstract link, without characters, buffers or parsers: the commands run
for a port are those sent to it, once each and in order (`Send`, `Run`; `Call` for those that are run as
they come), and the reply a host reads (`Request`) is that of the command run last, or
nothing (`Withdraw`). A port on which something is lost (`Lose`) has no such promise of its own
(`RunAnything`), and when all are mixed up (`Mix`) only the past is kept.
`CommandLink!ImplementsCommandDelivery` instantiates it with the reply buffer as the answer
and the links in `spoilt`, or all of them after an overrun, as the disturbed ones.

**ServoSweep** - the servos of either firmware (`fw`): `setup()` with
`InitDelay` and `InitServo`, then `moveServo` in its steps (`Delta`, `LoadTarget`, `LoadDelay`,
`Stay` or `Move`, `Stamp`) with commands in between. The source names the target twice, in the
test and for the direction (`servos_control.ino:46` and `48`); no object is `volatile`, so `Move`
takes either what the test has read or what stands there now; the base's angles are bytes, the bridge's
time difference is an `int`, times are of the clock's width.

**BridgeBase** - the base controller of the two-wheel bridge. `ReadLow` with
`UpdateRead` or `ResetRead` is a read of a counter interrupted between two of its
bytes, `ClearLow` and `ClearHigh` the same for clearing it. `since` is `millis() -
lastMotorCommand`, which wraps; `Tick` advances it, `Move` and `Stop` zero it,
`AutoStop` tests it at the end of each pass. History: `spent` (time since that test),
`stale` (the age has once been past all limits), and what was counted and read in
this pass.

**Teleop** - one action per kind of key and one for a time-out, each a whole turn
of the loop with the ramp and the message published.

**MCWheelPID**, **MCServoSweep**, **MCCommandLink** and **MCLongCommand** define small
command, gain and angle sets for TLC; the other specifications have constants a `.cfg` can give.
**BaseLoopProofs**, **WheelPIDProofs**, **MotorDriverProofs**, **ServoSweepProofs**,
**TeleopProofs**, **BridgeBaseProofs** and **CommandLinkProofs** hold the theorems.

How they fit together: BaseLoop is the scheduler. WheelPID is what its
frames compute, with wheel values instead of zero/non-zero and without time: both implement
WheelFrames, the rules under which BaseLoop's sets stand for the values of the controllers.
MotorDriver refines its `SetPins` and `Brake` (with pins instead of on/off, without
time), CommandLink is what delivers its commands, and ServoSweep is the part of
the loop that only shares the clock with it. CommandLink and ServoSweep do the
same for BridgeBase. They are separate modules because they share no state beyond
`moving`, which each of them carries; that the two main loops keep the same promise
is stated once, in DeadManSwitch.

## 3. Runs, bounds and fairness

Twelve runs; eight pass, four show a disagreement (section 5).

| run | instance | what it shows |
|---|---|---|
| `loop_serial` | 2 wheels, clock modulo 10, auto-stop after 2, energy mode after 4, waits of up to 3 ticks (longer than the auto-stop interval); 6.16 M states | over the serial line: `StopIsFinal`, `AwakeWhileMoving`, `TargetIsAsked`, `OnlyAskedTurn`, `DeadMan`, `OnlyStaleHalts`, and `ImplementsDeadManSwitch` and `ImplementsWheelFrames` |
| `loop_iic` | 1 wheel, clock modulo 7, auto-stop after 1, energy mode after 2, waits of up to 2 ticks (longer than the auto-stop interval) in the loop and in the interrupt, commands anywhere; 0.79 M states | `EnergyDeadMan`: energy mode cuts the power in time even when every stop was raced, unless a command waited; `SilenceQuiesces`: a silent host leaves a base that ends in standby for good, unless a beep over I2C has hung it; `BurstsEnd`: the loop gets ahead of its schedule again after a wait or a wrap, with the same exception |
| `iic_stop` | 1 wheel | finding 1 |
| `clock_wrap_pid` | 1 wheel, period 2, clock modulo 11 | finding 2 |
| `pid` | 2 wheels, powers -2..2, counters of 4 values, targets 0 and 1, two gain sets of which one has `ko = 0`, integrals up to 1; 9.6 M states | `TrackedTicks`, `OutputInRange`, `NoWindup` under any order of `m`, stops, `r`, `u`, energy mode and frames |
| `pid_startup_count` | 1 wheel, counters of 8 values, 2 interrupts a frame | finding 3 |
| `pins` | 2 wheels, all signs of powers; 11 k states | `CountsItsDirection`, `StopBrakes`, `DeadTime` with a stop interrupting any write |
| `link` | both firmwares; two of three commands: one without arguments, one with as many as there may be of which one is negative, and `u` with two gains; either link of the base, ring buffer of 2; 0.77 M states | `RunsInOrder`, `NothingRunOver`, `IntactIsRun`, `ReplyIsLast`, `EveryCommandRuns`, and `ImplementsCommandDelivery` |
| `link_long` | one command of the base with `-100` as second argument | finding 4 |
| `servo_iic` | both firmwares; 1 servo, bytes of 4 values, angles 0, 3 and 5, delays 0 and 2, int and clock modulo 10; 0.64 M states | `OneDegree`, `Paced`, `Arrives` with commands at any step, the steps of `setup()` included |
| `teleop` | 10 and 10 selected, steps of 5 and 4, up to 11; 246 k states | `Ramped`, `WithinSelected`, `ReleaseStops` |
| `bridge` | 1 wheel, longs of 6 and ints of 3 values, two byte boundaries, clock modulo 4, auto-stop after 1, up to 1 tick between two tests of it; 0.97 M states | `StoppedIsStill`, `DeadMan`, `SilenceRests`, `ImplementsDeadManSwitch`, and `MeasuresFrame` with an interrupt between any two bytes |

**Why the bounds are enough.** In BaseLoop times matter only through the order of
four thresholds and the wrap of the clock: the instance has each interval no shorter
than a pass, lets every age cross every threshold, and lets the clock go round
many times (nothing but the history `age`, which is capped, counts on). In `loop_iic` the clock
is the smallest the assumptions allow with a wait beyond the auto-stop interval. Two
wheels are needed for "the first wheel is done, the second is not"; with the I2C
interrupt a single wheel already has a point between the test and every write.
`BurstsEnd` needs passes shorter than a period (`MaxLoop < PID_INTERVAL`), as they are
with 25 ms. In WheelPID the
powers saturate at 2 on both sides, the counters wrap after two interrupts and
the two gain sets have every sign of change, a division that rounds and one by
zero; `MaxITerm`
bounds exploration only: a frame that would exceed it is not taken. `ForwardTargets`
leaves out negative targets (the frames of `pid` still compute negative powers and
count backwards; `pid_startup_count` has targets of both signs, and the theorems have any).
In CommandLink two commands are enough for leftovers of one in the other;
`RxSize = 2` overflows in any command of more than two characters. `Len1 = 36`
and `BridgeLen = 16` are the code's; `Len2 = 3` is one less than the code's, so that
an argument of two characters just fits, and one that grew through a loss reaches the
byte behind the buffers. The `ASSUME` of MCCommandLink evaluates the hypothesis of the theorems,
`FittingCommands`, on the commands of the run. In ServoSweep a scale of 4 angles has both ends and the angle
5 is cut to 1 in the base; clock and int wrap within a sweep. In Teleop the speed keys
lead to velocities (9, 11, 8, ...) that neither step divides, so that ramps end in a
partial step.
In BridgeBase an int has half the width of a long and a long two boundaries, at 2
and at 3; two wheels are in the proof (`BridgeMeasuresFrame`), one is enough for a torn
read. Its clock is the smallest on which a command can be fresh, just old enough,
too old and, after a wrap, fresh in appearance again; the theorems have any.

**Deadlock** is checked in all runs but `link`, `link_long` and `teleop`: the
first two stop when the bounded number of commands has been sent, the third when
the program has been quit and the keys are let go.

**Fairness.** BaseLoop and ServoSweep assume weak fairness of the main program
(`Step`, `Main`) - a processor without an operating system runs it whenever no
interrupt does. Every interrupt ends but one: a beep over I2C. BaseLoop has it as `HangCmd`, behind
which no `Step` is enabled, so that fairness asks nothing of the main program there and
`SilenceQuiesces` and `BurstsEnd` have to name the exception themselves. `Tick` is fair too: the
timer advances `millis()`, at most `MaxLoop` times in a pass, and behind `HangCmd` time passes
without the clock. BridgeBase assumes
the same of `Tick` and of its program, `Timeless \/ AutoStop`: a host that sends without
end can keep its loop from reaching the auto-stop for as long as it sends. How long that is, is
the assumption `MaxLoop`: the processor takes the characters of plain commands faster than the
line, at 57600 baud, brings them, so that `MaxLoop` is some milliseconds for those; but `PING`
waits in `pulseIn()` for up to a second, and a host that streams PINGs is outside every `MaxLoop`
(section 6). CommandLink
assumes it of `Main` and of `Arrive`: what is typed is carried by the line. Teleop
assumes it of `NoKey` alone: `getKey` returns after 0.1 s without a key
(`mrobot_teleop.py`, `select` with a time-out). Nothing is assumed of a host: it
may never send, never stop sending, or die.

## 4. Proofs

No theorem assumes anything but the `ASSUME`s of the module it is about and, where
its statement says so, `Link = "serial"` or `FittingCommands`: that
the hosts send commands whose arguments are numbers the buffers have room for
(finding 4 is a command that does not fit), or, for `u`, no more than twelve gains (four in the bridge). The assumptions are
orders of intervals (auto-stop before energy mode, all of them less than the clock's range) and finite
widths; TLC evaluates them in every run.

| theorem | for every | inductive invariant |
|---|---|---|
| `TypeCorrect` | times, wheels, link | `TypeOK` |
| `SerialStopIsFinal`, `SerialAwakeWhileMoving`, `SerialTargetIsAsked` | times, wheels; serial line | `SerialInv`: where in the loop a base may be moving, halted, or being braked, and that only wheels still in `todo` are driven while it is |
| `SerialOnlyAskedTurn` | times, wheels; serial line | `TurnInv` with `SerialInv`: wheels that a frame has come past have a power, an argument or driven pins only if they have a target |
| `SerialImplementsWheelFrames` | same | `TurnInv` with `SerialInv`: the base moves during a frame, and at `store` the wheel has a target |
| `SerialDeadMan`, `SerialOnlyStaleHalts`, `SerialImplementsDeadManSwitch` | times, waits, wheels; serial line | `AgeInv`: `SerialInv`, the history `age` is `now - last` until it is capped while the base moves or brakes, and how old the command may be at each `pc` if no other has waited |
| `LastResort` (`EnergyDeadMan`) | times, wheels, **either link**, commands at any point | `EnergyInv` with `TypeOK`: while the drivers are awake and no command has waited, the age of the last `m` is bounded at each `pc`, and an operand already read (`snap`) is that far behind at most |
| `PidTypeCorrect`, `PidOutputInRange`, `PidTrackedTicks`, `PidNoWindup` | gains (`ko = 0` too), targets, widths, wheels | `PidInv`: types, range, and ticks modulo the counter |
| `PidImplementsWheelFrames` | same | none but types: what a frame computes is zero for a wheel without a target, for any arithmetic |
| `PinsTypeCorrect`, `PinsCountTheirDirection` | wheels | `DirectionInv`: inputs that are HIGH agree with the recorded direction, and what each call has established about the wheel it has come to |
| `PinsDeadTime` | wheels | `PinInv`: which pins are known at each write of each call, and what a resumed call may find |
| `PinsStopBrakes` | wheels | `BrakeInv` with `PinInv`: wheels that a stop has come past are braked, and no frame is pending |
| `ServoTypeCorrect`, `ServoOneDegree`, `ServoPaced` | firmwares, servos, angles, delays, clocks, ints, either link | `ServoInv`: what the clock shows since the last step is no more than what has passed |
| `TeleopTypeCorrect`, `TeleopRamped`, `TeleopWithinSelected` | steps, velocities | `TeleopInv`: types, and that the message published is what the ramps hold |
| `BridgeStoppedIsStill` | wheels, widths, encoders | `StillInv`: at `frame` the base moves |
| `BridgeDeadMan`, `BridgeImplementsDeadManSwitch` | intervals, bounds on a pass, clocks | `DeadManInv` with `StillInv`: a base that moves is not `stale` and was commanded within the interval and the time since the last test; an age not `stale` is below all limits |
| `BridgeTypeCorrect` | same as `BridgeDeadMan` | `TypeInv`: the bytes read fit below the split |
| `LinkTypeCorrect` | characters, commands, sizes of the buffers and of the ring buffer | `TypeOK`, with the clean buffers between two commands as a part |
| `LinkIntactIsRun` | same; commands that fit | `ParseInv`: what was heard stands parsed in the object, the numbers taken of it are the command's, and once something else was heard nothing is claimed until the next end character |
| `LinkReplyIsLast` | same | `AnswerInv` with `BusInv`: until a message is spoilt, the reply buffer holds the one command run last, over whichever link, and is empty only from `Clear` to `Act`; what was run for the bus is what it sent |
| `LinkRunsInOrder`, `LinkNothingRunOver` | same | `OrderInv` with `ParseInv`: while no character is lost, what was run, is heard, waits in the ring buffer and is still to be typed make up the text of the commands sent |
| `LinkImplementsCommandDelivery` | same | `AnswerInv` with `BusInv` and `OrderInv`: whose answer the reply buffer holds, and that what a link is still to run is its message under way, its mail and what is not yet sent |
| `BridgeMeasuresFrame` | same as `BridgeDeadMan` | `MeasureInv` with `ReadInv`: an undisturbed read returns the count; counts differ by the history's sum modulo the long |

`TypeOK` alone is not inductive for any of the deeper properties, because they
relate history variables to clock or counter values through a wrap. The
arithmetic of the wrap is therefore proved first, as lemmas (`ElapsedGrows`,
`SinceGrows`, `CountedOnce`, `DifferenceGrows`, `ModTurns`, `PiecesFit`), and each invariant
says how much history and machine may differ. The step proofs have one case per
action.

Example, `SerialDeadMan`. `DeadMan` does not survive a step by itself: a tick ages the
command of a wheel that is powered. By `SerialInv` a driven wheel means that the
base moves or is being braked; by `AgeInv`, if no command has waited, its command is then no older than
`AUTO_STOP_INTERVAL + MaxLoop + spent`: the interval, the pass that tested just in
time, and what has passed of this one. `spent <= MaxLoop` gives the limit. The
command is compared with its age in `autoCmp` after one operand was loaded, so `AgeInv`
also says how `snap` relates to the age, whichever operand came first. A wait may carry
the age past the range of the clock, and a command then looks young again; that the
auto-stop still gives up no young command (`SerialOnlyStaleHalts`) is because a difference of
times is never more than the time that has passed.

`LastResort` cannot go this way, as commands that interrupt the loop leave no relation
between `moving` and the wheels. Its invariant does not mention either: it only
says that a base which is awake has a young command, because the last test of energy
mode found it so; this is why energy mode still works when the auto-stop was raced.

The link's proofs are about a parser, a recursive function over the characters. What it does with a
command that fits is stated position by position: `Parsed` says what the object is behind the
`n`-th character, `ParsedStep` takes it over one character (`Put`), and
`ParsedEnd` with `NumbersOf` says that `atoi` then finds the command's numbers, because each argument has an
end behind it - the hypothesis `FittingCommands` - and `GainsOf` that the gains of `u` are its text. `Parsed` holds at each turn of the main loop by
`ParseInv`, without any induction, as the state itself goes on character by character. A message of the bus
is taken in by one step; there the induction over its characters is made on a set of numbers
(`SetInduction`, from the library's `WFMin`), which needs no operator as a parameter.
`LinkImplementsCommandDelivery` forgets characters and buffers: each step of CommandLink is one of
CommandDelivery or a stutter. `Act` is the run of the command that was heard, by `OrderInv` the next one
of the serial line (`UnderWay`, `RunNext`); a message of the bus is sent and run in one step,
by `BusInv`; and whatever is garbled, what was sent and run before is kept (`PastKept`).
`NothingRunOver` follows from the same facts: what `Parsed` describes leaves the byte behind the
buffers alone, and without a loss the object is never in any other state.

WheelFrames ties BaseLoop's sets to the arithmetic of WheelPID: both refinements are proved. TLC checks the one of BaseLoop in `loop_serial`; that of WheelPID, on the
instance of `pid`, doubles the time of that run and is left to the proof.

**Model-checked only**: the liveness properties (`SilenceQuiesces`, `BurstsEnd`,
`Arrives`, `ReleaseStops`, `EveryCommandRuns`, `SilenceRests`), which are beyond this
prover. Every invariant, every action property and every refinement of a passing run is proved.

## 5. Findings

Each is a run TLC finds violated.

1. **A stop over I2C can be undone** (`iic_stop`, `StopIsFinal`).
   `updateMotorPWM` tests `moving` once (`pid_controller.ino:182`); a stop that comes after
   that brakes, and the rest of the frame drives the wheels again
   (`pid_controller.ino:229`). `moving` is then `STOP`, so neither later frames nor
   the auto-stop touch the pins; energy mode does (`EnergyDeadMan`, which holds).
2. **The controllers can stop for ever** (`clock_wrap_pid`, `ControllersRecur`).
   `millis() > nextPIDLoopCheck` (`mobileBase.ino:405`) compares absolute times;
   if `nextPIDLoopCheck` becomes the last value of the clock it is never exceeded.
   With 25 ms and 32 bits that is after the sixth round of the clock; at the end of
   each round before, every 49.7 days, the frames come in a burst (its end is
   `BurstsEnd`, which holds), one in each pass until the clock comes round. Each of them puts
   `nextPIDLoopCheck` on by 25 ms, and afterwards the controllers stand still until the clock
   has caught up, which may take seconds.
3. **The first frame can measure the whole count** (`pid_startup_count`,
   `NoSpike`). `resetPIDObjParam` zeroes `PrevEnc`; its comment says that it takes the
   current count (`pid_controller.ino:62-74`).
4. **A second argument of four characters runs into the third** (`link_long`,
   `RunsInOrder`): `argv2` has no room for an end (`serialI2CData.h:36`,
   `mobileBase.ino:366`).

Two comments of `motor_driver.ino` contradict each other, and the code follows one of them. The
comment of `stopMotorMove` (lines 204-208) says that a motor with PWM 0 is stopped by free running
and not by the brake, which would harm it; the head of the file (lines 5-8) and of
`setMotorsPWM` (lines 83-84) demand the brake, as free running would burn the motor. `stopMotorMove` by
itself does leave the bridge off, but its only caller `setMotorsPWM` brakes right after it
(lines 103, 119 and 135). `StopBrakes` states the latter, and holds.

## 6. Known limits: what fails outside the runs

The passing properties state their exceptions. Where an exception is a hole in the
code rather than in the model, it is listed here with the change that shows it.

- *Waits outlive the dead-man switch.* `iic_stop` with
  `Link = "serial"`, `WaitTicks = 3`, `ClockMod = 10` and `DeadMan` without `~slept` as its property fails,
  as `delay()` (`sensors.ino:189`) and `pulseIn()` (`sensors.ino:113`) run with the wheels turning.
- *A beep over I2C hangs the base with its motors as they are.* `p` runs in `recIICData`, inside the
  interrupt (`mobileBase.ino:204`), where `millis()` stands still and `delay()` (`sensors.ino:189`) never
  returns: no auto-stop, no energy mode, no further command. Drop `pc = "hung"` from
  `SilenceQuiesces` in `loop_iic`.
- *An ultrasonic reading over I2C makes the auto-stop late.* `pulseIn()` (`sensors.ino:113`) does
  return, but the clock has missed the time: auto-stop and energy mode come later by it. Drop
  `~slept` from `EnergyDeadMan` in `loop_iic`.
- *The I2C interrupt breaks the consistency of the loop.* `iic_stop` with
  `AwakeWhileMoving` (a drive command before `setMotorStandby`,
  `mobileBase.ino:424`), `TargetIsAsked` (one before the reset of the idle branch,
  `pid_controller.ino:185`) or `OnlyStaleHalts` (one between the two operands of
  the difference, `mobileBase.ino:412`) instead of `StopIsFinal`: each fails, as do
  `OnlyAskedTurn` and `ImplementsWheelFrames`, by the one frame that a command has interrupted.
- *Powers and integrals of the last run survive an auto-stop* whose last frame
  measured nothing (`pid_controller.ino:182-187`, `diff_controller.h:119`): the
  next drive command starts from them. WheelPID and BridgeBase behave so, no
  property says otherwise, because no text of the code promises it. Wheels that this
  command does not ask to turn stay off (`OnlyAskedTurn`).
- *A servo can go a degree too far, or its byte from 0 to the end of the scale,* when an I2C command
  that asks for its present angle comes between the two looks of `moveServo` at the target
  (`servos_control.ino:46` and `48`): the test has found another target, the direction then takes
  the else branch. Drop the second disjunct of `OneDegree`. It comes back (`Arrives`), the long way
  round after a wrap.
- *A servo command during `setup()` is lost*: `initServo` sets target and position after I2C is open
  (`servos_control.ino:28-29`, `mobileBase.ino:313`). `Arrives` promises only that the two agree in the end.
- *The I2C master may read the answer of a serial command, or none.* There is one reply buffer, rebuilt by
  every command (`mobileBase.ino:333`): a serial command run after the master's message
  replaces its answer, and while that command is under way the buffer is empty (or holds the part of
  the answer appended so far, which counts as empty in the model). Drop the first disjunct of
  `ReplyIsLast`, or `last = "iic"` from its second.
- *Gains run over the stack.* `u` stores each value of its argument in `pid_args[i]` without a look at `i`
  (`mobileBase.ino:195`, twelve bytes): more values overwrite what lies behind. What follows is
  undefined; `Fits` leaves such a command out.
- *PING delays the auto-stop of the bridge.* It waits in `pulseIn()` inside `runCommand`, and the loop
  takes all characters there are before it comes to the auto-stop: a host that streams PINGs puts
  it off as long as it streams. BridgeBase has it as the assumption that a pass takes `MaxLoop` at most.
- *No dead time in a call that a stop interrupted*: drop `~raced` from `DeadTime`
  (`motor_driver.ino:78`).
- *A message to the bus in the middle of a serial command garbles both*: drop
  `\ spoilt` from `RunsInOrder` (`mobileBase.ino:384`: one object for both links; the
  same while the serial command is run, `mobileBase.ino:66`).
- *A leftover behind `argv3`.* Two commands that run together through lost characters can write
  the alignment byte behind `argv3`, which no reset clears; `atoi` of an argument that is absent, or fills
  `argv3`, then reads it (`mobileBase.ino:371`). Hence `~Overrun` in `IntactIsRun`,
  `RunsInOrder` and `ReplyIsLast`: drop it from one of them and give `link` `MaxSent = 3`.
- *Torn reads of the bridge* (`encoder_driver.ino:57`): drop `exact` or `tracked`
  from `MeasuresFrame`. *The bridge's first frame* after an auto-stop may
  measure what was counted while it stood (`diff_controller.h:119`), hence `tracked`.

## 7. Assumptions and abstractions

- *Interrupts.* I2C commands come between two statements of the model's
  granularity and not inside `resetPIDObjParam` or the taking of one character; the two standby pins
  are one step in BaseLoop. MotorDriver has every pin write.
- *Hosts.* The commands `w` and `x`, which write any pin the host names, are
  assumed not to name the motor pins; indices of servos are in range. A beep over I2C is one
  with pauses; one that is not does not wait.
- *Data.* BaseLoop abstracts wheel values to zero/non-zero: a controller may compute
  either whenever the code computes one. BridgeBase does the same with powers, and leaves
  `nextPID` out: a frame may come in any pass. Readings of
  sensors and battery are floating point formulas without state.
- *Link.* The characters include digits, space, end and sign, and the base's buffers are no
  longer than a byte can index (`LinkAssumption`). A number is its text: signs and leading
  zeros are part of it. `atoi` is taken to stop at the alignment byte, behind which binary
  variables follow; writes beyond it hit `arg1` to `arg3`, which are computed again
  before use. `u` cuts its gains out of one long argument: the model has their text, not how
  `strtok_r` takes it apart. It writes NULs into that argument, which is reset next, and the values
  into an array on the stack, whose end it does not check (section 6). What the
  bridge writes past `argv2` is not followed.
- *Bridge.* `USE_BASE` is commented out in the checked-in configuration; BridgeBase
  models the program with it defined. At most one interrupt boundary per read or
  clear is explored, at any of `Splits`. A pass takes `MaxLoop` at most from one test
  of the auto-stop to the next, with the waits of `PING` (section 6).
- *Teleoperation.* Velocities are integers in a unit that makes the scale factors
  exact tenths and the products are rounded down; the terminal is not modelled.

## 8. Hazards, and the properties that cover them

`PROJECT.json` lists each with its line. In short:

- a stop inside a frame: `StopIsFinal` (finding 1), `EnergyDeadMan`; the direction counted when a stop
  comes inside `setMotorsPWM`: `CountsItsDirection`;
- powers left behind by an earlier command or a stop: `OnlyAskedTurn`;
- commands between two looks of `moveServo`: `OneDegree`, `Paced`, `Arrives`;
- messages and losses in the middle of a command: `IntactIsRun`, `RunsInOrder`, `NothingRunOver`; the one reply
  buffer: `ReplyIsLast`, `ImplementsCommandDelivery`; a command that must be run: `EveryCommandRuns`;
- waits: `EnergyDeadMan` (as far as none has waited), `SilenceQuiesces`, `BurstsEnd`;
- wraps of the clock: `DeadMan` of both bases, `ControllersRecur` (finding 2), `BurstsEnd`, `SilenceRests`,
  `Paced`; of counters: `TrackedTicks`, `MeasuresFrame`; of bytes and of the bridge's int:
  `OutputInRange`, `OneDegree`, `Paced`; a divisor of zero: `OutputInRange`, `NoWindup`;
- stale controllers: `NoSpike` (finding 3), `TrackedTicks`;
- silence: `SilenceQuiesces`, `SilenceRests`, `Arrives`, `ReleaseStops`.

Hazards that no passing property catches, because the code fails there or the model does not reach them:
a drive command over I2C between the operands of the auto-stop, before `setMotorStandby`, or before the
reset of the idle branch (`OnlyStaleHalts`, `AwakeWhileMoving` and `TargetIsAsked` are claimed over
the serial line, where this cannot happen, and fail over I2C: section 6); the integral `ITerm`, which
grows without a bound while the output is not saturated; the bridge's counters cleared in the middle of an
interrupt; the bridge's `nextPID` (the comparison is the one of finding 2); and the exception inside the
exception handler of the teleoperation node, which leaves the terminal in raw mode.

## 9. Not modelled

The repository holds some 106,000 lines of implementation, of which about 2,900 are
programs of its own, with their comments; the models map onto some 1,400 of those, and the rest is
declarations, pin tables, port setup, readings and replies. What is left out, and why:

- *Camera SDKs* (`AstraSDK-v2.1.1-...`, `OpenNI-Linux-x64-2.3`), most of the lines: headers
  and samples of third parties, whose libraries are binary.
- *rosserial library* (`ros_lib`): generated message classes and the node handle of
  rosserial; no program of this repository includes them.
- *Object detection build* (`ros_darknet_ros_yolov3`): build products; the sources
  are not there.
- *Simulation and launch files*: data for Gazebo and roslaunch.
- *C++ exercises*: separate programs of a few lines that share nothing.
- *Sensors and battery*: each reading is a floating point formula of one analog value, without state;
  only the time it takes matters to the rest and is modelled (`WaitCmd`, `BlindWaitCmd`, `HangCmd`).
- *Line sensors, pin commands and `b`, `d`, `e` and the like*: read or write
  what no other part reads.

A larger share of the lines could only be had by modelling the vendored code.

## 10. Plan

Done, in this order: BaseLoop with DeadManSwitch, WheelPID, MotorDriver,
CommandLink, ServoSweep, Teleop, BridgeBase, and their proofs;
then the waits of readings and `ko = 0`, the bridge's parser and servos, `setup()` of
servos, the bridge's clock and its refinement of DeadManSwitch, `BurstsEnd`,
the proof of `EnergyDeadMan`, and those of CommandLink; CommandDelivery and its refinement; waits in the
proofs of BaseLoop, and `OnlyAskedTurn`; WheelFrames, implemented by BaseLoop and WheelPID.

To come, most important first:

1. *Frames and time*: the time a frame of a burst stands for against the ticks it
   measures, which needs the schedule of BaseLoop and the counts of WheelPID together.
2. *The bridge's `nextPID`*, with the absolute clock it needs.
3. *Battery and sensors* as pure functions over scaled integers, against reference
   definitions.
