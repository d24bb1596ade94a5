------------------------------ MODULE ServoSweep ------------------------------
(***************************************************************************)
(* The servos of both firmwares (mobileBase/servos_control.ino, class      *)
(* SweepServo, and ROSArduinoBridge/servos.ino): a command sets the angle  *)
(* a servo is to take, on the base its pace too, and the main loop moves   *)
(* each servo a degree at a time.  The bytes of the base, the int of the   *)
(* bridge's time difference and the clock keep their width.                *)
(***************************************************************************)
EXTENDS Integers

CONSTANTS
    Firmwares, \* the firmwares considered, a subset of {"base", "bridge"}
    Servos,    \* number of servos, SERVOS_CNT and N_SERVOS
    Byte,      \* values of a byte, 256
    IntMod,    \* values of the bridge's int, 2^16
    ClockMod,  \* values of millis()
    Angles,    \* the angles commands ask for, integers
    Delays,    \* the step delays they ask for (base), bytes
    StepDelay, \* bridge: stepDelay of the servos
    InitAngle, \* servoInitPosition
    MaxLoop,   \* bound: ms the main loop takes for a pass
    MaxSince,  \* bound of the history variable since
    Link       \* how commands reach the base, "serial" or "iic"

Servo == 1..Servos

ASSUME ServoAssumption ==
    /\ Servos \in Nat \ {0} /\ Byte \in Nat \ {0}
    /\ IntMod \in Nat \ {0} /\ ClockMod \in Nat \ {0} /\ ClockMod % IntMod = 0
    /\ Angles \subseteq Int /\ Delays \subseteq 0..(Byte - 1)
    /\ StepDelay \in 0..(Byte - 1)
    /\ InitAngle \in [Servo -> 0..(Byte - 1)]
    /\ MaxLoop \in Nat /\ MaxSince \in Nat \ {0}
    /\ \A d \in Delays \cup {StepDelay} : d < MaxSince

VARIABLES
    fw,       \* the firmware
    now,      \* millis()
    pos,      \* currentPosDegrees, currentPositionDegrees
    target,   \* targetPosDegrees, targetPositionDegrees
    delay,    \* stepDelayMs
    last,     \* lastMoveTime, lastSweepCommand
    pc, i,    \* the main program: the step of moveServo, and of which servo
    delta,    \* moveServo: delta
    seen,     \* the target and the delay as moveServo last read them
    spent,    \* bookkeeping of the bound MaxLoop
    host,     \* the host still sends commands
    since     \* history: ms since the servo last turned, up to MaxSince

vars == <<fw, now, pos, target, delay, last, pc, i, delta, seen, spent, host, since>>
servo == <<pos, target, delay, last, since>>
main  == <<pc, i, delta, seen, spent>>

Base  == fw = "base"
Angle == IF Base THEN 0..(Byte - 1) ELSE Int

\* Mistake: the angle is not cut to its byte.
Cut_None(a) == a
\* The base's parameters are bytes, the bridge's are not.
Cut(a) == IF Base THEN a % Byte ELSE a

\* Sums and differences of unsigned long times.
Plus(a, n) == IF a + n < ClockMod THEN a + n ELSE a + n - ClockMod
\* Mistake: the difference is not taken modulo the clock.
Elapsed_Compare(a, b) == IF b <= a THEN a - b ELSE 0
Elapsed(a, b) == IF b <= a THEN a - b ELSE a - b + ClockMod
\* The base keeps the difference in an unsigned long, the bridge in an int.
Kept(d) == IF Base THEN d ELSE ((d + IntMod \div 2) % IntMod) - IntMod \div 2

TypeOK ==
    /\ fw \in Firmwares
    /\ now \in 0..(ClockMod - 1)
    /\ pos \in [Servo -> Angle] /\ target \in [Servo -> Angle]
    /\ delay \in [Servo -> 0..(Byte - 1)] /\ last \in [Servo -> 0..(ClockMod - 1)]
    /\ pc \in {"delay", "angle", "delta", "target", "pace", "move", "stamp"} /\ i \in Servo
    /\ delta \in Int
    /\ seen \in [target : Angle, delay : 0..(Byte - 1)]
    /\ spent \in 0..MaxLoop /\ host \in BOOLEAN
    /\ since \in [Servo -> 0..MaxSince]

\* What the constructors leave to setup().
Init ==
    /\ fw \in Firmwares
    /\ now = 0
    /\ pos = [s \in Servo |-> 0] /\ target = pos
    /\ delay = pos /\ last = pos /\ since = pos
    /\ pc = "delay" /\ i = 1 /\ delta = 0
    /\ seen = [target |-> 0, delay |-> 0]
    /\ spent = 0 /\ host = TRUE

-----------------------------------------------------------------------------
(* The environment: commands and the clock.                                *)

\* A serial command runs between two passes over the servos, one from the
\* base's I2C bus at any point, of setup() too.
Receives ==
    /\ host
    /\ ~Base \/ Link = "serial" => pc = "delta" /\ i = 1

\* 's' and 'z': setTargetPos; the bridge's servos keep their pace.
SetTargetPos(s, angle, ms) ==
    /\ Receives
    /\ target' = [target EXCEPT ![s] = Cut(angle)]
    /\ delay' = IF Base THEN [delay EXCEPT ![s] = ms] ELSE delay
    /\ UNCHANGED <<fw, now, pos, last, since, host, main>>

HostDies ==
    /\ host /\ host' = FALSE
    /\ UNCHANGED <<fw, now, servo, main>>

Tick ==
    /\ spent < MaxLoop /\ spent' = spent + 1
    /\ now' = Plus(now, 1)
    /\ since' = [s \in Servo |-> IF since[s] < MaxSince THEN since[s] + 1
                                                        ELSE since[s]]
    /\ UNCHANGED <<fw, pos, target, delay, last, pc, i, delta, seen, host>>

-----------------------------------------------------------------------------
(* setup() and moveServo (doSweep), for one servo after the other.         *)

Goto(p) == pc' = p /\ UNCHANGED <<i, spent>>

\* The next servo at p, or after the last one the first at q in the next pass.
NextServo(p, q) ==
    /\ pc' = IF i < Servos THEN p ELSE q
    /\ i' = IF i < Servos THEN i + 1 ELSE 1
    /\ spent' = IF i < Servos THEN spent ELSE 0

\* initServo: the pace ...
InitDelay ==
    /\ pc = "delay"
    /\ delay' = [delay EXCEPT ![i] = IF Base THEN 0 ELSE StepDelay]
    /\ Goto("angle")
    /\ UNCHANGED <<fw, now, pos, target, last, since, delta, seen, host>>

\* ... then both angles and the time.
InitServo ==
    /\ pc = "angle"
    /\ pos' = [pos EXCEPT ![i] = InitAngle[i]]
    /\ target' = [target EXCEPT ![i] = InitAngle[i]]
    /\ last' = [last EXCEPT ![i] = now] /\ since' = [since EXCEPT ![i] = 0]
    /\ NextServo("delay", "delta")
    /\ UNCHANGED <<fw, now, delay, delta, seen, host>>

\* delta = millis() - lastMoveTime.
Delta ==
    /\ pc = "delta"
    /\ delta' = Kept(Elapsed(now, last[i]))
    /\ Goto("target")
    /\ UNCHANGED <<fw, now, servo, seen, host>>

\* The fields a command may change, each read for the test in its turn ...
LoadTarget ==
    /\ pc = "target"
    /\ seen' = [seen EXCEPT !.target = target[i]]
    /\ Goto("pace")
    /\ UNCHANGED <<fw, now, servo, delta, host>>

LoadDelay ==
    /\ pc = "pace"
    /\ seen' = [seen EXCEPT !.delay = delay[i]]
    /\ Goto("move")
    /\ UNCHANGED <<fw, now, servo, delta, host>>

\* Mistake: a servo turns whether or not it has arrived.
Due_Always == delta > seen.delay
\* The bridge looks at the angle only when it is time.
Due == delta > seen.delay /\ (Base => seen.target # pos[i])

Stay ==
    /\ pc = "move" /\ ~Due
    /\ NextServo("delta", "delta")
    /\ UNCHANGED <<fw, now, servo, delta, seen, host>>

\* A degree from p up or down, for a target t.
Degree(p, t) ==
    IF t > p THEN Cut(p + 1) ELSE IF Base \/ t < p THEN Cut(p - 1) ELSE p

\* ... and the target a second time for the direction, where the compiler may
\* also keep what it has read: a degree, and the servo written.
Move ==
    /\ pc = "move" /\ Due
    /\ \E t \in {seen.target, target[i]} : pos' = [pos EXCEPT ![i] = Degree(@, t)]
    /\ since' = IF pos' = pos THEN since ELSE [since EXCEPT ![i] = 0]
    /\ Goto("stamp")
    /\ UNCHANGED <<fw, now, target, delay, last, delta, seen, host>>

\* Mistake: the step is not timed.
TimeOf_Old == last[i]
TimeOf == now

\* lastMoveTime = millis().
Stamp ==
    /\ pc = "stamp"
    /\ last' = [last EXCEPT ![i] = TimeOf]
    /\ NextServo("delta", "delta")
    /\ UNCHANGED <<fw, now, pos, target, delay, since, delta, seen, host>>

Main ==
    \/ InitDelay \/ InitServo
    \/ Delta \/ LoadTarget \/ LoadDelay \/ Stay \/ Move \/ Stamp

Next ==
    \/ \E s \in Servo, angle \in Angles, ms \in Delays : SetTargetPos(s, angle, ms)
    \/ HostDies \/ Tick \/ Main

\* The main loop keeps turning and the time keeps passing.
Spec == Init /\ [][Next]_vars /\ WF_vars(Main) /\ WF_vars(Tick)

-----------------------------------------------------------------------------
(* Properties.                                                             *)

\* A step from p to q by one uncut degree, which does not pass t.
Towards(p, q, t) == (q = p + 1 /\ q <= t) \/ (q = p - 1 /\ q >= t)

\* But for initServo a servo goes a degree at a time towards one of the targets
\* that moveServo (doSweep) has read for the step and never past it, and its byte
\* does not wrap from one end of the scale to the other.  The one exception is a
\* command that comes between the two looks of the base's moveServo and asks for
\* the angle the servo is at: that servo goes a degree too far down.
OneDegree ==
    [][pc # "angle" => \A s \in Servo : pos'[s] # pos[s] =>
         \/ \E t \in {seen.target, target[s]} : Towards(pos[s], pos'[s], t)
         \/ /\ target[s] = pos[s] /\ seen.target # pos[s]
            /\ pos'[s] = Cut(pos[s] - 1)]_vars

\* Two degrees of a servo are more than its step delay apart in real time,
\* the wrap of the clock, the width of the difference and commands in between
\* notwithstanding (moveServo: delta, lastMoveTime; doSweep: lastSweepCommand).
Paced ==
    [][pc # "angle" => \A s \in Servo : pos'[s] # pos[s] => since[s] > seen.delay]_vars

\* Once the host is silent every servo ends at its target, for good, however the
\* last commands came between the steps of moveServo, and however far they made
\* it go astray.  (A target set before setup() is through is the one initServo
\* puts in its place, and on the base an angle is a byte.)
Arrives == ~host ~> [](pos = target)
=============================================================================
