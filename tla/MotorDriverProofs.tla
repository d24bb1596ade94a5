-------------------------- MODULE MotorDriverProofs --------------------------
(***************************************************************************)
(* Proofs about MotorDriver, for every number of wheels.                   *)
(***************************************************************************)
EXTENDS MotorDriver, TLAPS

LEMMA ZeroIsPower == Zero \in Power /\ \A w \in Wheel : Zero[w] = 0
  BY DEF Zero, Power

\* The record of a call under way, or of none.
LEMMA CallType ==
    ASSUME NEW P, NEW p \in P
    PROVE  /\ Call(p) \in [wheel : 0..NW, write : Writes, power : P]
           /\ Zero \in P =>
                NoCall \in [wheel : 0..NW, write : Writes, power : P]
  <1>1. 1 \in 0..NW /\ 0 \in 0..NW /\ "in1Low" \in Writes
    BY SystemAssumption DEF Writes
  <1> QED BY <1>1 DEF Call, NoCall

\* A call goes on as a call.
LEMMA AdvanceType ==
    ASSUME NEW P, Zero \in P,
           NEW c \in [wheel : 0..NW, write : Writes, power : P], c.wheel # 0
    PROVE  Advance(c) \in [wheel : 0..NW, write : Writes, power : P]
  <1>1. AfterWrite(c) \in Writes
    BY DEF AfterWrite, After, Writes
  <1>2. CASE c.write # "pwm"
    BY <1>1, <1>2 DEF Advance
  <1>3. CASE c.write = "pwm" /\ c.wheel < NW
    <2>1. c.wheel + 1 \in 0..NW /\ "in1Low" \in Writes
      BY <1>3, SystemAssumption DEF Writes
    <2> QED BY <1>3, <2>1 DEF Advance
  <1>4. CASE c.write = "pwm" /\ ~(c.wheel < NW)
    BY <1>4, CallType DEF Advance
  <1> QED BY <1>2, <1>3, <1>4

LEMMA WriteType ==
    ASSUME TypeOK, NEW c, c.wheel \in Wheel, Write(c)
    PROVE  /\ forward' \subseteq Wheel /\ in1' \subseteq Wheel
           /\ in2' \subseteq Wheel
           /\ duty' \in [Wheel -> {"zero", "one", "power"}]
  BY DEF TypeOK, Write, DirStep, Level

LEMMA InitType == Init => TypeOK
  BY ZeroIsPower, CallType DEF Init, TypeOK

LEMMA NextType == TypeOK /\ [Next]_vars => TypeOK'
  <1> SUFFICES ASSUME TypeOK, [Next]_vars PROVE TypeOK'
    OBVIOUS
  <1>1. CASE MoveCmd
    BY <1>1 DEF TypeOK, MoveCmd, pins
  <1>8. CASE TestMoving
    BY <1>8 DEF TypeOK, TestMoving, pins
  <1>2. CASE StopCmd
    BY <1>2, CallType DEF TypeOK, StopCmd, StopCall, pins
  <1>3. CASE UpdateMotors
    <2>1. PICK p \in Power : main' = Call(p)
      BY <1>3 DEF UpdateMotors
    <2> QED BY <1>3, <2>1, CallType DEF TypeOK, UpdateMotors, pins
  <1>4. CASE AutoStop
    BY <1>4, ZeroIsPower, CallType DEF TypeOK, AutoStop, pins
  <1>5. CASE IsrWrite
    <2>1. isr.wheel \in Wheel /\ isr' = Advance(isr) /\ Write(isr)
      BY <1>5, SystemAssumption DEF IsrWrite, TypeOK, Wheel
    <2>2. Advance(isr) \in [wheel : 0..NW, write : Writes, power : {Zero}]
      BY <1>5, AdvanceType DEF IsrWrite, TypeOK
    <2> QED BY <1>5, <2>1, <2>2, WriteType DEF IsrWrite, TypeOK
  <1>6. CASE MainWrite
    <2>1. main.wheel \in Wheel /\ main' = Advance(main) /\ Write(main)
      BY <1>6, SystemAssumption DEF MainWrite, TypeOK, Wheel
    <2>2. Advance(main) \in [wheel : 0..NW, write : Writes, power : Power]
      BY <1>6, AdvanceType, ZeroIsPower DEF MainWrite, TypeOK
    <2> QED BY <1>6, <2>1, <2>2, WriteType DEF MainWrite, TypeOK
  <1>7. CASE UNCHANGED vars
    BY <1>7 DEF TypeOK, vars, pins
  <1> QED BY <1>1, <1>2, <1>3, <1>4, <1>5, <1>6, <1>7, <1>8 DEF Next

\* The types of the pins and of the two calls.
THEOREM PinsTypeCorrect == Spec => []TypeOK
  BY InitType, NextType, PTL DEF Spec

-----------------------------------------------------------------------------
(* The direction of the count, over either link.                           *)

\* What a call has established about the wheel it has come to: nothing an
\* interrupt does to the wheel's inputs can take it back.
Progress(c) ==
    LET w == c.wheel
    IN  w # 0 =>
          /\ c.write \in {"in2Low", "pwmOne", "dir", "in1"} => w \notin in1
          /\ c.write \in {"pwmOne", "dir", "in1", "in2"} => w \notin in2
          /\ c.write \in {"dir", "in1", "in2"} => c.power[w] # 0
          /\ c.write \in {"in1", "in2"} => (w \in forward <=> c.power[w] > 0)

DirectionInv ==
    /\ TypeOK
    /\ in1 \subseteq forward
    /\ in2 \cap forward = {}
    /\ Progress(main)
    /\ Progress(isr)

LEMMA DirectionInit == Init => DirectionInv
  BY InitType DEF Init, DirectionInv, Progress, NoCall

\* A write of a call that got this far keeps the inputs and the direction in
\* agreement, and the call gets further.
LEMMA DirectionWrite ==
    ASSUME TypeOK, NEW c \in [wheel : 0..NW, write : Writes, power : Power],
           in1 \subseteq forward, in2 \cap forward = {},
           c.wheel # 0, Progress(c), Write(c)
    PROVE  /\ in1' \subseteq forward' /\ in2' \cap forward' = {}
           /\ \A d : d = Advance(c) =>
                 LET w == d.wheel
                 IN  w # 0 =>
                      /\ d.write \in {"in2Low", "pwmOne", "dir", "in1"}
                           => w \notin in1'
                      /\ d.write \in {"pwmOne", "dir", "in1", "in2"}
                           => w \notin in2'
                      /\ d.write \in {"dir", "in1", "in2"} => d.power[w] # 0
                      /\ d.write \in {"in1", "in2"}
                           => (w \in forward' <=> d.power[w] > 0)
  <1> DEFINE w == c.wheel
  <1>0. w \in Wheel /\ c.power[w] \in {-1, 0, 1}
    BY SystemAssumption DEF Wheel, Power
  <1>1. in1' \subseteq forward' /\ in2' \cap forward' = {}
    <2>1. CASE c.write \in {"in1Low", "in2Low", "pwmOne", "pwm"}
      BY <1>0, <2>1 DEF Write, DirStep
    <2>2. CASE c.write = "dir"
      <3>1. /\ in1' = in1 /\ in2' = in2
            /\ forward' = Level(forward, w, c.power[w] > 0)
        BY <2>2 DEF Write, DirStep
      <3>2. w \notin in1 /\ w \notin in2
        BY <1>0, <2>2 DEF Progress
      <3> QED BY <3>1, <3>2 DEF Level
    <2>3. CASE c.write = "in1"
      <3>1. /\ in2' = in2 /\ forward' = forward
            /\ in1' = Level(in1, w, c.power[w] > 0)
        BY <2>3 DEF Write, DirStep
      <3>2. c.power[w] > 0 => w \in forward
        BY <1>0, <2>3 DEF Progress
      <3> QED BY <3>1, <3>2 DEF Level
    <2>4. CASE c.write = "in2"
      <3>1. /\ in1' = in1 /\ forward' = forward
            /\ in2' = Level(in2, w, c.power[w] < 0)
        BY <2>4 DEF Write, DirStep
      <3>2. c.power[w] < 0 => w \notin forward
        BY <1>0, <2>4 DEF Progress
      <3> QED BY <3>1, <3>2 DEF Level
    <2> QED BY <2>1, <2>2, <2>3, <2>4 DEF Writes
  <1>2. CASE c.write # "pwm"
    <2>1. /\ Advance(c).wheel = w /\ Advance(c).power = c.power
          /\ Advance(c).write = AfterWrite(c)
      BY <1>2 DEF Advance
    <2>2. CASE c.write = "in1Low"
      <3>1. w \notin in1' /\ AfterWrite(c) = "in2Low"
        BY <2>2 DEF Write, DirStep, AfterWrite, After
      <3> QED BY <1>1, <2>1, <3>1
    <2>3. CASE c.write = "in2Low"
      <3>1. w \notin in1' /\ w \notin in2' /\ AfterWrite(c) = "pwmOne"
        BY <2>3 DEF Write, DirStep, AfterWrite, After, Progress
      <3> QED BY <1>1, <2>1, <3>1
    <2>4. CASE c.write = "pwmOne"
      <3>1. w \notin in1' /\ w \notin in2'
        BY <2>4 DEF Write, DirStep, Progress
      <3>2. AfterWrite(c) = IF c.power[w] = 0 THEN "pwm" ELSE "dir"
        BY <2>4 DEF AfterWrite, After
      <3> QED BY <1>1, <2>1, <3>1, <3>2
    <2>5. CASE c.write = "dir"
      <3>1. w \notin in1' /\ w \notin in2' /\ c.power[w] # 0
        BY <2>5 DEF Write, DirStep, Progress
      <3>2. w \in forward' <=> c.power[w] > 0
        BY <1>0, <2>5 DEF Write, DirStep, Level
      <3>3. AfterWrite(c) = "in1"
        BY <2>5 DEF AfterWrite, After
      <3> QED BY <1>1, <2>1, <3>1, <3>2, <3>3
    <2>6. CASE c.write = "in1"
      <3>1. w \notin in2' /\ c.power[w] # 0
        BY <2>6 DEF Write, DirStep, Progress
      <3>2. w \in forward' <=> c.power[w] > 0
        BY <1>0, <2>6 DEF Write, DirStep, Progress
      <3>3. AfterWrite(c) = "in2"
        BY <2>6 DEF AfterWrite, After
      <3> QED BY <1>1, <2>1, <3>1, <3>2, <3>3
    <2>7. CASE c.write = "in2"
      <3>1. AfterWrite(c) = "pwm"
        BY <2>7 DEF AfterWrite, After
      <3> QED BY <1>1, <2>1, <3>1
    <2> QED BY <1>1, <1>2, <2>2, <2>3, <2>4, <2>5, <2>6, <2>7 DEF Writes
  <1>3. CASE c.write = "pwm"
    <2>1. Advance(c).wheel = 0 \/ Advance(c).write = "in1Low"
      BY <1>3 DEF Advance, NoCall
    <2> QED BY <1>1, <2>1
  <1> QED BY <1>1, <1>2, <1>3

LEMMA DirectionNext == DirectionInv /\ [Next]_vars => DirectionInv'
  <1> SUFFICES ASSUME DirectionInv, [Next]_vars PROVE DirectionInv'
    OBVIOUS
  <1>0. TypeOK /\ TypeOK'
    BY NextType DEF DirectionInv
  <1>1. CASE MoveCmd
    BY <1>0, <1>1 DEF DirectionInv, Progress, MoveCmd, pins
  <1>8. CASE TestMoving
    BY <1>0, <1>8 DEF DirectionInv, Progress, TestMoving, pins
  <1>2. CASE StopCmd
    BY <1>0, <1>2 DEF DirectionInv, Progress, StopCmd, StopCall, pins, Call
  <1>3. CASE UpdateMotors
    BY <1>0, <1>3 DEF DirectionInv, Progress, UpdateMotors, pins, Call
  <1>4. CASE AutoStop
    BY <1>0, <1>4 DEF DirectionInv, Progress, AutoStop, pins, Call
  <1>5. CASE IsrWrite
    <2>1. isr \in [wheel : 0..NW, write : Writes, power : Power]
      BY <1>0, ZeroIsPower DEF TypeOK
    <2>2. isr.wheel # 0 /\ Write(isr) /\ isr' = Advance(isr) /\ main' = main
      BY <1>5 DEF IsrWrite
    <2>3. /\ in1' \subseteq forward' /\ in2' \cap forward' = {}
          /\ Progress(isr)'
      BY <1>0, <2>1, <2>2, DirectionWrite DEF DirectionInv, Progress
    <2>4. Progress(main)'
      <3>1. isr.power[isr.wheel] = 0
        BY <1>0, <2>2, ZeroIsPower, SystemAssumption DEF TypeOK, Wheel
      <3>2. isr.write \notin {"dir", "in1", "in2"}
        BY <2>2, <3>1 DEF DirectionInv, Progress
      <3>3. in1' \subseteq in1 /\ in2' \subseteq in2 /\ forward' = forward
        BY <2>2, <3>2 DEF Write, DirStep
      <3> QED BY <2>2, <3>3 DEF DirectionInv, Progress
    <2> QED BY <1>0, <2>3, <2>4 DEF DirectionInv
  <1>6. CASE MainWrite
    <2>1. main \in [wheel : 0..NW, write : Writes, power : Power]
      BY <1>0 DEF TypeOK
    <2>2. main.wheel # 0 /\ Write(main) /\ main' = Advance(main)
          /\ isr' = isr /\ isr.wheel = 0
      BY <1>6 DEF MainWrite
    <2>3. /\ in1' \subseteq forward' /\ in2' \cap forward' = {}
          /\ Progress(main)'
      BY <1>0, <2>1, <2>2, DirectionWrite DEF DirectionInv, Progress
    <2>4. Progress(isr)'
      BY <2>2 DEF Progress
    <2> QED BY <1>0, <2>3, <2>4 DEF DirectionInv
  <1>7. CASE UNCHANGED vars
    BY <1>0, <1>7 DEF DirectionInv, Progress, vars, pins
  <1> QED BY <1>1, <1>2, <1>3, <1>4, <1>5, <1>6, <1>7, <1>8 DEF Next

LEMMA DirectionInvariant == Spec => []DirectionInv
  BY DirectionInit, DirectionNext, PTL DEF Spec

\* Whichever link the commands come over, an encoder interrupt never counts a
\* wheel against the direction its driver turns it in.
THEOREM PinsCountTheirDirection == Spec => []CountsItsDirection
  <1>1. DirectionInv => CountsItsDirection
    BY DEF DirectionInv, CountsItsDirection, Mode
  <1> QED BY <1>1, DirectionInvariant, PTL

-----------------------------------------------------------------------------
(* Dead time, while only one call is under way.                            *)

\* The pins between two visits of a call: turning one way or not at all, or
\* braked.
Settled(w) ==
    \/ ~(w \in in1 /\ w \in in2) /\ duty[w] = "power"
    \/ w \notin in1 /\ w \notin in2 /\ duty[w] = "zero"

\* The pins of the wheel a call has come to.
Visiting(c) ==
    LET w == c.wheel
    IN  CASE c.write = "in1Low" -> Settled(w)
          [] c.write = "in2Low" -> /\ w \notin in1
                                   /\ \/ duty[w] = "power"
                                      \/ w \notin in2 /\ duty[w] = "zero"
          [] c.write = "pwmOne" -> w \notin in1 /\ w \notin in2
          [] c.write \in {"dir", "in1"} -> /\ w \notin in1 /\ w \notin in2
                                          /\ duty[w] = "one"
                                          /\ c.power[w] # 0
          [] c.write = "in2" -> /\ w \in in1 <=> c.power[w] > 0
                                /\ w \notin in2
                                /\ duty[w] = "one"
                                /\ c.power[w] # 0
          [] OTHER -> /\ w \in in1 <=> c.power[w] > 0
                      /\ w \in in2 <=> c.power[w] < 0
                      /\ duty[w] = "one"

\* A call that was interrupted, or that interrupts one, finds less: the pins
\* high1 and high2 that it has left so far, or that the other has lowered.
Resumed(c, high1, high2) ==
    LET w == c.wheel
    IN  /\ c.write \in {"in2Low", "pwmOne", "dir", "in1"} => w \notin high1
        /\ c.write \in {"pwmOne", "dir", "in1", "in2"} => w \notin high2
        /\ c.write \in {"dir", "in1", "in2"} => c.power[w] # 0
        /\ c.write \in {"in2", "pwm"} => (w \in high1 => c.power[w] > 0)
        /\ c.write = "pwm" => (w \in high2 => c.power[w] < 0)

PinInv ==
    /\ TypeOK
    /\ \A w \in Wheel \ {main.wheel, isr.wheel} : Settled(w)
    /\ ~raced => /\ main.wheel = 0 \/ isr.wheel = 0
                 /\ main.wheel # 0 => Visiting(main)
                 /\ isr.wheel # 0 => Visiting(isr)
    /\ raced => /\ isr.wheel # 0 => Resumed(isr, in1, in2)
                /\ main.wheel \notin {0, isr.wheel} => Resumed(main, in1, in2)
                /\ main.wheel # 0 => Resumed(main, {}, {})

LEMMA PinInit == Init => PinInv
  BY InitType DEF Init, PinInv, Settled, NoCall

\* One write of the only call under way: the other wheels are left alone, and
\* the wheel it has come to goes over to the next write through the off state.
LEMMA PinWrite ==
    ASSUME TypeOK, NEW c \in [wheel : 0..NW, write : Writes, power : Power],
           NEW d, d = Advance(c), c.wheel # 0, Visiting(c), Write(c),
           \A w \in Wheel \ {c.wheel} : Settled(w)
    PROVE  /\ \A w \in Wheel \ {c.wheel} : Settled(w)' /\ Mode(w)' = Mode(w)
           /\ c.write # "pwm" => /\ d.wheel = c.wheel /\ d.power = c.power
                                 /\ d.write = AfterWrite(c)
           /\ c.write = "pwm" => d.wheel = 0 \/
                 (d.write = "in1Low" /\ d.wheel \in Wheel \ {c.wheel})
           /\ c.write = "pwm" => Settled(c.wheel)'
           /\ Mode(c.wheel)' # Mode(c.wheel)
                => Mode(c.wheel) = "off" \/ Mode(c.wheel)' = "off"
  <1> DEFINE w == c.wheel
  <1>0. w \in Wheel /\ c.power[w] \in {-1, 0, 1}
    BY SystemAssumption DEF Wheel, Power
  <1>1. \A v \in Wheel \ {w} : /\ v \in in1' <=> v \in in1
                               /\ v \in in2' <=> v \in in2
                               /\ duty'[v] = duty[v]
    BY <1>0 DEF Write, DirStep, Level, TypeOK
  <1>2. \A v \in Wheel \ {w} : Settled(v)' /\ Mode(v)' = Mode(v)
    BY <1>1 DEF Settled, Mode
  <1>3. c.write # "pwm" => /\ d.wheel = w /\ d.power = c.power
                           /\ d.write = AfterWrite(c)
    BY DEF Advance
  <1>4. c.write = "pwm" =>
           d.wheel = 0 \/ (d.write = "in1Low" /\ d.wheel \in Wheel \ {w})
    BY <1>0, SystemAssumption DEF Advance, NoCall, Wheel
  <1>5. c.write = "pwm" => Settled(w)'
    BY <1>0 DEF Write, DirStep, Visiting, Settled, TypeOK
  <1>6. Mode(w)' # Mode(w) => Mode(w) = "off" \/ Mode(w)' = "off"
    <2>1. CASE c.write = "in1Low"
      BY <1>0, <2>1 DEF Write, DirStep, Visiting, Settled, Mode
    <2>2. CASE c.write = "in2Low"
      BY <1>0, <2>2 DEF Write, DirStep, Visiting, Mode
    <2>3. CASE c.write = "pwmOne"
      BY <1>0, <2>3 DEF Write, DirStep, Visiting, Mode, TypeOK
    <2>4. CASE c.write \in {"dir", "in1"}
      BY <1>0, <2>4 DEF Write, DirStep, Visiting, Mode
    <2>5. CASE c.write = "in2"
      <3>1. duty' = duty /\ in1' = in1 /\ duty[w] = "one" /\ w \notin in2
        BY <2>5 DEF Write, DirStep, Visiting
      <3>2. c.power[w] > 0 => w \notin in2'
        BY <1>0, <2>5, <3>1 DEF Write, DirStep, Level
      <3>3. ~(c.power[w] > 0) => w \notin in1
        BY <2>5 DEF Visiting
      <3> QED BY <3>1, <3>2, <3>3 DEF Mode
    <2>6. CASE c.write = "pwm"
      <3>1. in1' = in1 /\ in2' = in2 /\ duty[w] = "one"
        BY <2>6 DEF Write, DirStep, Visiting
      <3>2. CASE c.power[w] = 0
        BY <2>6, <3>1, <3>2 DEF Visiting, Mode
      <3>3. CASE c.power[w] # 0
        <4>1. duty'[w] = "power"
          BY <1>0, <2>6, <3>3 DEF Write, DirStep, TypeOK
        <4> QED BY <3>1, <4>1 DEF Mode
      <3> QED BY <3>2, <3>3
    <2> QED BY <2>1, <2>2, <2>3, <2>4, <2>5, <2>6 DEF Writes
  <1> QED BY <1>2, <1>3, <1>4, <1>5, <1>6

\* ... and after it the wheel is as the next write expects it.
LEMMA PinVisit ==
    ASSUME TypeOK, NEW c \in [wheel : 0..NW, write : Writes, power : Power],
           c.wheel # 0, c.write # "pwm", Visiting(c), Write(c)
    PROVE  LET w == c.wheel
           IN  /\ c.write = "in1Low" =>
                     w \notin in1' /\ \/ duty'[w] = "power"
                                      \/ w \notin in2' /\ duty'[w] = "zero"
               /\ c.write = "in2Low" => w \notin in1' /\ w \notin in2'
               /\ c.write \in {"pwmOne", "dir"} =>
                     w \notin in1' /\ w \notin in2' /\ duty'[w] = "one"
               /\ c.write = "in1" => /\ w \in in1' <=> c.power[w] > 0
                                     /\ w \notin in2' /\ duty'[w] = "one"
               /\ c.write = "in2" => /\ w \in in1' <=> c.power[w] > 0
                                     /\ w \in in2' <=> c.power[w] < 0
                                     /\ duty'[w] = "one"
               /\ c.write \in {"dir", "in1", "in2"} => c.power[w] # 0
  <1> DEFINE w == c.wheel
  <1>0. w \in Wheel /\ c.power[w] \in {-1, 0, 1}
    BY SystemAssumption DEF Wheel, Power
  <1>1. CASE c.write = "in1Low"
    BY <1>0, <1>1 DEF Write, DirStep, Visiting, Settled
  <1>2. CASE c.write = "in2Low"
    BY <1>0, <1>2 DEF Write, DirStep, Visiting
  <1>3. CASE c.write = "pwmOne"
    BY <1>0, <1>3 DEF Write, DirStep, Visiting, TypeOK
  <1>4. CASE c.write = "dir"
    BY <1>0, <1>4 DEF Write, DirStep, Visiting
  <1>5. CASE c.write = "in1"
    <2>1. in1' = Level(in1, w, c.power[w] > 0) /\ in2' = in2 /\ duty' = duty
      BY <1>5 DEF Write, DirStep
    <2>2. w \notin in1 /\ w \notin in2 /\ duty[w] = "one" /\ c.power[w] # 0
      BY <1>5 DEF Visiting
    <2> QED BY <1>5, <2>1, <2>2 DEF Level
  <1>6. CASE c.write = "in2"
    <2>1. in2' = Level(in2, w, c.power[w] < 0) /\ in1' = in1 /\ duty' = duty
      BY <1>6 DEF Write, DirStep
    <2>2. /\ w \in in1 <=> c.power[w] > 0
          /\ w \notin in2 /\ duty[w] = "one" /\ c.power[w] # 0
      BY <1>6 DEF Visiting
    <2> QED BY <1>6, <2>1, <2>2 DEF Level
  <1> QED BY <1>1, <1>2, <1>3, <1>4, <1>5, <1>6 DEF Writes

LEMMA VisitAdvances ==
    ASSUME TypeOK, NEW c \in [wheel : 0..NW, write : Writes, power : Power],
           NEW d, d = Advance(c), c.wheel # 0, Visiting(c), Write(c),
           \A w \in Wheel \ {c.wheel} : Settled(w)
    PROVE  /\ d.wheel # 0 =>
                LET w == d.wheel
                IN  CASE d.write = "in1Low" -> Settled(w)'
                      [] d.write = "in2Low" ->
                           /\ w \notin in1'
                           /\ \/ duty'[w] = "power"
                              \/ w \notin in2' /\ duty'[w] = "zero"
                      [] d.write = "pwmOne" -> w \notin in1' /\ w \notin in2'
                      [] d.write \in {"dir", "in1"} ->
                           /\ w \notin in1' /\ w \notin in2'
                           /\ duty'[w] = "one"
                           /\ d.power[w] # 0
                      [] d.write = "in2" -> /\ w \in in1' <=> d.power[w] > 0
                                            /\ w \notin in2'
                                            /\ duty'[w] = "one"
                                            /\ d.power[w] # 0
                      [] OTHER -> /\ w \in in1' <=> d.power[w] > 0
                                  /\ w \in in2' <=> d.power[w] < 0
                                  /\ duty'[w] = "one"
           /\ \A w \in Wheel \ {d.wheel} : Settled(w)'
  <1> DEFINE w == c.wheel
  <1>1. CASE c.write = "pwm"
    <2>1. \A v \in Wheel : Settled(v)'
      BY <1>1, PinWrite
    <2>2. d.wheel = 0 \/ (d.write = "in1Low" /\ d.wheel \in Wheel)
      BY <1>1, PinWrite
    <2> QED BY <2>1, <2>2
  <1>2. CASE c.write # "pwm"
    <2>1. d.wheel = w /\ d.power = c.power /\ d.write = AfterWrite(c)
      BY <1>2, PinWrite
    <2>2. \A v \in Wheel \ {w} : Settled(v)'
      BY PinWrite
    <2>3. c.power[w] \in {-1, 0, 1}
      BY SystemAssumption DEF Wheel, Power
    <2>4. CASE c.write = "in1Low"
      BY <1>2, <2>1, <2>2, <2>4, PinVisit DEF AfterWrite, After
    <2>5. CASE c.write = "in2Low"
      BY <1>2, <2>1, <2>2, <2>5, PinVisit DEF AfterWrite, After
    <2>6. CASE c.write = "pwmOne"
      <3>1. d.write = IF c.power[w] = 0 THEN "pwm" ELSE "dir"
        BY <2>1, <2>6 DEF AfterWrite, After
      <3>2. w \notin in1' /\ w \notin in2' /\ duty'[w] = "one"
        BY <1>2, <2>6, PinVisit
      <3> QED BY <2>1, <2>2, <2>3, <3>1, <3>2
    <2>7. CASE c.write = "dir"
      BY <1>2, <2>1, <2>2, <2>7, PinVisit DEF AfterWrite, After
    <2>8. CASE c.write = "in1"
      <3>1. d.write = "in2"
        BY <2>1, <2>8 DEF AfterWrite, After
      <3> QED BY <1>2, <2>1, <2>2, <2>8, <3>1, PinVisit
    <2>9. CASE c.write = "in2"
      <3>1. d.write = "pwm"
        BY <2>1, <2>9 DEF AfterWrite, After
      <3> QED BY <1>2, <2>1, <2>2, <2>9, <3>1, PinVisit
    <2> QED BY <1>2, <2>4, <2>5, <2>6, <2>7, <2>8, <2>9 DEF Writes
  <1> QED BY <1>1, <1>2

\* The change of mode of one step is through the off state.
ThroughOff ==
    \A w \in Wheel :
       Mode(w)' # Mode(w) => Mode(w) = "off" \/ Mode(w)' = "off"

\* One write of a call that races: nothing else is touched, and what is left at
\* the end of a visit is settled.
LEMMA ResumedAdvances ==
    ASSUME TypeOK, NEW c \in [wheel : 0..NW, write : Writes, power : Power],
           NEW d, d = Advance(c), c.wheel # 0, Resumed(c, in1, in2), Write(c)
    PROVE  /\ \A v \in Wheel \ {c.wheel} : /\ v \in in1' <=> v \in in1
                                           /\ v \in in2' <=> v \in in2
                                           /\ duty'[v] = duty[v]
           /\ d.wheel # 0 => Resumed(d, in1', in2')
           /\ c.write = "pwm" =>
                 /\ \A v \in Wheel : v = c.wheel => Settled(v)'
                 /\ d.wheel # c.wheel
                 /\ c.power[c.wheel] = 0 => c.wheel \notin in1' /\ c.wheel \notin in2'
           /\ c.write # "pwm" => d.wheel = c.wheel
  <1> DEFINE w == c.wheel
  <1>0. w \in Wheel /\ c.power[w] \in {-1, 0, 1}
    BY SystemAssumption DEF Wheel, Power
  <1>1. \A v \in Wheel \ {w} : /\ v \in in1' <=> v \in in1
                               /\ v \in in2' <=> v \in in2
                               /\ duty'[v] = duty[v]
    BY <1>0 DEF Write, DirStep, Level, TypeOK
  <1>2. CASE c.write = "pwm"
    <2>1. d.wheel = 0 \/ (d.write = "in1Low" /\ d.wheel # w)
      BY <1>0, <1>2, SystemAssumption DEF Advance, NoCall, Wheel
    <2>2. in1' = in1 /\ in2' = in2
      BY <1>2 DEF Write, DirStep
    <2>3. /\ w \in in1 => c.power[w] > 0
          /\ w \in in2 => c.power[w] < 0
      BY <1>2 DEF Resumed
    <2>4. duty'[w] = IF c.power[w] = 0 THEN "zero" ELSE "power"
      BY <1>0, <1>2 DEF Write, DirStep, TypeOK
    <2>5. Settled(w)'
      BY <1>0, <2>2, <2>3, <2>4 DEF Settled
    <2>6. d.wheel # 0 => Resumed(d, in1', in2')
      BY <2>1 DEF Resumed
    <2>7. d.wheel # w
      BY <1>0, <2>1, SystemAssumption DEF Wheel
    <2> QED BY <1>0, <1>1, <1>2, <2>2, <2>3, <2>5, <2>6, <2>7
  <1>3. CASE c.write # "pwm"
    <2>1. d.wheel = w /\ d.power = c.power /\ d.write = AfterWrite(c)
      BY <1>3 DEF Advance
    <2>2. Resumed(d, in1', in2')
      <3>1. CASE c.write = "in1Low"
        BY <1>0, <2>1, <3>1 DEF AfterWrite, After, Write, DirStep, Resumed
      <3>2. CASE c.write = "in2Low"
        BY <1>0, <2>1, <3>2 DEF AfterWrite, After, Write, DirStep, Resumed
      <3>3. CASE c.write = "pwmOne"
        <4>1. /\ in1' = in1 /\ in2' = in2 /\ w \notin in1 /\ w \notin in2
              /\ d.write = IF c.power[w] = 0 THEN "pwm" ELSE "dir"
          BY <2>1, <3>3 DEF AfterWrite, After, Write, DirStep, Resumed
        <4> QED BY <2>1, <4>1 DEF Resumed
      <3>4. CASE c.write = "dir"
        BY <1>0, <2>1, <3>4 DEF AfterWrite, After, Write, DirStep, Resumed
      <3>5. CASE c.write = "in1"
        <4>1. /\ in1' = Level(in1, w, c.power[w] > 0) /\ in2' = in2
              /\ w \notin in1 /\ w \notin in2 /\ c.power[w] # 0
              /\ d.write = "in2"
          BY <2>1, <3>5 DEF AfterWrite, After, Write, DirStep, Resumed
        <4> QED BY <2>1, <4>1 DEF Resumed, Level
      <3>6. CASE c.write = "in2"
        <4>1. /\ in2' = Level(in2, w, c.power[w] < 0) /\ in1' = in1
              /\ w \in in1 => c.power[w] > 0
              /\ w \notin in2 /\ d.write = "pwm"
          BY <2>1, <3>6 DEF AfterWrite, After, Write, DirStep, Resumed
        <4> QED BY <2>1, <4>1 DEF Resumed, Level
      <3> QED BY <1>3, <3>1, <3>2, <3>3, <3>4, <3>5, <3>6 DEF Writes
    <2> QED BY <1>1, <1>3, <2>1, <2>2
  <1> QED BY <1>2, <1>3

\* A visited wheel is as one that may be interrupted.
LEMMA VisitingResumed ==
    ASSUME TypeOK, NEW c \in [wheel : 0..NW, write : Writes, power : Power],
           c.wheel # 0, Visiting(c)
    PROVE  Resumed(c, in1, in2)
  <1>1. c.wheel \in Wheel /\ c.power[c.wheel] \in {-1, 0, 1}
    BY SystemAssumption DEF Wheel, Power
  <1> QED BY <1>1 DEF Visiting, Resumed, Writes

LEMMA PinNext == PinInv /\ [Next]_vars => PinInv' /\ (~raced => ThroughOff)
  <1> SUFFICES ASSUME PinInv, [Next]_vars PROVE PinInv' /\ (~raced => ThroughOff)
    OBVIOUS
  <1>0. TypeOK /\ TypeOK'
    BY NextType DEF PinInv
  <1>t. /\ isr \in [wheel : 0..NW, write : Writes, power : Power]
        /\ main \in [wheel : 0..NW, write : Writes, power : Power]
    BY <1>0, ZeroIsPower DEF TypeOK
  <1>a. ASSUME pins' = pins
        PROVE  /\ \A w : Mode(w)' = Mode(w) /\ (Settled(w)' <=> Settled(w))
               /\ main' = main => (Visiting(main)' <=> Visiting(main))
               /\ in1' = in1 /\ in2' = in2
    BY <1>a DEF Mode, Settled, Visiting, pins
  <1>1. CASE MoveCmd
    BY <1>0, <1>a, <1>1 DEF PinInv, ThroughOff, MoveCmd, Receives
  <1>7. CASE TestMoving
    BY <1>0, <1>a, <1>7 DEF PinInv, ThroughOff, TestMoving, Idle
  <1>2. CASE StopCmd
    <2>1. /\ main' = main /\ isr.wheel = 0 /\ raced' = (main.wheel # 0)
          /\ isr' = Call(Zero) /\ pins' = pins
      BY <1>2 DEF StopCmd, StopCall, Receives
    <2>2. isr'.wheel = 1 /\ isr'.write = "in1Low" /\ 1 \in Wheel
      BY <2>1, SystemAssumption DEF Call, Wheel
    <2>3. \A w \in Wheel \ {main'.wheel, isr'.wheel} : Settled(w)'
      BY <1>a, <2>1, SystemAssumption DEF PinInv, Wheel
    <2>4. CASE main.wheel = 0
      <3>1. Settled(1)'
        BY <1>a, <2>1, <2>2, <2>4, SystemAssumption DEF PinInv, Wheel
      <3>2. Visiting(isr)'
        BY <2>2, <3>1 DEF Visiting
      <3> QED BY <1>0, <1>a, <2>1, <2>3, <2>4, <3>2 DEF PinInv, ThroughOff
    <2>5. CASE main.wheel # 0
      <3>1. Resumed(main, in1, in2)
        BY <1>0, <1>t, <2>1, <2>5, VisitingResumed DEF PinInv
      <3>2. Resumed(main, {}, {})
        BY <3>1 DEF Resumed
      <3>3. Resumed(isr', in1', in2')
        BY <2>2 DEF Resumed
      <3> QED BY <1>0, <1>a, <2>1, <2>3, <2>5, <3>1, <3>2, <3>3 DEF PinInv, ThroughOff
    <2> QED BY <2>4, <2>5
  <1>3. CASE UpdateMotors \/ AutoStop
    <2>1. PICK p \in Power : main' = Call(p)
      BY <1>3, ZeroIsPower DEF UpdateMotors, AutoStop
    <2>2. /\ main.wheel = 0 /\ isr.wheel = 0 /\ isr' = isr /\ pins' = pins
          /\ raced' = FALSE
      BY <1>3 DEF UpdateMotors, AutoStop, Idle
    <2>3. main'.wheel = 1 /\ main'.write = "in1Low" /\ 1 \in Wheel
      BY <2>1, SystemAssumption DEF Call, Wheel
    <2>4. \A w \in Wheel : Settled(w)'
      BY <1>a, <2>2, SystemAssumption DEF PinInv, Wheel
    <2>5. Visiting(main)'
      BY <2>3, <2>4 DEF Visiting
    <2> QED BY <1>0, <1>a, <2>2, <2>4, <2>5 DEF PinInv, ThroughOff
  <1>4. CASE IsrWrite
    <2>2. /\ isr.wheel # 0 /\ Write(isr) /\ isr' = Advance(isr)
          /\ main' = main /\ raced' = raced
      BY <1>4 DEF IsrWrite
    <2>3. CASE ~raced
      <3>1. Visiting(isr) /\ main.wheel = 0
        BY <2>2, <2>3 DEF PinInv
      <3>2. \A w \in Wheel \ {isr.wheel} : Settled(w)
        BY <3>1, SystemAssumption DEF PinInv, Wheel
      <3>3. ThroughOff
        BY <1>0, <1>t, <2>2, <3>1, <3>2, PinWrite DEF ThroughOff
      <3>4. /\ isr'.wheel # 0 => Visiting(isr)'
            /\ \A w \in Wheel \ {isr'.wheel} : Settled(w)'
        BY <1>0, <1>t, <2>2, <3>1, <3>2, VisitAdvances DEF Visiting
      <3> QED BY <1>0, <2>2, <2>3, <3>1, <3>3, <3>4 DEF PinInv
    <2>4. CASE raced
      <3>1. Resumed(isr, in1, in2)
        BY <2>2, <2>4 DEF PinInv
      <3>2. /\ \A v \in Wheel \ {isr.wheel} : /\ v \in in1' <=> v \in in1
                                              /\ v \in in2' <=> v \in in2
                                              /\ duty'[v] = duty[v]
            /\ isr'.wheel # 0 => Resumed(isr', in1', in2')
            /\ isr.write = "pwm" =>
                  /\ \A v \in Wheel : v = isr.wheel => Settled(v)'
                  /\ isr'.wheel # isr.wheel
                  /\ isr.power[isr.wheel] = 0
                       => isr.wheel \notin in1' /\ isr.wheel \notin in2'
            /\ isr.write # "pwm" => isr'.wheel = isr.wheel
        BY <1>0, <1>t, <2>2, <3>1, ResumedAdvances DEF Resumed
      <3>3. \A v \in Wheel \ {isr.wheel} : Settled(v)' <=> Settled(v)
        BY <3>2 DEF Settled
      <3>4. \A v \in Wheel \ {main'.wheel, isr'.wheel} : Settled(v)'
        BY <2>2, <3>2, <3>3 DEF PinInv
      <3>5. isr.power[isr.wheel] = 0 /\ isr.wheel \in Wheel
        BY <1>0, <1>t, <2>2, ZeroIsPower, SystemAssumption DEF TypeOK, Wheel
      <3>6. ASSUME main'.wheel \notin {0, isr'.wheel}
            PROVE  Resumed(main', in1', in2')
        <4>1. main.wheel \in Wheel
          BY <1>t, <2>2, <3>6, SystemAssumption DEF Wheel
        <4>2. CASE main.wheel = isr.wheel
          <5>1. main.wheel \notin in1' /\ main.wheel \notin in2'
            BY <2>2, <3>2, <3>5, <3>6, <4>2
          <5>2. Resumed(main, {}, {})
            BY <2>2, <2>4, <3>6 DEF PinInv
          <5> QED BY <2>2, <5>1, <5>2 DEF Resumed
        <4>3. CASE main.wheel # isr.wheel
          <5>1. Resumed(main, in1, in2)
            BY <2>2, <2>4, <3>6, <4>3 DEF PinInv
          <5> QED BY <2>2, <3>2, <4>1, <4>3, <5>1 DEF Resumed
        <4> QED BY <4>2, <4>3
      <3> QED BY <1>0, <2>2, <2>4, <3>2, <3>4, <3>6 DEF PinInv
    <2> QED BY <2>3, <2>4
  <1>5. CASE MainWrite
    <2>2. /\ main.wheel # 0 /\ Write(main) /\ main' = Advance(main)
          /\ isr' = isr /\ isr.wheel = 0 /\ raced' = raced
      BY <1>5 DEF MainWrite
    <2>3. \A w \in Wheel \ {main.wheel} : Settled(w)
      BY <2>2, SystemAssumption DEF PinInv, Wheel
    <2>4. CASE ~raced
      <3>1. Visiting(main)
        BY <2>2, <2>4 DEF PinInv
      <3>2. ThroughOff
        BY <1>0, <1>t, <2>2, <2>3, <3>1, PinWrite DEF ThroughOff
      <3>3. /\ main'.wheel # 0 => Visiting(main)'
            /\ \A w \in Wheel \ {main'.wheel} : Settled(w)'
        BY <1>0, <1>t, <2>2, <2>3, <3>1, VisitAdvances DEF Visiting
      <3> QED BY <1>0, <2>2, <2>4, <3>2, <3>3 DEF PinInv
    <2>5. CASE raced
      <3>1. Resumed(main, in1, in2)
        BY <2>2, <2>5 DEF PinInv
      <3>2. /\ \A v \in Wheel \ {main.wheel} : /\ v \in in1' <=> v \in in1
                                               /\ v \in in2' <=> v \in in2
                                               /\ duty'[v] = duty[v]
            /\ main'.wheel # 0 => Resumed(main', in1', in2')
            /\ main.write = "pwm" => \A v \in Wheel : v = main.wheel => Settled(v)'
            /\ main.write # "pwm" => main'.wheel = main.wheel
        BY <1>0, <1>t, <2>2, <3>1, ResumedAdvances DEF Resumed
      <3>3. \A v \in Wheel \ {main.wheel} : Settled(v)'
        BY <2>3, <3>2 DEF Settled
      <3>4. \A v \in Wheel \ {main'.wheel, isr'.wheel} : Settled(v)'
        BY <3>2, <3>3
      <3>5. main'.wheel # 0 => Resumed(main', {}, {})
        BY <3>2 DEF Resumed
      <3> QED BY <1>0, <2>2, <2>5, <3>2, <3>4, <3>5 DEF PinInv
    <2> QED BY <2>4, <2>5
  <1>6. CASE UNCHANGED vars
    <2>1. pins' = pins /\ main' = main /\ isr' = isr /\ raced' = raced
      BY <1>6 DEF vars
    <2>2. Visiting(isr)' <=> Visiting(isr)
      BY <2>1 DEF Visiting, Settled, pins
    <2> QED BY <1>0, <1>a, <2>1, <2>2 DEF PinInv, ThroughOff
  <1> QED BY <1>1, <1>2, <1>3, <1>4, <1>5, <1>6, <1>7 DEF Next

\* No wheel's bridge goes between braking and turning, or from one way of
\* turning to the other, without being switched off between, unless a stop
\* interrupts the call that drives it; the calls after that are not affected.
THEOREM PinsDeadTime == Spec => DeadTime
  <1>1. PinInv /\ [Next]_vars => PinInv'
    BY PinNext
  <1>2. PinInv /\ [Next]_vars =>
          [~raced => \A w \in Wheel :
             Mode(w)' # Mode(w) => Mode(w) = "off" \/ Mode(w)' = "off"]_vars
    BY PinNext DEF ThroughOff
  <1> QED BY <1>1, <1>2, PinInit, PTL DEF Spec, DeadTime

-----------------------------------------------------------------------------
(* Stops brake.                                                            *)

\* While the base is stopped the wheels that a stop has come past are braked.
BrakeInv ==
    /\ ~undone => ~raced
    /\ ~undone /\ ~moving =>
       /\ tested # "frame"
       /\ main.wheel # 0 => main.power = Zero
       /\ \A w \in Wheel :
             /\ main.wheel = 0 \/ w < main.wheel
             /\ isr.wheel = 0 \/ w < isr.wheel
             => duty[w] = "zero"

\* A write of a call without power leaves the wheels it has come past braked.
LEMMA BrakeAdvances ==
    ASSUME TypeOK, NEW c \in [wheel : 0..NW, write : Writes, power : {Zero}],
           NEW d, d = Advance(c), c.wheel # 0, Write(c),
           \A w \in Wheel : w < c.wheel => duty[w] = "zero"
    PROVE  \A w \in Wheel : d.wheel = 0 \/ w < d.wheel => duty'[w] = "zero"
  <1>0. c.wheel \in Wheel /\ c.power[c.wheel] = 0 /\ NW \in Nat /\ Wheel \subseteq Int
    BY SystemAssumption, ZeroIsPower DEF Wheel
  <1>1. \A v \in Wheel \ {c.wheel} : duty'[v] = duty[v]
    BY <1>0 DEF Write, DirStep, TypeOK
  <1>2. CASE c.write = "pwm"
    <2>1. duty'[c.wheel] = "zero"
      BY <1>0, <1>2 DEF Write, DirStep, TypeOK
    <2>2. \/ d.wheel = c.wheel + 1
          \/ d.wheel = 0 /\ c.wheel = NW
      BY <1>0, <1>2, SystemAssumption DEF Advance, NoCall, Wheel
    <2>3. \A w \in Wheel : w <= NW
      BY SystemAssumption DEF Wheel
    <2> QED BY <1>0, <1>1, <2>1, <2>2, <2>3
  <1>3. CASE c.write # "pwm"
    <2>1. d.wheel = c.wheel
      BY <1>3 DEF Advance
    <2> QED BY <1>0, <1>1, <2>1
  <1> QED BY <1>2, <1>3

LEMMA BrakeNext == PinInv /\ BrakeInv /\ [Next]_vars => BrakeInv'
  <1> SUFFICES ASSUME PinInv, BrakeInv, [Next]_vars PROVE BrakeInv'
    OBVIOUS
  <1>0. TypeOK
    BY DEF PinInv
  <1>w. \A w \in Wheel : w \in Int /\ ~(w < 1)
    BY SystemAssumption DEF Wheel
  <1>1. CASE MoveCmd
    BY <1>1 DEF BrakeInv, MoveCmd
  <1>8. CASE TestMoving
    BY <1>8 DEF BrakeInv, TestMoving, pins
  <1>2. CASE StopCmd
    <2>1. /\ isr'.wheel = 1 /\ main' = main /\ tested' = tested
      BY <1>2 DEF StopCmd, StopCall, Call
    <2>2. ~undone' => ~raced' /\ main.wheel = 0 /\ tested # "frame"
      BY <1>2 DEF StopCmd, StopCall
    <2> QED BY <1>w, <2>1, <2>2 DEF BrakeInv
  <1>3. CASE UpdateMotors
    <2>1. tested = "frame" /\ undone' = undone /\ moving' = moving /\ raced' = FALSE
      BY <1>3 DEF UpdateMotors
    <2> QED BY <2>1 DEF BrakeInv
  <1>4. CASE AutoStop
    <2>1. /\ main'.wheel = 1 /\ main'.power = Zero
          /\ raced' = FALSE /\ tested' = "none"
      BY <1>4 DEF AutoStop, Call
    <2> QED BY <1>w, <2>1 DEF BrakeInv
  <1>5. CASE IsrWrite
    <2>1. /\ isr.wheel # 0 /\ Write(isr) /\ isr' = Advance(isr)
          /\ UNCHANGED <<main, moving, tested, raced, undone>>
      BY <1>5 DEF IsrWrite
    <2>a. CASE undone \/ moving
      BY <2>1, <2>a DEF BrakeInv
    <2>b. CASE ~undone /\ ~moving
      <3>2. main.wheel = 0
        BY <2>1, <2>b DEF PinInv, BrakeInv
      <3>3. \A w \in Wheel : w < isr.wheel => duty[w] = "zero"
        BY <2>1, <2>b, <3>2 DEF BrakeInv
      <3>4. isr \in [wheel : 0..NW, write : Writes, power : {Zero}]
        BY <1>0 DEF TypeOK
      <3>5. \A w \in Wheel : isr'.wheel = 0 \/ w < isr'.wheel => duty'[w] = "zero"
        BY <1>0, <2>1, <3>3, <3>4, BrakeAdvances
      <3> QED BY <2>1, <2>b, <3>2, <3>5 DEF BrakeInv
    <2> QED BY <2>a, <2>b
  <1>6. CASE MainWrite
    <2>1. /\ main.wheel # 0 /\ Write(main) /\ main' = Advance(main)
          /\ isr.wheel = 0
          /\ UNCHANGED <<isr, moving, tested, raced, undone>>
      BY <1>6 DEF MainWrite
    <2>a. CASE undone \/ moving
      BY <2>1, <2>a DEF BrakeInv
    <2>b. CASE ~undone /\ ~moving
      <3>2. main.power = Zero
        BY <2>1, <2>b DEF BrakeInv
      <3>3. \A w \in Wheel : w < main.wheel => duty[w] = "zero"
        BY <2>1, <2>b DEF BrakeInv
      <3>4. main \in [wheel : 0..NW, write : Writes, power : {Zero}]
        BY <1>0, <3>2 DEF TypeOK
      <3>5. \A w \in Wheel : main'.wheel = 0 \/ w < main'.wheel => duty'[w] = "zero"
        BY <1>0, <2>1, <3>3, <3>4, BrakeAdvances
      <3>6. main'.power = Zero
        BY <2>1, <3>2 DEF Advance, NoCall
      <3> QED BY <2>1, <2>b, <3>5, <3>6 DEF BrakeInv
    <2> QED BY <2>a, <2>b
  <1>7. CASE UNCHANGED vars
    BY <1>7 DEF BrakeInv, vars, pins
  <1> QED BY <1>1, <1>2, <1>3, <1>4, <1>5, <1>6, <1>7, <1>8 DEF Next

\* A stop that was executed leaves every wheel braked, unless it came in the
\* middle of a frame.
THEOREM PinsStopBrakes == Spec => []StopBrakes
  <1>1. Init => BrakeInv
    BY DEF Init, BrakeInv, NoCall
  <1>2. PinInv /\ [Next]_vars => PinInv'
    BY PinNext
  <1>3. BrakeInv => StopBrakes
    BY DEF BrakeInv, StopBrakes, Idle, Mode
  <1> QED BY <1>1, <1>2, <1>3, PinInit, BrakeNext, PTL DEF Spec
=============================================================================
