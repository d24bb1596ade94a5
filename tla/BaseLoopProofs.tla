--------------------------- MODULE BaseLoopProofs ---------------------------
(***************************************************************************)
(* Proofs about BaseLoop, for every number of wheels, every width of the   *)
(* clock and every interval the assumptions of BaseLoop allow.             *)
(***************************************************************************)
EXTENDS BaseLoop, TLAPS

-----------------------------------------------------------------------------
(* Arithmetic of the clock.                                                *)

\* A sum of a time and less than a turn of the clock is a time.
LEMMA PlusIsClock ==
    ASSUME NEW a \in Clock, NEW n \in Nat, n < ClockMod
    PROVE  Plus(a, n) \in Clock
  BY TimesAssumption DEF Plus, Clock

\* A difference of two times is a time.
LEMMA ElapsedIsClock ==
    ASSUME NEW a \in Clock, NEW b \in Clock
    PROVE  Elapsed(a, b) \in Clock
  BY TimesAssumption DEF Elapsed, Clock

LEMMA ElapsedIsInt ==
    ASSUME NEW a \in Clock, NEW b \in Clock
    PROVE  Elapsed(a, b) \in Int
  BY ElapsedIsClock DEF Clock

\* Until it has gone all the way round, the clock measures ages.
LEMMA ElapsedGrows ==
    ASSUME NEW a \in Clock, NEW b \in Clock, NEW n \in Nat,
           Elapsed(a, b) + n < ClockMod
    PROVE  Elapsed(Plus(a, n), b) = Elapsed(a, b) + n
  BY TimesAssumption DEF Elapsed, Plus, Clock

\* No time has passed since the time of the clock.
LEMMA ElapsedZero ==
    ASSUME NEW a \in Clock
    PROVE  Elapsed(a, a) = 0
  BY DEF Elapsed, Clock

-----------------------------------------------------------------------------
(* Type correctness.                                                       *)

LEMMA AgeCapIsAge == AgeCap \in Nat /\ 0 \in 0..AgeCap /\ AgeCap \in 0..AgeCap
  BY TimesAssumption DEF AgeCap

LEMMA InitType == Init => TypeOK
  <1> SUFFICES ASSUME Init PROVE TypeOK
    OBVIOUS
  <1>1. now \in Clock /\ next \in Clock /\ last \in Clock /\ 0 \in Clock
    BY TimesAssumption DEF Init, Clock
  <1>2. snap \in [by : {"none", "clock", "last"}, at : Clock]
    BY <1>1 DEF Init, NoSnap
  <1>3. age \in 0..AgeCap /\ spent \in 0..MaxLoop
    BY AgeCapIsAge, TimesAssumption DEF Init
  <1> QED BY <1>1, <1>2, <1>3 DEF Init, TypeOK, PcSet

LEMMA CommandType ==
    ASSUME TypeOK, Command \/ HostDies \/ Tick
    PROVE  TypeOK'
  <1> USE DEF TypeOK, ctrlVars, pidVars, pinVars, hostVars
  <1>1. ASSUME NEW S \in SUBSET Wheel, MoveCmd(S) PROVE TypeOK'
    BY <1>1, AgeCapIsAge DEF MoveCmd, Awake, Targets
  <1>2. CASE StopCmd
    BY <1>2, AgeCapIsAge DEF StopCmd
  <1>3. CASE ResetCmd
    BY <1>3 DEF ResetCmd
  <1>4. ASSUME NEW n \in 1..WaitTicks, WaitCmd(n) PROVE TypeOK'
    <2>1. now' \in Clock
      BY <1>4, PlusIsClock, TimesAssumption DEF WaitCmd
    <2>2. age' \in 0..AgeCap
      BY <1>4, TimesAssumption DEF WaitCmd, Older, AgeCap
    <2> QED BY <1>4, <2>1, <2>2 DEF WaitCmd
  <1>5. CASE HostDies
    BY <1>5 DEF HostDies
  <1>6. CASE Tick
    <2>1. now' \in Clock
      BY <1>6, PlusIsClock, TimesAssumption DEF Tick
    <2>2. age' \in 0..AgeCap /\ spent' \in 0..MaxLoop
      BY <1>6, TimesAssumption DEF Tick, AgeCap
    <2> QED BY <1>6, <2>1, <2>2 DEF Tick
  <1>7. ASSUME NEW n \in 1..WaitTicks, BlindWaitCmd(n) PROVE TypeOK'
    <2>1. age' \in 0..AgeCap
      BY <1>7, TimesAssumption DEF BlindWaitCmd, Older, AgeCap
    <2> QED BY <1>7, <2>1 DEF BlindWaitCmd
  <1>8. CASE HangCmd
    BY <1>8 DEF HangCmd, clockVars, PcSet
  <1> QED BY <1>1, <1>2, <1>3, <1>4, <1>5, <1>6, <1>7, <1>8 DEF Command

LEMMA StepType ==
    ASSUME TypeOK, Step
    PROVE  TypeOK'
  <1> USE DEF TypeOK, ctrlVars, clockVars, pidVars, pinVars, hostVars, Goto,
              PcSet
  <1>1. CASE InitPins
    BY <1>1 DEF InitPins
  <1>2. CASE InitPid
    BY <1>2 DEF InitPid
  <1>3. CASE SerialEmpty
    BY <1>3 DEF SerialEmpty
  <1>4. CASE PidTest
    BY <1>4 DEF PidTest, GetMoveStatus
  <1>5. CASE IdleReset
    BY <1>5 DEF IdleReset
  <1>6. CASE NextPid
    BY <1>6, PlusIsClock, TimesAssumption DEF NextPid
  <1>7. ASSUME NEW w \in Wheel, WheelIdle(w) PROVE TypeOK'
    BY <1>7 DEF WheelIdle, Off, Visited
  <1>8. ASSUME NEW w \in Wheel, WheelStart(w) PROVE TypeOK'
    BY <1>8 DEF WheelStart
  <1>9. ASSUME NEW w \in Wheel, WheelStore(w) PROVE TypeOK'
    BY <1>9 DEF WheelStore, Visited
  <1>10. ASSUME NEW w \in Wheel, LoadArg(w) PROVE TypeOK'
    BY <1>10 DEF LoadArg, Visited
  <1>11. ASSUME NEW w \in Wheel, SetPins(w) PROVE TypeOK'
    BY <1>11 DEF SetPins, Visited
  <1>12. ASSUME NEW w \in Wheel, Brake(w) PROVE TypeOK'
    BY <1>12 DEF Brake, Braked, Visited
  <1>13. CASE AutoTest
    BY <1>13 DEF AutoTest, GetMoveStatus, ReadOperand
  <1>14. CASE AutoCompare
    <2>1. snap' \in [by : {"none", "clock", "last"}, at : Clock]
      BY <1>14, TimesAssumption DEF AutoCompare, TooOld, NoSnap, Clock
    <2> QED BY <1>14, <2>1 DEF AutoCompare, TooOld
  <1>15. CASE AutoStop
    BY <1>15 DEF AutoStop
  <1>16. CASE EnergyTest
    BY <1>16, TimesAssumption DEF EnergyTest, Resting, ReadOperand
  <1>17. CASE EnergyCompare
    <2>1. snap' \in [by : {"none", "clock", "last"}, at : Clock]
      BY <1>17, TimesAssumption DEF EnergyCompare, NoSnap, Clock
    <2> QED BY <1>17, <2>1, TimesAssumption DEF EnergyCompare
  <1>18. CASE Standby
    BY <1>18, TimesAssumption DEF Standby
  <1> QED
    BY <1>1, <1>2, <1>3, <1>4, <1>5, <1>6, <1>7, <1>8, <1>9, <1>10, <1>11,
       <1>12, <1>13, <1>14, <1>15, <1>16, <1>17, <1>18 DEF Step

LEMMA NextType == TypeOK /\ [Next]_vars => TypeOK'
  <1> SUFFICES ASSUME TypeOK, [Next]_vars PROVE TypeOK'
    OBVIOUS
  <1>1. CASE Command \/ HostDies \/ Tick
    BY <1>1, CommandType
  <1>2. CASE Step
    BY <1>2, StepType
  <1>3. CASE UNCHANGED vars
    BY <1>3 DEF TypeOK, vars
  <1> QED BY <1>1, <1>2, <1>3 DEF Next

\* Every variable keeps its type over every link: in particular the three
\* times stay in the range of the unsigned clock of loop().
THEOREM TypeCorrect == Spec => []TypeOK
  BY InitType, NextType, PTL DEF Spec

-----------------------------------------------------------------------------
(* The serial line.  Commands run between two passes, so what a pass has   *)
(* tested still holds when it acts on it.                                  *)

\* Where the main program can be while the base moves, and while it has been
\* stopped.
MovingPc == {"serial", "pid", "wheel", "store", "args", "pins", "next", "auto",
             "autoCmp", "stop", "energy"}
StoppedPc == {"initPins", "initPid", "serial", "pid", "reset", "next", "auto",
              "energy", "energyCmp", "standby"}

\* The invariant behind StopIsFinal, AwakeWhileMoving and TargetIsAsked.
SerialInv ==
    /\ TypeOK
    /\ AwakeWhileMoving
    /\ TargetIsAsked
    /\ moving => pc \in MovingPc /\ ~halted
    /\ ~moving /\ halted => pc \in StoppedPc /\ driven = {}
    /\ ~moving /\ ~halted => pc = "brake" /\ driven \subseteq todo

\* Over the serial line no command waits inside an interrupt.
LEMMA SerialWaits ==
    ASSUME Link = "serial"
    PROVE  ~HangCmd /\ \A n \in 1..WaitTicks : ~BlindWaitCmd(n)
  BY DEF BlindWaitCmd, HangCmd

LEMMA SerialNeverHangs == SerialInv => pc # "hung"
  BY DEF SerialInv, MovingPc, StoppedPc

LEMMA SerialCommand ==
    ASSUME Link = "serial", SerialInv, Command \/ HostDies \/ Tick
    PROVE  SerialInv'
  <1>0. TypeOK'
    BY CommandType DEF SerialInv
  <1> USE <1>0 DEF SerialInv, AwakeWhileMoving, TargetIsAsked, TypeOK, MovingPc,
          StoppedPc, ctrlVars, pidVars, pinVars, hostVars
  <1>1. ASSUME NEW S \in SUBSET Wheel, MoveCmd(S) PROVE SerialInv'
    BY <1>1 DEF MoveCmd, Awake, Targets, Receives
  <1>2. CASE StopCmd
    BY <1>2 DEF StopCmd, Receives
  <1>3. CASE ResetCmd
    BY <1>3 DEF ResetCmd, Receives
  <1>4. ASSUME NEW n \in 1..WaitTicks, WaitCmd(n) PROVE SerialInv'
    BY <1>4 DEF WaitCmd, Receives
  <1>5. CASE HostDies
    BY <1>5 DEF HostDies
  <1>6. CASE Tick
    BY <1>6 DEF Tick
  <1>7. ~HangCmd /\ \A n \in 1..WaitTicks : ~BlindWaitCmd(n)
    BY SerialWaits
  <1> QED BY <1>1, <1>2, <1>3, <1>4, <1>5, <1>6, <1>7 DEF Command

LEMMA SerialStep ==
    ASSUME SerialInv, Step
    PROVE  SerialInv'
  <1>0. TypeOK'
    BY StepType DEF SerialInv
  <1> USE <1>0 DEF SerialInv, AwakeWhileMoving, TargetIsAsked, TypeOK, MovingPc,
          StoppedPc, ctrlVars, clockVars, pidVars, pinVars, hostVars, Goto
  <1>1. CASE InitPins
    BY <1>1 DEF InitPins
  <1>2. CASE InitPid
    BY <1>2 DEF InitPid
  <1>3. CASE SerialEmpty
    BY <1>3 DEF SerialEmpty
  <1>4. CASE PidTest
    BY <1>4 DEF PidTest, GetMoveStatus
  <1>5. CASE IdleReset
    BY <1>5 DEF IdleReset
  <1>6. CASE NextPid
    BY <1>6 DEF NextPid
  <1>7. ASSUME NEW w \in Wheel, WheelIdle(w) PROVE SerialInv'
    BY <1>7 DEF WheelIdle, Off, Visited
  <1>8. ASSUME NEW w \in Wheel, WheelStart(w) PROVE SerialInv'
    BY <1>8 DEF WheelStart
  <1>9. ASSUME NEW w \in Wheel, WheelStore(w) PROVE SerialInv'
    BY <1>9 DEF WheelStore, Visited
  <1>10. ASSUME NEW w \in Wheel, LoadArg(w) PROVE SerialInv'
    BY <1>10 DEF LoadArg, Visited
  <1>11. ASSUME NEW w \in Wheel, SetPins(w) PROVE SerialInv'
    BY <1>11 DEF SetPins, Visited
  <1>12. ASSUME NEW w \in Wheel, Brake(w) PROVE SerialInv'
    BY <1>12 DEF Brake, Braked, Visited
  <1>13. CASE AutoTest
    BY <1>13 DEF AutoTest, GetMoveStatus
  <1>14. CASE AutoCompare
    BY <1>14 DEF AutoCompare, TooOld
  <1>15. CASE AutoStop
    BY <1>15 DEF AutoStop
  <1>16. CASE EnergyTest
    BY <1>16 DEF EnergyTest, Resting
  <1>17. CASE EnergyCompare
    BY <1>17 DEF EnergyCompare
  <1>18. CASE Standby
    BY <1>18 DEF Standby
  <1> QED
    BY <1>1, <1>2, <1>3, <1>4, <1>5, <1>6, <1>7, <1>8, <1>9,
       <1>10, <1>11, <1>12, <1>13, <1>14, <1>15, <1>16, <1>17, <1>18 DEF Step

LEMMA SerialNext ==
    ASSUME Link = "serial"
    PROVE  SerialInv /\ [Next]_vars => SerialInv'
  <1> SUFFICES ASSUME SerialInv, [Next]_vars PROVE SerialInv'
    OBVIOUS
  <1>1. CASE Command \/ HostDies \/ Tick
    BY <1>1, SerialCommand
  <1>2. CASE Step
    BY <1>2, SerialStep
  <1>3. CASE UNCHANGED vars
    BY <1>3 DEF SerialInv, AwakeWhileMoving, TargetIsAsked, TypeOK, vars
  <1> QED BY <1>1, <1>2, <1>3 DEF Next

LEMMA SerialInit == Init => SerialInv
  BY InitType
  DEF Init, SerialInv, AwakeWhileMoving, TargetIsAsked, StoppedPc, MovingPc

LEMMA SerialInvariant ==
    ASSUME Link = "serial"
    PROVE  Spec => []SerialInv
  BY SerialInit, SerialNext, PTL DEF Spec

\* A stop over the serial line, or one by the auto-stop, lasts until the next
\* drive command.
THEOREM SerialStopIsFinal ==
    ASSUME Link = "serial"
    PROVE  Spec => []StopIsFinal
  <1>1. SerialInv => StopIsFinal
    BY DEF SerialInv, StopIsFinal
  <1> QED BY <1>1, SerialInvariant, PTL

\* Over the serial line the drivers are awake whenever the base moves.
THEOREM SerialAwakeWhileMoving ==
    ASSUME Link = "serial"
    PROVE  Spec => []AwakeWhileMoving
  <1>1. SerialInv => AwakeWhileMoving
    BY DEF SerialInv
  <1> QED BY <1>1, SerialInvariant, PTL

\* Over the serial line no drive command loses its targets.
THEOREM SerialTargetIsAsked ==
    ASSUME Link = "serial"
    PROVE  Spec => []TargetIsAsked
  <1>1. SerialInv => TargetIsAsked
    BY DEF SerialInv
  <1> QED BY <1>1, SerialInvariant, PTL

-----------------------------------------------------------------------------
(* A frame over the serial line: what each wheel is driven by.             *)

\* During a frame the wheels that are done have a power, an argument or driven
\* pins only where the base has a target.
TurnInv ==
    /\ pc \in {"wheel", "store"} => out \ todo \subseteq target
    /\ pc = "store" => \A w \in Wheel : Turn(w) => w \in target
    /\ pc = "args" => out \subseteq target /\ args \subseteq out
    /\ pc = "pins" => /\ args \subseteq target \cap todo
                      /\ driven \ todo \subseteq target
    /\ pc \notin {"args", "pins"} => args = {}
    /\ pc = "next" /\ moving => driven \subseteq target

\* The wheel whose turn it is is one of those still to be visited, and no other
\* has its turn.
LEMMA TurnIsOne ==
    ASSUME NEW v \in Wheel, NEW w \in Wheel, Turn(v), Turn(w)
    PROVE  v = w
  <1>1. v \in Int /\ w \in Int /\ v <= w /\ w <= v
    BY SystemAssumption DEF Wheel, Turn
  <1> QED BY <1>1

LEMMA TurnCommand ==
    ASSUME Link = "serial", TypeOK, TurnInv, Command \/ HostDies \/ Tick
    PROVE  TurnInv'
  <1> USE DEF TurnInv, Turn, ctrlVars, pidVars, pinVars, hostVars
  <1>1. CASE Command
    <2>1. pc = "serial" /\ pc' = pc /\ args' = args
      BY <1>1, SerialWaits
      DEF Command, MoveCmd, StopCmd, ResetCmd, WaitCmd, Receives
    <2> QED BY <2>1
  <1>2. CASE HostDies
    BY <1>2 DEF HostDies
  <1>3. CASE Tick
    BY <1>3 DEF Tick
  <1> QED BY <1>1, <1>2, <1>3

LEMMA TurnStep ==
    ASSUME SerialInv, TurnInv, Step
    PROVE  TurnInv'
  <1>0. /\ out \subseteq Wheel /\ driven \subseteq Wheel /\ args \subseteq Wheel
        /\ todo \subseteq Wheel /\ target \subseteq Wheel
    BY DEF SerialInv, TypeOK
  <1>m. pc \in {"wheel", "store", "args", "pins"} => moving
    BY DEF SerialInv, StoppedPc
  <1> USE DEF TurnInv, clockVars, pidVars, pinVars, hostVars, Goto
  <1>1. CASE InitPins \/ InitPid \/ SerialEmpty \/ IdleReset \/ NextPid
    <2>1. pc = "reset" => ~moving
      BY DEF SerialInv, MovingPc
    <2> QED
      BY <1>1, <2>1 DEF InitPins, InitPid, SerialEmpty, IdleReset, NextPid
  <1>2. CASE PidTest
    BY <1>2, <1>0 DEF PidTest
  <1>3. ASSUME NEW w \in Wheel, WheelIdle(w) PROVE TurnInv'
    <2>1. /\ out' = out \ {w} /\ args' = args /\ target' = target
          /\ pc = "wheel" /\ w \in todo
      BY <1>3 DEF WheelIdle, Off, Turn
    <2>2. CASE todo = {w}
      <3>1. pc' = "args"
        BY <1>3, <2>2 DEF WheelIdle, Visited
      <3> QED BY <2>1, <2>2, <3>1
    <2>3. CASE todo # {w}
      <3>1. pc' = "wheel" /\ todo' = todo \ {w}
        BY <1>3, <2>3 DEF WheelIdle, Visited
      <3> QED BY <2>1, <3>1
    <2> QED BY <2>2, <2>3
  <1>4. ASSUME NEW w \in Wheel, WheelStart(w) PROVE TurnInv'
    <2>1. /\ pc = "wheel" /\ pc' = "store" /\ Turn(w) /\ w \in target
          /\ UNCHANGED <<todo, args, target, out>>
      BY <1>4 DEF WheelStart
    <2>2. ASSUME NEW v \in Wheel, Turn(v)' PROVE v \in target'
      <3>1. Turn(v)
        BY <2>1, <2>2 DEF Turn
      <3> QED BY <2>1, <3>1, TurnIsOne
    <2> QED BY <2>1, <2>2
  <1>5. ASSUME NEW w \in Wheel, WheelStore(w) PROVE TurnInv'
    <2>1. /\ out' \subseteq out \cup {w} /\ args' = args /\ target' = target
          /\ pc = "store" /\ w \in todo /\ w \in target
      BY <1>5 DEF WheelStore, Turn
    <2>2. CASE todo = {w}
      <3>1. pc' = "args"
        BY <1>5, <2>2 DEF WheelStore, Visited
      <3> QED BY <2>1, <2>2, <3>1
    <2>3. CASE todo # {w}
      <3>1. pc' = "wheel" /\ todo' = todo \ {w}
        BY <1>5, <2>3 DEF WheelStore, Visited
      <3> QED BY <2>1, <3>1
    <2> QED BY <2>2, <2>3
  <1>6. ASSUME NEW w \in Wheel, LoadArg(w) PROVE TurnInv'
    <2>1. /\ args' = args \cup ({w} \cap out) /\ UNCHANGED <<out, target, driven>>
          /\ pc = "args" /\ w \in todo
      BY <1>6 DEF LoadArg
    <2>2. CASE todo = {w}
      <3>1. pc' = "pins" /\ todo' = Wheel
        BY <1>6, <2>2 DEF LoadArg, Visited
      <3> QED BY <1>0, <2>1, <3>1
    <2>3. CASE todo # {w}
      <3>1. pc' = "args"
        BY <1>6, <2>3 DEF LoadArg, Visited
      <3> QED BY <2>1, <3>1
    <2> QED BY <2>2, <2>3
  <1>7. ASSUME NEW w \in Wheel, SetPins(w) PROVE TurnInv'
    <2>1. /\ driven' = IF w \in args THEN driven \cup {w} ELSE driven \ {w}
          /\ args' = args \ {w} /\ UNCHANGED <<target, moving>>
          /\ pc = "pins" /\ w \in todo
      BY <1>7 DEF SetPins, Turn
    <2>2. CASE todo = {w}
      <3>1. pc' = "next"
        BY <1>7, <2>2 DEF SetPins, Visited
      <3> QED BY <2>1, <2>2, <3>1
    <2>3. CASE todo # {w}
      <3>1. pc' = "pins" /\ todo' = todo \ {w}
        BY <1>7, <2>3 DEF SetPins, Visited
      <3> QED BY <2>1, <3>1
    <2> QED BY <2>2, <2>3
  <1>8. ASSUME NEW w \in Wheel, Brake(w) PROVE TurnInv'
    BY <1>8 DEF Brake, Visited
  <1>9. CASE AutoTest \/ AutoCompare \/ AutoStop
    BY <1>9 DEF AutoTest, AutoCompare, AutoStop
  <1>10. CASE EnergyTest \/ EnergyCompare \/ Standby
    BY <1>10 DEF EnergyTest, EnergyCompare, Standby
  <1> QED
    BY <1>1, <1>2, <1>3, <1>4, <1>5, <1>6, <1>7, <1>8, <1>9, <1>10 DEF Step

LEMMA TurnNext ==
    ASSUME Link = "serial"
    PROVE  SerialInv /\ TurnInv /\ [Next]_vars => TurnInv'
  <1> SUFFICES ASSUME SerialInv, TurnInv, [Next]_vars PROVE TurnInv'
    OBVIOUS
  <1>1. CASE Command \/ HostDies \/ Tick
    BY <1>1, TurnCommand DEF SerialInv
  <1>2. CASE Step
    BY <1>2, TurnStep
  <1>3. CASE UNCHANGED vars
    BY <1>3 DEF TurnInv, Turn, vars
  <1> QED BY <1>1, <1>2, <1>3 DEF Next

LEMMA TurnInvariant ==
    ASSUME Link = "serial"
    PROVE  Spec => []TurnInv
  <1>1. Init => TurnInv
    BY DEF Init, TurnInv
  <1> QED BY <1>1, TurnNext, SerialInvariant, PTL DEF Spec

\* Over the serial line, when a frame of a moving base is over, only wheels that
\* the last command asked to turn do, whatever powers an earlier command or a
\* stop has left behind.
THEOREM SerialOnlyAskedTurn ==
    ASSUME Link = "serial"
    PROVE  Spec => []OnlyAskedTurn
  <1>1. SerialInv /\ TurnInv => OnlyAskedTurn
    BY DEF SerialInv, TargetIsAsked, TurnInv, OnlyAskedTurn
  <1> QED BY <1>1, SerialInvariant, TurnInvariant, PTL

-----------------------------------------------------------------------------
(* Refinement of the frames.                                               *)

LEMMA FramesInit == Init => Frames!Init
  BY DEF Init, Frames!Init

LEMMA FramesCommand ==
    ASSUME Link = "serial", TypeOK, Command \/ HostDies \/ Tick
    PROVE  [Frames!Next]_(Frames!vars)
  <1> USE DEF Frames!Next, Frames!vars, Frames!wheels, Frames!BetweenFrames,
              Frames!Forget, ctrlVars, pidVars, pinVars, hostVars, Receives
  <1>1. ASSUME NEW S \in SUBSET Wheel, MoveCmd(S) PROVE Frames!Move
    BY <1>1 DEF MoveCmd, Targets, Frames!Move
  <1>2. CASE StopCmd
    BY <1>2 DEF StopCmd, Frames!Halt
  <1>3. CASE ResetCmd
    BY <1>3 DEF ResetCmd, Frames!Reset
  <1>4. ASSUME NEW n \in 1..WaitTicks, WaitCmd(n) PROVE UNCHANGED Frames!vars
    BY <1>4 DEF WaitCmd
  <1>5. CASE HostDies
    BY <1>5 DEF HostDies
  <1>6. CASE Tick
    BY <1>6 DEF Tick
  <1>7. ~HangCmd /\ \A n \in 1..WaitTicks : ~BlindWaitCmd(n)
    BY SerialWaits
  <1> QED BY <1>1, <1>2, <1>3, <1>4, <1>5, <1>6, <1>7 DEF Command

\* A step that takes the frame from wheel w to the next one is the run of the
\* controller of w.
LEMMA FramesRun ==
    ASSUME TypeOK, SerialInv, pc \in {"wheel", "store"},
           NEW w \in Wheel, w \in todo,
           NEW p \in PcSet \ {"wheel", "store"}, NEW S, Visited(w, "wheel", p, S),
           UNCHANGED <<moving, target>>,
           w \in out' => w \in target,
           out' \ {w} = out \ {w},
           ticks' \ ({w} \cap target) = ticks \ ({w} \cap target)
    PROVE  Frames!Run
  <1> DEFINE t == IF pc \in {"wheel", "store"} /\ todo # Wheel THEN todo ELSE {}
             due == IF t = {} THEN Wheel ELSE t
  <1>1. moving
    BY DEF SerialInv, StoppedPc
  <1>2. due = todo /\ todo \subseteq Wheel
    BY DEF TypeOK
  <1>3. t' = due \ {w}
    <2>1. CASE todo = {w}
      <3>1. pc' = p
        BY <2>1 DEF Visited
      <3> QED BY <1>2, <2>1, <3>1
    <2>2. CASE todo # {w}
      <3>1. pc' = "wheel" /\ todo' = todo \ {w}
        BY <2>2 DEF Visited
      <3> QED BY <1>2, <3>1
    <2> QED BY <2>1, <2>2
  <1>4. {w} \in (SUBSET due) \ {{}}
    BY <1>2
  <1>5. out' \cap {w} \subseteq target
    OBVIOUS
  <1> HIDE DEF due
  <1> QED BY <1>1, <1>3, <1>4, <1>5 DEF Frames!Run, Frames!Due, due

LEMMA FramesStep ==
    ASSUME SerialInv, TurnInv, Step
    PROVE  [Frames!Next]_(Frames!vars)
  <1>0. TypeOK
    BY DEF SerialInv
  <1> USE DEF Frames!Next, Frames!vars, Frames!wheels, Frames!BetweenFrames,
              Frames!Forget, ctrlVars, clockVars, pidVars, pinVars, hostVars, Goto
  <1>1. CASE InitPins \/ SerialEmpty \/ NextPid
    BY <1>1 DEF InitPins, SerialEmpty, NextPid
  <1>2. CASE InitPid
    BY <1>2 DEF InitPid, Frames!Reset
  <1>3. CASE PidTest
    BY <1>3 DEF PidTest
  <1>4. CASE IdleReset
    <2>1. ~moving
      BY <1>4 DEF IdleReset, SerialInv, MovingPc
    <2>2. CASE ticks # {}
      BY <1>4, <2>1, <2>2 DEF IdleReset, Frames!Idle
    <2>3. CASE ticks = {}
      BY <1>4, <2>3 DEF IdleReset
    <2> QED BY <2>2, <2>3
  <1>5. ASSUME NEW w \in Wheel, WheelIdle(w) PROVE Frames!Run
    <2>1. pc = "wheel" /\ w \in todo /\ Visited(w, "wheel", "args", Wheel)
      BY <1>5 DEF WheelIdle, Turn
    <2>2. /\ out' = out \ {w} /\ ticks' = ticks
          /\ UNCHANGED <<moving, target>>
      BY <1>5 DEF WheelIdle, Off
    <2> QED BY <1>0, <2>1, <2>2, FramesRun DEF PcSet
  <1>6. ASSUME NEW w \in Wheel, WheelStart(w) PROVE UNCHANGED Frames!vars
    BY <1>6 DEF WheelStart
  <1>7. ASSUME NEW w \in Wheel, WheelStore(w) PROVE Frames!Run
    <2>1. pc = "store" /\ w \in todo /\ Visited(w, "wheel", "args", Wheel)
      BY <1>7 DEF WheelStore, Turn
    <2>2. w \in target
      BY <1>7 DEF WheelStore, TurnInv
    <2>3. /\ out' \ {w} = out \ {w} /\ ticks' \ {w} = ticks \ {w}
          /\ UNCHANGED <<moving, target>>
      BY <1>7 DEF WheelStore
    <2> QED BY <1>0, <2>1, <2>2, <2>3, FramesRun DEF PcSet
  <1>8. ASSUME NEW w \in Wheel, LoadArg(w) \/ SetPins(w) \/ Brake(w)
        PROVE  UNCHANGED Frames!vars
    BY <1>8 DEF LoadArg, SetPins, Brake, Visited
  <1>9. CASE AutoTest \/ AutoCompare
    BY <1>9 DEF AutoTest, AutoCompare
  <1>10. CASE AutoStop
    <2>1. moving
      BY <1>10 DEF AutoStop, SerialInv, StoppedPc
    <2> QED BY <1>10, <2>1 DEF AutoStop, Frames!Expire
  <1>11. CASE EnergyTest \/ EnergyCompare \/ Standby
    BY <1>11 DEF EnergyTest, EnergyCompare, Standby
  <1> QED
    BY <1>1, <1>2, <1>3, <1>4, <1>5, <1>6, <1>7, <1>8, <1>9, <1>10, <1>11
    DEF Step

\* Over the serial line the frames of the loop, whose wheels are visited one by
\* one, are those of WheelFrames: no command and no stop comes in between.
THEOREM SerialImplementsWheelFrames ==
    ASSUME Link = "serial"
    PROVE  Spec => ImplementsWheelFrames
  <1>1. SerialInv /\ TurnInv /\ [Next]_vars => [Frames!Next]_(Frames!vars)
    <2> SUFFICES ASSUME SerialInv, TurnInv, [Next]_vars
                 PROVE  [Frames!Next]_(Frames!vars)
      OBVIOUS
    <2>1. CASE Command \/ HostDies \/ Tick
      BY <2>1, FramesCommand DEF SerialInv
    <2>2. CASE Step
      BY <2>2, FramesStep
    <2>3. CASE UNCHANGED vars
      BY <2>3 DEF vars, Frames!vars, Frames!wheels
    <2> QED BY <2>1, <2>2, <2>3 DEF Next
  <1> QED
    BY <1>1, FramesInit, TurnInvariant, SerialInvariant, PTL
    DEF Spec, ImplementsWheelFrames, Frames!Spec

-----------------------------------------------------------------------------
(* The age of the last drive command over the serial line.                 *)

\* The age of the command of a moving base, at each point of a pass.  While it
\* is not capped it is the clock's, and as long as no command has waited a pass
\* that would let it grow too old ends in the auto-stop.
AgeInv ==
    /\ SerialInv
    /\ moving \/ pc = "brake" =>
          /\ age < AgeCap => age = Elapsed(now, last)
          /\ ~slept => age <= AUTO_STOP_INTERVAL + MaxLoop + spent
    /\ moving /\ pc = "energy" /\ ~slept => age <= AUTO_STOP_INTERVAL + spent
    /\ pc = "autoCmp" =>
          /\ snap.by # "none"
          /\ snap.by = "last" => snap.at = last
          /\ snap.by = "clock" /\ age < AgeCap =>
                /\ Elapsed(snap.at, last) <= age
                /\ age <= Elapsed(snap.at, last) + spent
    /\ pc \in {"stop", "brake"} => age > AUTO_STOP_INTERVAL

LEMMA AgeCommand ==
    ASSUME Link = "serial", AgeInv, Command \/ HostDies \/ Tick
    PROVE  AgeInv'
  <1>0. SerialInv /\ SerialInv'
    BY SerialCommand DEF AgeInv
  <1> USE <1>0, TimesAssumption
      DEF AgeInv, SerialInv, TypeOK, MovingPc, StoppedPc, ctrlVars, pidVars,
          pinVars, hostVars
  <1>1. ASSUME NEW S \in SUBSET Wheel, MoveCmd(S) PROVE AgeInv'
    BY <1>1, ElapsedZero DEF MoveCmd, Awake, Targets, Receives
  <1>2. CASE StopCmd
    BY <1>2 DEF StopCmd, Receives
  <1>3. CASE ResetCmd
    BY <1>3 DEF ResetCmd, Receives
  <1>4. ASSUME NEW n \in 1..WaitTicks, WaitCmd(n) PROVE AgeInv'
    <2>1. /\ pc = "serial" /\ pc' = pc /\ slept'
          /\ UNCHANGED <<last, moving>>
          /\ now' = Plus(now, n)
          /\ age' = IF age + n < AgeCap THEN age + n ELSE AgeCap
      BY <1>4 DEF WaitCmd, Older
    <2>2. ASSUME moving, age' < AgeCap PROVE age' = Elapsed(now', last')
      <3>1. age' = age + n /\ age < AgeCap /\ age + n < ClockMod
        BY <2>1, <2>2 DEF AgeCap
      <3>2. age = Elapsed(now, last)
        BY <2>2, <3>1
      <3> QED BY <2>1, <3>1, <3>2, ElapsedGrows
    <2> QED BY <2>1, <2>2
  <1>5. CASE HostDies
    BY <1>5 DEF HostDies
  <1>6. CASE Tick
    <2>1. CASE moving \/ pc = "brake"
      <3>1. /\ now' = Plus(now, 1) /\ spent' = spent + 1
            /\ age' = IF age < AgeCap THEN age + 1 ELSE age
            /\ UNCHANGED <<last, moving, pc, snap, slept>>
        BY <1>6, SerialNeverHangs DEF Tick
      <3>2. spent < MaxLoop
        BY <1>6, SerialNeverHangs DEF Tick
      <3>3. ASSUME age' < AgeCap PROVE age' = Elapsed(now', last')
        <4>1. age' = age + 1 /\ age < AgeCap /\ age + 1 < ClockMod
          BY <3>1, <3>3 DEF AgeCap
        <4> QED BY <2>1, <3>1, <4>1, ElapsedGrows
      <3>4. snap.at \in Clock /\ last \in Clock
        OBVIOUS
      <3>5. Elapsed(snap.at, last) \in Int
        BY <3>4, ElapsedIsInt
      <3>6. age <= age' /\ age' <= age + 1
        BY <3>1
      <3> QED BY <2>1, <3>1, <3>2, <3>3, <3>5, <3>6
    <2>2. CASE ~(moving \/ pc = "brake")
      BY <1>6, <2>2 DEF Tick
    <2> QED BY <2>1, <2>2
  <1>7. ~HangCmd /\ \A n \in 1..WaitTicks : ~BlindWaitCmd(n)
    BY SerialWaits
  <1> QED BY <1>1, <1>2, <1>3, <1>4, <1>5, <1>6, <1>7 DEF Command

LEMMA AgeStep ==
    ASSUME AgeInv, Step
    PROVE  AgeInv'
  <1>0. SerialInv /\ SerialInv'
    BY SerialStep DEF AgeInv
  <1> USE <1>0, TimesAssumption
      DEF AgeInv, SerialInv, TypeOK, MovingPc, StoppedPc, ctrlVars, clockVars,
          pidVars, pinVars, hostVars, Goto
  <1>1. CASE InitPins
    BY <1>1 DEF InitPins
  <1>2. CASE InitPid
    BY <1>2 DEF InitPid
  <1>3. CASE SerialEmpty
    BY <1>3 DEF SerialEmpty
  <1>4. CASE PidTest
    BY <1>4 DEF PidTest, GetMoveStatus
  <1>5. CASE IdleReset
    BY <1>5 DEF IdleReset
  <1>6. CASE NextPid
    BY <1>6 DEF NextPid
  <1>7. ASSUME NEW w \in Wheel, WheelIdle(w) PROVE AgeInv'
    BY <1>7 DEF WheelIdle, Off, Visited
  <1>8. ASSUME NEW w \in Wheel, WheelStart(w) PROVE AgeInv'
    BY <1>8 DEF WheelStart
  <1>9. ASSUME NEW w \in Wheel, WheelStore(w) PROVE AgeInv'
    BY <1>9 DEF WheelStore, Visited
  <1>10. ASSUME NEW w \in Wheel, LoadArg(w) PROVE AgeInv'
    BY <1>10 DEF LoadArg, Visited
  <1>11. ASSUME NEW w \in Wheel, SetPins(w) PROVE AgeInv'
    BY <1>11 DEF SetPins, Visited
  <1>12. ASSUME NEW w \in Wheel, Brake(w) PROVE AgeInv'
    BY <1>12 DEF Brake, Braked, Visited
  <1>13. CASE AutoTest
    <2>1. CASE moving
      <3>1. /\ snap' \in {[by |-> "clock", at |-> now], [by |-> "last", at |-> last]}
            /\ pc' = "autoCmp"
        BY <1>13, <2>1 DEF AutoTest, GetMoveStatus, ReadOperand
      <3>2. CASE snap' = [by |-> "clock", at |-> now]
        <4>1. snap'.by = "clock" /\ snap'.at = now
          BY <3>2
        <4>2. age < AgeCap => Elapsed(snap'.at, last') = age
          BY <1>13, <2>1, <4>1 DEF AutoTest, GetMoveStatus
        <4> QED BY <1>13, <2>1, <3>1, <4>1, <4>2 DEF AutoTest, GetMoveStatus
      <3>3. CASE snap' = [by |-> "last", at |-> last]
        <4>1. snap'.by = "last" /\ snap'.at = last
          BY <3>3
        <4> QED BY <1>13, <2>1, <3>1, <4>1 DEF AutoTest, GetMoveStatus
      <3> QED BY <3>1, <3>2, <3>3
    <2>2. CASE ~moving
      BY <1>13, <2>2 DEF AutoTest, GetMoveStatus
    <2> QED BY <2>1, <2>2
  <1>14. CASE AutoCompare
    <2>1. moving /\ pc = "autoCmp" /\ moving' = moving
      BY <1>14 DEF AutoCompare, TooOld
    <2>2. /\ UNCHANGED <<now, last, age, spent, slept>>
          /\ pc' = IF Age > AUTO_STOP_INTERVAL THEN "stop" ELSE "energy"
      BY <1>14 DEF AutoCompare, TooOld
    <2>3. Age \in Int /\ age \in Int /\ spent \in Int
      <3>1. now \in Clock /\ last \in Clock /\ snap.at \in Clock
        OBVIOUS
      <3>2. Elapsed(snap.at, last) \in Int /\ Elapsed(now, snap.at) \in Int
        BY <3>1, ElapsedIsInt
      <3> QED BY <3>2 DEF Age
    <2>4. age < AgeCap => Age <= age /\ age <= Age + spent
      BY <2>1 DEF Age
    <2>5. ~slept => age < AgeCap
      BY <2>1 DEF AgeCap
    <2>6. age = AgeCap \/ age < AgeCap
      BY AgeCapIsAge
    <2>7. AgeCap > AUTO_STOP_INTERVAL
      BY DEF AgeCap
    <2> HIDE DEF Age
    <2> QED BY <2>1, <2>2, <2>3, <2>4, <2>5, <2>6, <2>7
  <1>15. CASE AutoStop
    BY <1>15 DEF AutoStop
  <1>16. CASE EnergyTest
    <2>1. /\ UNCHANGED <<now, last, age, moving, slept>>
          /\ pc' # "brake" /\ pc' # "energy" /\ pc' # "autoCmp" /\ pc' # "stop"
      BY <1>16 DEF EnergyTest, Resting
    <2>2. CASE moving
      <3>1. (~slept => age <= AUTO_STOP_INTERVAL + spent) /\ spent' = 0
        BY <1>16, <2>2 DEF EnergyTest, Resting
      <3> QED BY <2>1, <2>2, <3>1
    <2>3. CASE ~moving
      BY <2>1, <2>3
    <2> QED BY <2>2, <2>3
  <1>17. CASE EnergyCompare
    BY <1>17 DEF EnergyCompare
  <1>18. CASE Standby
    BY <1>18 DEF Standby
  <1> QED
    BY <1>1, <1>2, <1>3, <1>4, <1>5, <1>6, <1>7, <1>8, <1>9,
       <1>10, <1>11, <1>12, <1>13, <1>14, <1>15, <1>16, <1>17, <1>18 DEF Step

LEMMA AgeNext ==
    ASSUME Link = "serial"
    PROVE  AgeInv /\ [Next]_vars => AgeInv'
  <1> SUFFICES ASSUME AgeInv, [Next]_vars PROVE AgeInv'
    OBVIOUS
  <1>1. CASE Command \/ HostDies \/ Tick
    BY <1>1, AgeCommand
  <1>2. CASE Step
    BY <1>2, AgeStep
  <1>3. CASE UNCHANGED vars
    BY <1>3, SerialNext DEF AgeInv, vars
  <1> QED BY <1>1, <1>2, <1>3 DEF Next

LEMMA AgeInit == Init => AgeInv
  BY SerialInit DEF Init, AgeInv

LEMMA AgeInvariant ==
    ASSUME Link = "serial"
    PROVE  Spec => []AgeInv
  BY AgeInit, AgeNext, PTL DEF Spec

\* Over the serial line no wheel is powered by a command older than the auto-stop
\* interval and two passes of the loop, unless a command has waited meanwhile.
THEOREM SerialDeadMan ==
    ASSUME Link = "serial"
    PROVE  Spec => []DeadMan
  <1>1. AgeInv => DeadMan
    BY TimesAssumption DEF AgeInv, SerialInv, TypeOK, DeadMan, Powered
  <1> QED BY <1>1, AgeInvariant, PTL

\* Over the serial line only a stop command ends a drive command that is not yet
\* stale, however long other commands have waited.
THEOREM SerialOnlyStaleHalts ==
    ASSUME Link = "serial"
    PROVE  Spec => OnlyStaleHalts
  <1>1. AgeInv /\ [Next]_vars =>
           [moving /\ ~moving' => halted' \/ age > AUTO_STOP_INTERVAL]_vars
    <2> SUFFICES ASSUME AgeInv, Next, moving, ~moving'
                 PROVE  halted' \/ age > AUTO_STOP_INTERVAL
      OBVIOUS
    <2>1. CASE Command \/ HostDies \/ Tick
      BY <2>1, SerialWaits
      DEF Command, MoveCmd, Awake, Targets, StopCmd, ResetCmd, WaitCmd, HostDies,
          Tick, hostVars
    <2>2. CASE Step
      BY <2>2
      DEF AgeInv, Step, InitPins, InitPid, SerialEmpty, PidTest, IdleReset,
          NextPid, WheelIdle, WheelStart, WheelStore, LoadArg, SetPins, Brake,
          AutoTest, AutoCompare, TooOld, AutoStop, EnergyTest, Resting, EnergyCompare,
          GetMoveStatus, Standby
    <2> QED BY <2>1, <2>2 DEF Next
  <1> QED BY <1>1, AgeInvariant, PTL DEF Spec, OnlyStaleHalts

-----------------------------------------------------------------------------
(* The last resort, over either link: commands may come at any point of a  *)
(* pass, between the two reads of a comparison too.                        *)

\* What is compared at autoCmp and energyCmp, if no command came since the
\* first of its operands was read.
SnapHolds ==
    \/ snap.by = "last" /\ snap.at = last
    \/ /\ snap.by = "clock"
       /\ Elapsed(snap.at, last) <= age /\ age <= Elapsed(snap.at, last) + spent

\* While the chips are awake and no command has waited, the age of the last 'm'
\* is the clock's, and a pass that would let it grow too old ends in standby.
Bounded ==
    /\ age = Elapsed(now, last)
    /\ age <= ENERGE_MODE_TIME + MaxLoop + spent
    /\ moving /\ pc \in {"brake", "energy"} => age <= AUTO_STOP_INTERVAL + spent
    /\ pc \in {"autoCmp", "energyCmp"} => age <= spent \/ SnapHolds

EnergyInv ==
    /\ ~slept /\ ~stby => Bounded
    /\ pc = "hung" => slept

LEMMA EnergyCommand ==
    ASSUME TypeOK, EnergyInv, Command \/ HostDies \/ Tick
    PROVE  EnergyInv'
  <1>t. /\ now \in Clock /\ last \in Clock /\ snap.at \in Clock
        /\ age \in Nat /\ spent \in 0..MaxLoop
    BY DEF TypeOK
  <1>z. Elapsed(now, now) = 0
    BY <1>t, ElapsedZero
  <1> USE TimesAssumption DEF EnergyInv, Bounded, ctrlVars, pidVars, pinVars, hostVars
  <1>1. ASSUME NEW S \in SUBSET Wheel, MoveCmd(S) PROVE EnergyInv'
    BY <1>1, <1>t, <1>z DEF MoveCmd, Receives
  <1>2. CASE StopCmd
    BY <1>2, <1>t, <1>z DEF StopCmd, Receives
  <1>3. CASE ResetCmd
    BY <1>3 DEF ResetCmd, SnapHolds
  <1>4. ASSUME NEW n \in 1..WaitTicks, WaitCmd(n) \/ BlindWaitCmd(n)
        PROVE  EnergyInv'
    BY <1>4 DEF WaitCmd, BlindWaitCmd
  <1>5. CASE HostDies
    BY <1>5 DEF HostDies, SnapHolds
  <1>6. CASE Tick
    <2> SUFFICES ASSUME ~slept, ~stby PROVE Bounded'
      BY <1>6 DEF Tick
    <2>0. pc # "hung"
      OBVIOUS
    <2>1. age < AgeCap /\ age + 1 < ClockMod
      BY <1>6, <1>t, <2>0 DEF Tick, AgeCap
    <2>2. age' = age + 1 /\ spent' = spent + 1
      BY <1>6, <2>0, <2>1 DEF Tick
    <2>3. UNCHANGED <<moving, pc, snap, last>>
      BY <1>6 DEF Tick
    <2>4. age' = Elapsed(now', last')
      BY <1>6, <1>t, <2>0, <2>1, <2>2, ElapsedGrows DEF Tick
    <2>5. Elapsed(snap.at, last) \in Int
      BY <1>t, ElapsedIsInt
    <2>6. SnapHolds => SnapHolds'
      BY <1>t, <2>2, <2>3, <2>5 DEF SnapHolds
    <2>7. spent' \in 0..MaxLoop
      BY <1>6, <1>t, <2>0 DEF Tick
    <2> QED BY <1>t, <2>2, <2>3, <2>4, <2>6, <2>7
  <1>7. CASE HangCmd
    BY <1>7 DEF HangCmd
  <1> QED BY <1>1, <1>2, <1>3, <1>4, <1>5, <1>6, <1>7 DEF Command

\* A comparison does not take the command for younger than it is, by more than
\* the pass has taken, or one has come meanwhile.
LEMMA AgeOrFresh ==
    ASSUME TypeOK, Bounded, pc \in {"autoCmp", "energyCmp"}
    PROVE  Age \in Int /\ (age <= spent \/ age <= Age + spent)
  <1>1. /\ now \in Clock /\ last \in Clock /\ snap.at \in Clock
        /\ age \in Nat /\ spent \in Nat
    BY TimesAssumption DEF TypeOK
  <1>2. Elapsed(snap.at, last) \in Int /\ Elapsed(now, snap.at) \in Int
    BY <1>1, ElapsedIsInt
  <1> QED BY <1>1, <1>2 DEF Bounded, SnapHolds, Age

LEMMA EnergyStep ==
    ASSUME TypeOK, EnergyInv, Step
    PROVE  EnergyInv'
  <1>t. /\ now \in Clock /\ last \in Clock /\ age \in Nat /\ spent \in 0..MaxLoop
    BY DEF TypeOK
  <1> USE TimesAssumption
      DEF EnergyInv, Bounded, ctrlVars, clockVars, pidVars, pinVars, hostVars, Goto
  <1>1. CASE InitPins \/ Standby
    BY <1>1 DEF InitPins, Standby
  <1>2. CASE InitPid \/ SerialEmpty \/ PidTest \/ IdleReset \/ NextPid
    BY <1>2 DEF InitPid, SerialEmpty, PidTest, IdleReset, NextPid
  <1>3. ASSUME NEW w \in Wheel, WheelIdle(w) \/ WheelStart(w) \/ WheelStore(w)
        PROVE  EnergyInv'
    BY <1>3 DEF WheelIdle, Off, WheelStart, WheelStore, Visited
  <1>4. ASSUME NEW w \in Wheel, LoadArg(w) \/ SetPins(w) PROVE EnergyInv'
    BY <1>4 DEF LoadArg, SetPins, Visited
  <1>5. ASSUME NEW w \in Wheel, Brake(w) PROVE EnergyInv'
    BY <1>5 DEF Brake, Visited
  <1>6. CASE AutoTest
    <2>1. UNCHANGED <<now, last, age, spent, moving, slept, stby>>
      BY <1>6 DEF AutoTest
    <2>2. CASE moving
      <3>1. pc' = "autoCmp" /\ ReadOperand
        BY <1>6, <2>2 DEF AutoTest, GetMoveStatus
      <3>2. ~slept /\ ~stby => SnapHolds'
        BY <1>t, <2>1, <3>1 DEF ReadOperand, SnapHolds
      <3> QED BY <2>1, <3>1, <3>2
    <2>3. CASE ~moving
      BY <1>6, <2>1, <2>3 DEF AutoTest, GetMoveStatus
    <2> QED BY <2>2, <2>3
  <1>7. CASE AutoCompare
    <2>1. /\ UNCHANGED <<now, last, age, spent, moving, slept, stby>>
          /\ pc = "autoCmp"
          /\ pc' = IF Age > AUTO_STOP_INTERVAL THEN "stop" ELSE "energy"
      BY <1>7 DEF AutoCompare, TooOld
    <2>2. ~slept /\ ~stby => Age \in Int /\ (age <= spent \/ age <= Age + spent)
      BY <2>1, AgeOrFresh
    <2> QED BY <1>t, <2>1, <2>2
  <1>8. CASE AutoStop
    BY <1>8 DEF AutoStop
  <1>9. CASE EnergyTest
    <2>1. UNCHANGED <<now, last, age, moving, slept, stby>> /\ pc = "energy"
      BY <1>9 DEF EnergyTest
    <2>2. CASE moving
      <3>1. pc' = "serial" /\ spent' = 0
        BY <1>9, <2>2 DEF EnergyTest, Resting
      <3> QED BY <1>t, <2>1, <2>2, <3>1
    <2>3. CASE ~moving
      <3>1. pc' = "energyCmp" /\ ReadOperand /\ spent' = spent
        BY <1>9, <2>3 DEF EnergyTest, Resting
      <3>2. ~slept /\ ~stby => SnapHolds'
        BY <1>t, <2>1, <3>1 DEF ReadOperand, SnapHolds
      <3> QED BY <2>1, <2>3, <3>1, <3>2
    <2> QED BY <2>2, <2>3
  <1>10. CASE EnergyCompare
    <2>1. /\ UNCHANGED <<now, last, age, moving, slept, stby>>
          /\ pc = "energyCmp"
          /\ IF Age > ENERGE_MODE_TIME THEN pc' = "standby" /\ spent' = spent
                                       ELSE pc' = "serial" /\ spent' = 0
      BY <1>10 DEF EnergyCompare
    <2>2. ~slept /\ ~stby => Age \in Int /\ (age <= spent \/ age <= Age + spent)
      BY <2>1, AgeOrFresh
    <2> QED BY <1>t, <2>1, <2>2
  <1> QED
    BY <1>1, <1>2, <1>3, <1>4, <1>5, <1>6, <1>7, <1>8, <1>9, <1>10 DEF Step

LEMMA EnergyNext == TypeOK /\ EnergyInv /\ [Next]_vars => EnergyInv'
  <1> SUFFICES ASSUME TypeOK, EnergyInv, [Next]_vars PROVE EnergyInv'
    OBVIOUS
  <1>1. CASE Command \/ HostDies \/ Tick
    BY <1>1, EnergyCommand
  <1>2. CASE Step
    BY <1>2, EnergyStep
  <1>3. CASE UNCHANGED vars
    BY <1>3 DEF EnergyInv, Bounded, SnapHolds, vars
  <1> QED BY <1>1, <1>2, <1>3 DEF Next

\* Over either link, commands that come at any point of a pass included, no
\* wheel is powered longer than the time of the energy mode and two passes after
\* the last 'm' command, unless a command has waited meanwhile.
THEOREM LastResort == Spec => []EnergyDeadMan
  <1>1. TypeOK /\ EnergyInv => EnergyDeadMan
    BY TimesAssumption DEF TypeOK, EnergyInv, Bounded, EnergyDeadMan, Powered
  <1>2. Init => EnergyInv
    BY DEF Init, EnergyInv
  <1> QED BY <1>1, <1>2, InitType, NextType, EnergyNext, PTL DEF Spec

-----------------------------------------------------------------------------
(* Refinement of the dead-man switch.                                      *)

LEMMA SwitchInit == Init => DMS!Init
  BY DEF Init, DMS!Init, Powered

LEMMA SwitchCommand ==
    ASSUME Link = "serial", AgeInv, Command \/ HostDies \/ Tick
    PROVE  [DMS!Next]_(DMS!vars)
  <1> USE DEF AgeInv, SerialInv, TypeOK, Powered, DMS!vars, DMS!Next, ctrlVars,
              pidVars, pinVars, hostVars
  <1>1. ASSUME NEW S \in SUBSET Wheel, MoveCmd(S) PROVE DMS!Drive
    <2>1. moving => ~stby
      BY DEF AwakeWhileMoving
    <2>2. ~moving => driven = {}
      BY <1>1 DEF MoveCmd, Awake, Targets, Receives
    <2> QED BY <1>1, <2>1, <2>2 DEF MoveCmd, Awake, Targets, DMS!Drive
  <1>2. CASE StopCmd
    BY <1>2 DEF StopCmd, DMS!Halt
  <1>3. CASE ResetCmd
    BY <1>3 DEF ResetCmd
  <1>4. ASSUME NEW n \in 1..WaitTicks, WaitCmd(n) PROVE DMS!Stall
    <2>1. age' \in age..AgeCap
      BY <1>4, TimesAssumption DEF WaitCmd, Older, AgeCap
    <2> QED BY <1>4, <2>1 DEF WaitCmd, DMS!Stall
  <1>5. CASE HostDies
    BY <1>5 DEF HostDies
  <1>6. CASE Tick
    <2>1. age' = IF age < AgeCap THEN age + 1 ELSE age
      BY <1>6 DEF Tick
    <2>2. Powered # {} /\ ~slept => age' <= AUTO_STOP_INTERVAL + 2 * MaxLoop
      BY <1>6, <2>1, TimesAssumption, SerialNeverHangs DEF Tick
    <2> QED BY <1>6, <2>1, <2>2 DEF Tick, DMS!Grow
  <1>7. ~HangCmd /\ \A n \in 1..WaitTicks : ~BlindWaitCmd(n)
    BY SerialWaits
  <1> QED BY <1>1, <1>2, <1>3, <1>4, <1>5, <1>6, <1>7 DEF Command

LEMMA SwitchStep ==
    ASSUME AgeInv, Step
    PROVE  [DMS!Next]_(DMS!vars)
  <1> USE DEF AgeInv, SerialInv, TypeOK, Powered, DMS!vars, DMS!Next, MovingPc,
              StoppedPc, ctrlVars, clockVars, pidVars, pinVars, hostVars, Goto
  <1>1. CASE InitPins
    BY <1>1 DEF InitPins
  <1>2. CASE InitPid \/ SerialEmpty \/ PidTest \/ IdleReset \/ NextPid
    BY <1>2 DEF InitPid, SerialEmpty, PidTest, GetMoveStatus, IdleReset, NextPid
  <1>3. ASSUME NEW w \in Wheel,
               WheelIdle(w) \/ WheelStart(w) \/ WheelStore(w) \/ LoadArg(w)
        PROVE  UNCHANGED DMS!vars
    BY <1>3 DEF WheelIdle, WheelStart, WheelStore, LoadArg
  <1>4. ASSUME NEW w \in Wheel, SetPins(w) PROVE DMS!Control
    BY <1>4 DEF SetPins, DMS!Control
  <1>5. ASSUME NEW w \in Wheel, Brake(w)
        PROVE  DMS!Release \/ UNCHANGED DMS!vars
    BY <1>5 DEF Brake, Braked, DMS!Release
  <1>6. CASE AutoTest \/ AutoCompare
    BY <1>6 DEF AutoTest, GetMoveStatus, AutoCompare, TooOld
  <1>7. CASE AutoStop
    BY <1>7 DEF AutoStop, DMS!Expire
  <1>8. CASE EnergyTest \/ EnergyCompare
    BY <1>8 DEF EnergyTest, Resting, EnergyCompare
  <1>9. CASE Standby
    BY <1>9 DEF Standby
  <1> QED
    BY <1>1, <1>2, <1>3, <1>4, <1>5, <1>6, <1>7, <1>8, <1>9 DEF Step

\* Over the serial line the loop implements the dead-man switch, commands that
\* wait included.
THEOREM SerialImplementsDeadManSwitch ==
    ASSUME Link = "serial"
    PROVE  Spec => ImplementsDeadManSwitch
  <1>1. AgeInv /\ [Next]_vars => [DMS!Next]_(DMS!vars)
    <2> SUFFICES ASSUME AgeInv, [Next]_vars PROVE [DMS!Next]_(DMS!vars)
      OBVIOUS
    <2>1. CASE Command \/ HostDies \/ Tick
      BY <2>1, SwitchCommand
    <2>2. CASE Step
      BY <2>2, SwitchStep
    <2>3. CASE UNCHANGED vars
      BY <2>3 DEF vars, DMS!vars, Powered
    <2> QED BY <2>1, <2>2, <2>3 DEF Next
  <1> QED
    BY <1>1, SwitchInit, AgeInvariant, PTL
    DEF Spec, ImplementsDeadManSwitch, DMS!Spec
=============================================================================
