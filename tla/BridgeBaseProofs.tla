--------------------------- MODULE BridgeBaseProofs ---------------------------
(***************************************************************************)
(* Proofs about BridgeBase: a stopped base is still, for any number of     *)
(* wheels and either kind of encoder; its types, for any width of the      *)
(* integers; that the auto-stop acts in time, for any interval and clock;  *)
(* and that a frame measures what was counted in it, if no count came      *)
(* between the bytes of its reads.                                         *)
(***************************************************************************)
EXTENDS BridgeBase, TLAPS

-----------------------------------------------------------------------------
(* A stopped base is still.                                                *)

\* A frame is only computed by a base that moves.
StillInv ==
    /\ StoppedIsStill
    /\ pc = "frame" => moving
    /\ back \in {"serial", "auto"}

LEMMA StillInit == Init => StillInv
  BY DEF Init, StillInv, StoppedIsStill

LEMMA StillNext == StillInv /\ [Next]_vars => StillInv'
  <1> SUFFICES ASSUME StillInv, [Next]_vars PROVE StillInv'
    OBVIOUS
  <1> USE DEF StillInv, StoppedIsStill, drive
  <1>1. ASSUME NEW w \in Wheel, NEW by \in {-1, 1}, Count(w, by) PROVE StillInv'
    BY <1>1 DEF Count
  <1>2. CASE Tick \/ HostDies
    BY <1>2 DEF Tick, HostDies
  <1>3. CASE Move \/ Stop
    BY <1>3 DEF Move, Stop, StopSpeeds
  <1>4. CASE ResetEncoders \/ RunLoop
    BY <1>4 DEF ResetEncoders, RunLoop
  <1>5. CASE ClearLow \/ ReadLow
    BY <1>5 DEF ClearLow, ReadLow
  <1>6. CASE ClearHigh
    BY <1>6 DEF ClearHigh, NextWheel
  <1>7. CASE UpdateRead
    BY <1>7 DEF UpdateRead, NextWheel
  <1>8. CASE ResetRead
    <2>1. /\ speeds' = speeds /\ moving' = moving /\ back' = back
          /\ pc' \in {pc, back}
      BY <1>8 DEF ResetRead, NextWheel
    <2>2. pc = "reset"
      BY <1>8 DEF ResetRead
    <2> QED BY <2>1, <2>2
  <1>9. CASE Frame
    BY <1>9 DEF Frame
  <1>10. CASE AutoStop
    BY <1>10 DEF AutoStop, StopSpeeds, Halted
  <1>11. CASE UNCHANGED vars
    BY <1>11 DEF vars
  <1> QED
    BY <1>1, <1>2, <1>3, <1>4, <1>5, <1>6, <1>7, <1>8, <1>9, <1>10, <1>11 DEF Next, Timeless

\* A stopped base gives no motor a speed.
THEOREM BridgeStoppedIsStill == Spec => []StoppedIsStill
  <1>1. StillInv => StoppedIsStill
    BY DEF StillInv
  <1> QED BY <1>1, StillInit, StillNext, PTL DEF Spec

-----------------------------------------------------------------------------
(* Arithmetic of counts that wrap.                                         *)

LEMMA DivMod ==
  ASSUME NEW I \in Nat \ {0}, NEW x \in Int
  PROVE  x = (x % I) + I * (x \div I) /\ x % I \in 0..(I - 1) /\ x \div I \in Int
  OBVIOUS

LEMMA TimesPositive ==
  ASSUME NEW I \in Nat \ {0}, NEW d \in Int, d >= 1
  PROVE  I * d >= I
  OBVIOUS

\* A remainder is unique ...
LEMMA OneRemainder ==
  ASSUME NEW I \in Nat \ {0}, NEW y \in 0..(I - 1), NEW r \in 0..(I - 1),
         NEW a \in Int, NEW b \in Int, y + I * a = r + I * b
  PROVE  y = r
  <1>1. CASE a >= b + 1
    <2>1. I * (a - b) >= I  BY <1>1, TimesPositive
    <2>2. I * (a - b) = I * a - I * b  OBVIOUS
    <2> QED BY <2>1, <2>2
  <1>2. CASE b >= a + 1
    <2>1. I * (b - a) >= I  BY <1>2, TimesPositive
    <2>2. I * (b - a) = I * b - I * a  OBVIOUS
    <2> QED BY <2>1, <2>2
  <1>3. CASE a = b
    <2>1. I * a = I * b  BY <1>3
    <2> QED BY <2>1
  <1> QED BY <1>1, <1>2, <1>3

\* ... and what is added to it in whole turns is lost.
LEMMA ModTurns ==
  ASSUME NEW I \in Nat \ {0}, NEW y \in 0..(I - 1), NEW k \in Int
  PROVE  (y + I * k) % I = y
  <1> DEFINE x == y + I * k
  <1>1. x \in Int  OBVIOUS
  <1> HIDE DEF x
  <1>2. x = (x % I) + I * (x \div I) /\ x % I \in 0..(I - 1) /\ x \div I \in Int
    BY <1>1, DivMod
  <1>3. y + I * k = (x % I) + I * (x \div I)  BY <1>2 DEF x
  <1>4. y = x % I  BY <1>2, <1>3, OneRemainder
  <1> QED BY <1>4 DEF x

\* A count put together from the upper bytes of one and lower bytes fits.
LEMMA PiecesFit ==
  ASSUME NEW L \in Nat \ {0}, NEW s \in Nat \ {0}, L % s = 0,
         NEW a \in 0..(L - 1), NEW l \in 0..(s - 1)
  PROVE  a - (a % s) + l \in 0..(L - 1)
  <1> DEFINE q == a \div s
             n == L \div s
  <1>1. /\ a = (a % s) + s * q /\ a % s \in 0..(s - 1) /\ q \in Int
        /\ L = s * n /\ n \in Int
    BY DivMod
  <1> HIDE DEF q, n
  <1>2. q < n
    <2> SUFFICES ASSUME q >= n PROVE FALSE
      BY <1>1
    <2>1. s * (q - n) >= 0
      BY <1>1
    <2>2. s * (q - n) = s * q - s * n
      BY <1>1
    <2> QED BY <1>1, <2>1, <2>2
  <1>3. s * (n - q) >= s
    BY <1>1, <1>2, TimesPositive
  <1>4. s * (n - q) = s * n - s * q
    BY <1>1
  <1>5. s * q >= 0
    <2> SUFFICES ASSUME q < 0 PROVE FALSE
      BY <1>1
    <2>1. s * (0 - q) >= s
      BY <1>1, TimesPositive
    <2>2. s * (0 - q) = 0 - s * q
      BY <1>1
    <2> QED BY <1>1, <2>1, <2>2
  <1> QED BY <1>1, <1>3, <1>4, <1>5

-----------------------------------------------------------------------------
(* Types.                                                                  *)

\* The bytes read so far are below the place the read is interrupted at.
TypeInv ==
    /\ TypeOK
    /\ low \in 0..split
    /\ split # 0 => low < split

LEMMA Constants ==
    /\ NW \in Nat \ {0} /\ LongMod \in Nat \ {0} /\ IntMod \in Nat \ {0}
    /\ \A s \in Splits : s \in Nat \ {0} /\ LongMod % s = 0
    /\ MaxTicks \in Nat /\ 2 * MaxTicks < IntMod
    /\ ClockMod \in Nat /\ AUTO_STOP_INTERVAL \in Nat \ {0} /\ MaxLoop \in Nat \ {0}
    /\ AUTO_STOP_INTERVAL + MaxLoop + 1 < ClockMod
  BY BridgeAssumption

\* What a read results in is a long, interrupted or not.
LEMMA ReadType ==
  ASSUME TypeInv
  PROVE  Read \in 0..(LongMod - 1)
  <1>1. enc[wheel] \in 0..(LongMod - 1)
    BY DEF TypeInv, TypeOK
  <1>2. CASE split = 0
    BY <1>1, <1>2 DEF Read
  <1>3. CASE split # 0
    <2>1. split \in Nat \ {0} /\ LongMod % split = 0 /\ low \in 0..(split - 1)
      BY <1>3, Constants DEF TypeInv, TypeOK
    <2> QED BY <1>1, <1>3, <2>1, Constants, PiecesFit DEF Read
  <1> QED BY <1>2, <1>3

LEMMA InputType ==
  ASSUME TypeOK, NEW w \in Wheel
  PROVE  Input(w) \in Int
  <1>1. encoder[w] - prevEnc[w] \in Int
    BY Constants DEF TypeOK
  <1> QED BY <1>1, Constants DEF Input, Trunc

LEMMA NextWheelType ==
  ASSUME TypeInv, NEW p, NextWheel(p)
  PROVE  /\ wheel' \in Wheel /\ pc' \in {pc, p}
         /\ split' = 0 /\ low' = 0 /\ disturbed' \in BOOLEAN
  <1>1. wheel' \in Wheel /\ pc' \in {pc, p} /\ split' = 0 /\ low' = 0
    BY Constants DEF TypeInv, TypeOK, NextWheel, Wheel
  <1>2. disturbed' \in BOOLEAN
    BY Zenon DEF NextWheel
  <1> QED BY <1>1, <1>2

LEMMA ReadEncoderType ==
  ASSUME TypeInv, ReadEncoder
  PROVE  frame' \in [Wheel -> -MaxTicks..MaxTicks]
  BY Constants DEF TypeInv, TypeOK, ReadEncoder

LEMMA TypeInit == Init => TypeInv
  <1> SUFFICES ASSUME Init PROVE TypeInv
    OBVIOUS
  <1>1. /\ enc \in [Wheel -> 0..(LongMod - 1)]
        /\ enc \in [Wheel -> -MaxTicks..MaxTicks] /\ enc \in [Wheel -> Int]
        /\ 1 \in Wheel
    BY Constants DEF Init, Wheel
  <1>2. /\ moving \in BOOLEAN /\ speeds \subseteq Wheel
        /\ tracked \subseteq Wheel /\ exact \subseteq Wheel /\ disturbed \in BOOLEAN
    BY DEF Init
  <1>3. /\ pc = "reset" /\ back = "serial" /\ low = 0 /\ split = 0 /\ wheel = 1
        /\ encoder = enc /\ prevEnc = enc /\ prevInput = enc
        /\ frame = enc /\ measured = enc
    BY DEF Init
  <1>4. since \in 0..(ClockMod - 1) /\ spent \in 0..MaxLoop
    BY Constants DEF Init
  <1>5. host \in BOOLEAN /\ stale \in BOOLEAN
    BY DEF Init
  <1> QED BY <1>1, <1>2, <1>3, <1>4, <1>5 DEF TypeInv, TypeOK

LEMMA TypeNext == TypeInv /\ [Next]_vars => TypeInv'
  <1> SUFFICES ASSUME TypeInv, [Next]_vars PROVE TypeInv'
    OBVIOUS
  <1> USE DEF drive, time, pidVars, readVars, frameVars
  <1>1. ASSUME NEW w \in Wheel, NEW by \in {-1, 1}, Count(w, by) PROVE TypeInv'
    <2>1. enc[w] + by \in Int
      BY Constants DEF TypeInv, TypeOK
    <2>2. (enc[w] + by) % LongMod \in 0..(LongMod - 1)
      BY <2>1, Constants, DivMod
    <2>3. enc' \in [Wheel -> 0..(LongMod - 1)]
      BY <1>1, <2>2 DEF Count, TypeInv, TypeOK
    <2>4. frame' \in [Wheel -> -MaxTicks..MaxTicks]
      BY <1>1 DEF Count, TypeInv, TypeOK
    <2> QED BY <1>1, <2>3, <2>4 DEF Count, TypeInv, TypeOK
  <1>2. CASE Move \/ Stop
    <2>1. since' \in 0..(ClockMod - 1)
      BY <1>2, Constants DEF Move, Stop
    <2>2. moving' \in BOOLEAN /\ speeds' \subseteq Wheel
      BY <1>2 DEF Move, Stop, StopSpeeds, TypeInv, TypeOK
    <2> QED BY <1>2, <2>1, <2>2 DEF Move, Stop, TypeInv, TypeOK
  <1>13. CASE HostDies
    BY <1>13 DEF HostDies, TypeInv, TypeOK
  <1>11. CASE (ResetEncoders \/ RunLoop) /\ UNCHANGED time
    BY <1>11 DEF ResetEncoders, RunLoop, TypeInv, TypeOK
  <1>12. CASE Tick
    <2>1. since' \in 0..(ClockMod - 1)
      BY <1>12, Constants DEF Tick, TypeInv, TypeOK
    <2>2. spent' \in 0..MaxLoop /\ stale' \in BOOLEAN
      BY <1>12, Constants DEF Tick, TypeInv, TypeOK
    <2> QED BY <1>12, <2>1, <2>2 DEF Tick, TypeInv, TypeOK
  <1>3. CASE ClearLow /\ UNCHANGED time
    <2>1. PICK s \in Splits : split' = s /\ enc' = [enc EXCEPT ![wheel] = @ - (@ % s)]
      BY <1>3 DEF ClearLow
    <2>2. enc[wheel] - (enc[wheel] % s) \in 0..(LongMod - 1)
      <3>1. enc[wheel] \in 0..(LongMod - 1) /\ 0 \in 0..(s - 1)
        BY Constants DEF TypeInv, TypeOK
      <3>2. enc[wheel] - (enc[wheel] % s) + 0 \in 0..(LongMod - 1)
        BY <3>1, Constants, PiecesFit
      <3> QED BY <3>1, <3>2, Constants
    <2>3. enc' \in [Wheel -> 0..(LongMod - 1)]
      BY <2>1, <2>2 DEF TypeInv, TypeOK
    <2>4. low = 0
      BY <1>3 DEF ClearLow, TypeInv
    <2> QED BY <1>3, <2>1, <2>3, <2>4, Constants DEF ClearLow, TypeInv, TypeOK
  <1>4. CASE ClearHigh /\ UNCHANGED time
    <2>1. (IF split = 0 THEN 0 ELSE enc[wheel] % split) \in 0..(LongMod - 1)
      <3>1. enc[wheel] \in 0..(LongMod - 1) /\ split \in Splits \cup {0}
        BY DEF TypeInv, TypeOK
      <3>2. split # 0 => enc[wheel] % split <= enc[wheel] /\ enc[wheel] % split >= 0
        BY <3>1, Constants
      <3> QED BY <3>1, <3>2, Constants
    <2>2. enc' \in [Wheel -> 0..(LongMod - 1)]
      BY <1>4, <2>1 DEF ClearHigh, TypeInv, TypeOK
    <2>3. /\ wheel' \in Wheel /\ pc' \in {pc, "reset"}
          /\ split' = 0 /\ low' = 0 /\ disturbed' \in BOOLEAN
      BY <1>4, NextWheelType DEF ClearHigh
    <2> QED BY <1>4, <2>2, <2>3 DEF ClearHigh, TypeInv, TypeOK
  <1>5. CASE ReadLow /\ UNCHANGED time
    <2>1. PICK s \in Splits : split' = s /\ low' = enc[wheel] % s
      BY <1>5 DEF ReadLow
    <2>2. enc[wheel] \in Nat
      BY Constants DEF TypeInv, TypeOK
    <2>3. s \in Nat \ {0}
      BY Constants
    <2>4. low' \in 0..(s - 1)
      BY <2>1, <2>2, <2>3, DivMod
    <2> QED BY <1>5, <2>1, <2>3, <2>4 DEF ReadLow, TypeInv, TypeOK
  <1>6. CASE UpdateRead /\ UNCHANGED time
    <2>1. encoder' \in [Wheel -> 0..(LongMod - 1)]
      BY <1>6, ReadType DEF UpdateRead, ReadEncoder, TypeInv, TypeOK
    <2>2. /\ wheel' \in Wheel /\ split' = 0 /\ low' = 0 /\ disturbed' \in BOOLEAN
          /\ pc' \in {pc, "frame", "reset", "auto"}
      BY <1>6, NextWheelType DEF UpdateRead
    <2>3. measured' \in [Wheel -> -MaxTicks..MaxTicks]
      BY <1>6 DEF UpdateRead, TypeInv, TypeOK
    <2> QED BY <1>6, <2>1, <2>2, <2>3, ReadEncoderType DEF UpdateRead, TypeInv, TypeOK
  <1>7. CASE ResetRead /\ UNCHANGED time
    <2>1. /\ encoder' \in [Wheel -> 0..(LongMod - 1)]
          /\ prevEnc' \in [Wheel -> 0..(LongMod - 1)]
          /\ prevInput' \in [Wheel -> Int]
      BY <1>7, ReadType DEF ResetRead, ResetPrev, ReadEncoder, TypeInv, TypeOK
    <2>2. /\ wheel' \in Wheel /\ split' = 0 /\ low' = 0 /\ disturbed' \in BOOLEAN
          /\ pc' \in {pc, back}
      BY <1>7, NextWheelType DEF ResetRead
    <2> QED BY <1>7, <2>1, <2>2, ReadEncoderType DEF ResetRead, TypeInv, TypeOK
  <1>8. CASE Frame /\ UNCHANGED time
    <2>1. prevInput' \in [Wheel -> Int]
      BY <1>8, InputType DEF Frame, TypeInv
    <2> QED BY <1>8, <2>1 DEF Frame, TypeInv, TypeOK
  <1>9. CASE AutoStop
    <2>1. moving' \in BOOLEAN /\ speeds' \subseteq Wheel
      BY <1>9, Zenon DEF AutoStop, StopSpeeds, Halted, TypeInv, TypeOK
    <2>2. spent' \in 0..MaxLoop
      BY <1>9, Constants DEF AutoStop
    <2>3. measured' \in [Wheel -> -MaxTicks..MaxTicks] /\ exact' = {}
      BY <1>9, Constants DEF AutoStop
    <2> QED BY <1>9, <2>1, <2>2, <2>3 DEF AutoStop, TypeInv, TypeOK
  <1>10. CASE UNCHANGED vars
    BY <1>10 DEF vars, TypeInv, TypeOK
  <1> QED BY <1>1, <1>2, <1>3, <1>4, <1>5, <1>6, <1>7, <1>8, <1>9, <1>10,
         <1>11, <1>12, <1>13 DEF Next, Timeless

\* Every variable stays in its type: a count and what is read of it are a long,
\* whatever byte boundary the read or the reset is interrupted at.
THEOREM BridgeTypeCorrect == Spec => []TypeOK
  <1>1. TypeInv => TypeOK
    BY DEF TypeInv
  <1> QED BY <1>1, TypeInit, TypeNext, PTL DEF Spec

-----------------------------------------------------------------------------
(* The auto-stop acts in time.                                             *)

\* A base that moves, not only one whose motors have a speed, has been sent a
\* command within the interval and the time since it was last tested.
DeadManInv ==
    /\ StillInv
    /\ moving => ~stale /\ since <= AUTO_STOP_INTERVAL + spent
    /\ ~stale => since < MaxAge

\* What a millisecond does to the age of a command that is not stale.
LEMMA SinceGrows ==
    ASSUME TypeInv, Tick, since < MaxAge
    PROVE  since' = since + 1
  <1>1. since' = (since + 1) % ClockMod /\ since \in Nat
    BY DEF Tick, TypeInv, TypeOK
  <1>2. since + 1 \in 0..(ClockMod - 1)
    BY <1>1, Constants DEF MaxAge
  <1> QED BY <1>1, <1>2, Constants

LEMMA DeadManNext == TypeInv /\ DeadManInv /\ [Next]_vars => DeadManInv'
  <1> SUFFICES ASSUME TypeInv, DeadManInv, [Next]_vars PROVE DeadManInv'
    OBVIOUS
  <1>s. StillInv'
    BY StillNext DEF DeadManInv
  <1>t. since \in Nat /\ spent \in 0..MaxLoop
    BY DEF TypeInv, TypeOK
  <1> USE DEF DeadManInv, drive, time
  <1>1. ASSUME NEW w \in Wheel, NEW by \in {-1, 1}, Count(w, by) PROVE DeadManInv'
    BY <1>1, <1>s DEF Count
  <1>2. CASE Tick
    <2>1. /\ moving' = moving /\ spent < MaxLoop /\ spent' = spent + 1
          /\ stale' <=> (stale \/ since' = MaxAge)
      BY <1>2 DEF Tick
    <2>2. ~stale => since < MaxAge /\ since' = since + 1
      BY <1>2, SinceGrows
    <2>3. moving => ~stale' /\ since' <= AUTO_STOP_INTERVAL + spent' 
      BY <1>t, <2>1, <2>2, Constants DEF MaxAge
    <2>4. ~stale' => since' < MaxAge
      BY <1>t, <2>1, <2>2, Constants DEF MaxAge
    <2> QED BY <1>s, <2>1, <2>3, <2>4
  <1>3. CASE Move \/ Stop
    BY <1>3, <1>s, <1>t, Constants DEF Move, Stop, MaxAge
  <1>4. CASE Timeless
    <2>1. moving' = moving /\ UNCHANGED time
      BY <1>4 DEF Timeless, ResetEncoders, RunLoop, ClearLow, ClearHigh, ReadLow,
                  UpdateRead, ResetRead, Frame
    <2> QED BY <1>s, <2>1
  <1>5. CASE AutoStop
    <2>1. since' = since /\ stale' = stale /\ spent' = 0 /\ moving' = IF Expired THEN FALSE ELSE moving
      BY <1>5 DEF AutoStop, Halted
    <2> QED BY <1>s, <1>t, <2>1, Constants DEF Expired
  <1>6. CASE HostDies \/ UNCHANGED vars
    BY <1>6, <1>s DEF HostDies, vars
  <1> QED BY <1>1, <1>2, <1>3, <1>4, <1>5, <1>6 DEF Next

LEMMA DeadManInvariant == Spec => [](TypeInv /\ DeadManInv)
  <1>1. Init => DeadManInv
    BY StillInit DEF DeadManInv, Init
  <1> QED BY <1>1, TypeInit, TypeNext, DeadManNext, PTL DEF Spec

\* No motor has a speed longer than the interval and a pass after the last
\* command, for any interval, any bound on a pass, and over the wrap of the
\* clock, if that is longer than both together.
THEOREM BridgeDeadMan == Spec => []DeadMan
  <1>1. DeadManInv => DeadMan
    BY DEF DeadManInv, DeadMan, StillInv, StoppedIsStill
  <1> QED BY <1>1, DeadManInvariant, PTL

\* Every step of the bridge is one of the dead-man switch, or none.
LEMMA SwitchNext ==
    TypeInv /\ DeadManInv /\ [Next]_vars => [DMS!Next]_(DMS!vars)
  <1> SUFFICES ASSUME TypeInv, DeadManInv, [Next]_vars
               PROVE  [DMS!Next]_(DMS!vars)
    OBVIOUS
  <1>t. /\ since \in Nat /\ spent \in 0..MaxLoop
        /\ stale \in BOOLEAN /\ moving \in BOOLEAN
    BY DEF TypeInv, TypeOK
  <1>n. AUTO_STOP_INTERVAL \in Nat /\ MaxLoop \in Nat
    BY BridgeAssumption
  <1> USE DEF drive, time, DMS!vars
  <1>1. CASE \/ \E w \in Wheel, by \in {-1, 1} : Count(w, by)
             \/ HostDies \/ UNCHANGED vars
    BY <1>1 DEF Count, HostDies, vars
  <1>2. CASE Tick
    <2>1. /\ UNCHANGED drive /\ spent < MaxLoop
          /\ stale' <=> (stale \/ since' = MaxAge)
      BY <1>2 DEF Tick
    <2>2. ~stale => since < MaxAge /\ since' = since + 1
      BY <1>2, SinceGrows DEF DeadManInv
    <2>3. speeds # {} => ~stale /\ since <= AUTO_STOP_INTERVAL + spent
      BY DEF DeadManInv, StillInv, StoppedIsStill
    <2>4. DMS!Grow
      <3>1. CASE stale
        BY <2>1, <2>3, <3>1, <1>n DEF DMS!Grow, MaxAge
      <3>2. CASE ~stale
        BY <1>t, <1>n, <2>1, <2>2, <2>3, <3>2 DEF DMS!Grow, MaxAge
      <3> QED BY <3>1, <3>2
    <2> QED BY <2>4 DEF DMS!Next
  <1>3. CASE Move
    BY <1>3 DEF Move, DMS!Next, DMS!Drive
  <1>4. CASE Stop
    BY <1>4 DEF Stop, StopSpeeds, DMS!Next, DMS!Halt
  <1>5. CASE Timeless
    <2>1. CASE Frame
      <3>1. moving /\ moving' = moving /\ UNCHANGED time
        BY <1>5, <2>1 DEF Timeless, Frame, DeadManInv, StillInv
      <3> QED BY <3>1 DEF DMS!Next, DMS!Control
    <2>2. CASE \/ ResetEncoders \/ RunLoop \/ ClearLow \/ ClearHigh
               \/ ReadLow \/ UpdateRead \/ ResetRead
      BY <1>5, <2>2 DEF Timeless, ResetEncoders, RunLoop, ClearLow, ClearHigh,
                        ReadLow, UpdateRead, ResetRead
    <2> QED BY <1>5, <2>1, <2>2 DEF Timeless
  <1>6. CASE AutoStop
    <2>1. /\ speeds' = IF Expired THEN {} ELSE speeds
          /\ moving' = IF Expired THEN FALSE ELSE moving
          /\ UNCHANGED <<since, stale>>
      BY <1>6 DEF AutoStop, StopSpeeds, Halted
    <2>2. CASE Expired /\ moving
      <3>1. ~stale /\ since > AUTO_STOP_INTERVAL
        BY <2>2 DEF Expired, DeadManInv
      <3> QED BY <2>1, <2>2, <3>1 DEF DMS!Next, DMS!Expire
    <2>3. CASE Expired /\ ~moving
      BY <1>t, <2>1, <2>3 DEF DMS!Next, DMS!Release, MaxAge
    <2>4. CASE ~Expired
      BY <2>1, <2>4
    <2> QED BY <2>2, <2>3, <2>4
  <1> QED BY <1>1, <1>2, <1>3, <1>4, <1>5, <1>6 DEF Next

\* The bridge implements the dead-man switch, for any interval, bound on a pass
\* and clock.
THEOREM BridgeImplementsDeadManSwitch == Spec => ImplementsDeadManSwitch
  <1>1. Init => DMS!Init
    BY DEF Init, DMS!Init
  <1> QED
    BY <1>1, SwitchNext, DeadManInvariant, PTL
    DEF Spec, ImplementsDeadManSwitch, DMS!Spec

-----------------------------------------------------------------------------
(* A frame measures what was counted in it.                                *)

\* Between the counts y and x there were n, if the turns of a long are left out.
Counted(x, y, n) == \E k \in Int : x - y = n + LongMod * k

\* The count of w has been read for the frame that is begun ...
Fresh(w) == pc = "frame" \/ (pc = "read" /\ w < wheel)

\* ... or is the one of the last frame or reset.
Kept(w) ==
    \/ pc \in {"serial", "auto"}
    \/ pc = "read" /\ w >= wheel
    \/ pc = "reset" /\ w < wheel

\* Of a read that is begun, and not disturbed, the bytes are those of the count.
ReadInv ==
    /\ split # 0 => pc \in {"zero", "read", "reset"}
    /\ split = 0 => ~disturbed
    /\ pc # "zero" /\ split # 0 /\ ~disturbed => low = enc[wheel] % split

MeasureInv ==
    /\ ReadInv
    /\ pc \notin {"zero", "read", "reset"} => wheel = 1
    /\ pc = "read" /\ ~moving => \A w \in tracked : w >= wheel
    /\ \A w \in exact : Fresh(w) => Counted(enc[w], encoder[w], frame[w])
    /\ \A w \in tracked \cap exact :
           Fresh(w) => Counted(encoder[w], prevEnc[w], measured[w])
    /\ \A w \in tracked : Kept(w) => Counted(enc[w], prevEnc[w], frame[w])

LEMMA CountedNone == ASSUME NEW x \in Int PROVE Counted(x, x, 0)
  <1>1. x - x = 0 + LongMod * 0
    BY Constants
  <1> QED BY <1>1 DEF Counted

\* One more is counted, wrap or not.
LEMMA CountedOneMore ==
  ASSUME NEW x \in Int, NEW y \in Int, NEW n \in Int, NEW by \in Int,
         Counted(x, y, n)
  PROVE  Counted((x + by) % LongMod, y, n + by)
  <1>1. PICK k \in Int : x - y = n + LongMod * k
    BY DEF Counted
  <1> DEFINE q == (x + by) \div LongMod
             r == (x + by) % LongMod
  <1>2. x + by = r + LongMod * q /\ r \in 0..(LongMod - 1) /\ q \in Int
    BY Constants, DivMod
  <1> HIDE DEF q, r
  <1>3. LongMod * (k - q) = LongMod * k - LongMod * q
    BY <1>2, Constants
  <1>4. r - y = (n + by) + LongMod * (k - q)
    BY <1>1, <1>2, <1>3, Constants
  <1>5. Counted(r, y, n + by)
    BY <1>2, <1>4 DEF Counted
  <1> QED BY <1>5 DEF r

\* The narrower difference of two counts is what was counted between them.
LEMMA CountedInput ==
  ASSUME TypeOK, NEW w \in Wheel, Counted(encoder[w], prevEnc[w], measured[w])
  PROVE  Input(w) = measured[w]
  <1> DEFINE m == measured[w]
             h == IntMod \div 2
             t == LongMod \div IntMod
  <1>1. m \in -MaxTicks..MaxTicks /\ encoder[w] \in Int /\ prevEnc[w] \in Int
    BY Constants DEF TypeOK
  <1>2. LongMod = IntMod * t /\ t \in Int
    BY BridgeAssumption, DivMod
  <1>3. PICK k \in Int : encoder[w] - prevEnc[w] = m + LongMod * k
    BY DEF Counted
  <1>4. IntMod = (IntMod % 2) + 2 * h /\ IntMod % 2 \in 0..1 /\ h \in Int
    BY Constants
  <1>5. Input(w) = ((encoder[w] - prevEnc[w] + h) % IntMod) - h
    BY DEF Input, Trunc
  <1> HIDE DEF m, h, t
  <1>6. m + h \in 0..(IntMod - 1)
    BY <1>1, <1>4, Constants
  <1>7. LongMod * k = IntMod * (t * k) /\ t * k \in Int
    BY <1>2, Constants
  <1>8. encoder[w] - prevEnc[w] + h = (m + h) + IntMod * (t * k)
    BY <1>1, <1>3, <1>4, <1>7, Constants
  <1>9. ((m + h) + IntMod * (t * k)) % IntMod = m + h
    BY <1>6, <1>7, Constants, ModTurns
  <1>10. Input(w) = (m + h) - h
    BY <1>5, <1>8, <1>9
  <1> QED BY <1>1, <1>4, <1>10, Constants DEF m

LEMMA MeasureInit == Init => MeasureInv
  <1> SUFFICES ASSUME Init PROVE MeasureInv
    OBVIOUS
  <1>1. \A w \in Wheel : ~Fresh(w)
    BY DEF Init, Fresh
  <1> QED BY <1>1 DEF Init, MeasureInv, ReadInv

\* Not disturbed, the count is the one the wheel has.
LEMMA ReadUndisturbed ==
  ASSUME TypeInv, ReadInv, pc # "zero", ~disturbed
  PROVE  Read = enc[wheel]
  <1>1. enc[wheel] \in Int /\ (split # 0 => split \in Nat \ {0})
    BY Constants DEF TypeInv, TypeOK
  <1>2. CASE split = 0
    BY <1>2 DEF Read
  <1>3. CASE split # 0
    <2>1. low = enc[wheel] % split
      BY <1>3 DEF ReadInv
    <2> QED BY <1>1, <1>3, <2>1 DEF Read
  <1> QED BY <1>2, <1>3

LEMMA ReadNext == TypeInv /\ ReadInv /\ [Next]_vars => ReadInv'
  <1> SUFFICES ASSUME TypeInv, ReadInv, [Next]_vars PROVE ReadInv'
    OBVIOUS
  <1> USE DEF ReadInv, drive, time, frameVars
  <1>1. ASSUME NEW w \in Wheel, NEW by \in {-1, 1}, Count(w, by) PROVE ReadInv'
    <2>1. w # wheel => enc'[wheel] = enc[wheel]
      BY <1>1 DEF Count, TypeInv, TypeOK
    <2> QED BY <1>1, <2>1 DEF Count
  <1>2. CASE Move \/ Stop \/ ResetEncoders \/ RunLoop \/ Tick \/ HostDies
    BY <1>2 DEF Move, Stop, ResetEncoders, RunLoop, Tick, HostDies, readVars
  <1>3. CASE ClearLow
    BY <1>3 DEF ClearLow
  <1>4. CASE ReadLow
    BY <1>4 DEF ReadLow
  <1>5. CASE ClearHigh \/ UpdateRead \/ ResetRead
    BY <1>5 DEF ClearHigh, UpdateRead, ResetRead, ReadEncoder, NextWheel
  <1>6. CASE Frame \/ AutoStop
    BY <1>6 DEF Frame, AutoStop, readVars
  <1>7. CASE UNCHANGED vars
    BY <1>7 DEF vars, readVars
  <1> QED BY <1>1, <1>2, <1>3, <1>4, <1>5, <1>6, <1>7 DEF Next, Timeless

\* The clauses of the invariant, as a step leaves them.
LEMMA MeasureNext ==
  TypeInv /\ MeasureInv /\ [Next]_vars => MeasureInv'
  <1> SUFFICES ASSUME TypeInv, MeasureInv, [Next]_vars PROVE MeasureInv'
    OBVIOUS
  <1>r. ReadInv'
    BY ReadNext DEF MeasureInv
  <1>t. /\ \A w \in Wheel : /\ enc[w] \in Int /\ encoder[w] \in Int
                            /\ prevEnc[w] \in Int /\ frame[w] \in Int
        /\ wheel \in Wheel /\ 1 \in Wheel /\ Wheel \subseteq Int
        /\ tracked \subseteq Wheel /\ exact \subseteq Wheel
        /\ \A w \in Wheel : w >= 1 /\ w <= NW
        /\ NW \in Int
    <2>1. /\ wheel \in Wheel /\ tracked \subseteq Wheel /\ exact \subseteq Wheel
          /\ \A w \in Wheel : /\ enc[w] \in 0..(LongMod - 1)
                              /\ encoder[w] \in 0..(LongMod - 1)
                              /\ prevEnc[w] \in 0..(LongMod - 1)
                              /\ frame[w] \in -MaxTicks..MaxTicks
      BY DEF TypeInv, TypeOK
    <2>2. /\ \A w \in Wheel : w >= 1 /\ w <= NW
          /\ 1 \in Wheel /\ Wheel \subseteq Int /\ NW \in Int
      BY Constants DEF Wheel
    <2> QED BY <2>1, <2>2, Constants
  <1>1. ASSUME NEW w \in Wheel, NEW by \in {-1, 1}, Count(w, by) PROVE MeasureInv'
    <2>1. /\ enc' = [enc EXCEPT ![w] = (@ + by) % LongMod]
          /\ frame' = [frame EXCEPT ![w] = @ + by]
          /\ UNCHANGED <<moving, encoder, prevEnc, pc, wheel, measured, tracked, exact>>
      BY <1>1 DEF Count, pidVars, drive
    <2>2. ASSUME NEW v \in Wheel, NEW y \in Int, Counted(enc[v], y, frame[v])
          PROVE  Counted(enc'[v], y, frame'[v])
      <3>1. CASE v = w
        <4>1. enc'[v] = (enc[v] + by) % LongMod /\ frame'[v] = frame[v] + by
          BY <2>1, <3>1 DEF TypeInv, TypeOK
        <4>2. Counted((enc[v] + by) % LongMod, y, frame[v] + by)
          BY <1>t, <2>2, CountedOneMore
        <4> QED BY <4>1, <4>2
      <3>2. CASE v # w
        <4>1. enc'[v] = enc[v] /\ frame'[v] = frame[v]
          BY <2>1, <3>2 DEF TypeInv, TypeOK
        <4> QED BY <2>2, <4>1
      <3> QED BY <3>1, <3>2
    <2>3. \A v \in Wheel : Fresh(v)' = Fresh(v) /\ Kept(v)' = Kept(v)
      BY <2>1 DEF Fresh, Kept
    <2>4. \A v \in exact : Fresh(v) => Counted(enc'[v], encoder[v], frame'[v])
      BY <1>t, <2>2 DEF MeasureInv
    <2>5. \A v \in tracked : Kept(v) => Counted(enc'[v], prevEnc[v], frame'[v])
      BY <1>t, <2>2 DEF MeasureInv
    <2> QED BY <1>r, <1>t, <2>1, <2>3, <2>4, <2>5 DEF MeasureInv
  <1>2. CASE Move \/ Stop \/ ResetEncoders
    <2>1. /\ UNCHANGED <<encoder, prevEnc, enc, wheel, frame, measured, tracked, exact>>
          /\ pc = "serial" /\ pc' \in {"serial", "reset", "zero"}
      BY <1>2 DEF Move, Stop, ResetEncoders, pidVars, readVars, frameVars, drive
    <2>2. wheel = 1
      BY <2>1 DEF MeasureInv
    <2>3. \A w \in Wheel : ~Fresh(w)' /\ (Kept(w)' => Kept(w))
      BY <1>t, <2>1, <2>2 DEF Fresh, Kept
    <2> QED BY <1>r, <1>t, <2>1, <2>2, <2>3 DEF MeasureInv
  <1>3. CASE RunLoop
    <2>1. /\ UNCHANGED <<moving, encoder, prevEnc, enc, wheel, frame, measured, tracked, exact>>
          /\ pc = "serial" /\ pc' \in {"read", "auto"}
      BY <1>3 DEF RunLoop, pidVars, readVars, frameVars, drive
    <2>2. wheel = 1
      BY <2>1 DEF MeasureInv
    <2>3. \A w \in Wheel : ~Fresh(w)' /\ Kept(w) /\ w >= wheel
      BY <1>t, <2>1, <2>2 DEF Fresh, Kept
    <2> QED BY <1>r, <1>t, <2>1, <2>2, <2>3 DEF MeasureInv
  <1>4. CASE ClearLow
    <2>1. /\ UNCHANGED <<encoder, prevEnc, wheel, frame, measured, tracked, exact>>
          /\ pc = "zero" /\ pc' = "zero"
      BY <1>4 DEF ClearLow, pidVars, frameVars, drive
    <2>2. \A w \in Wheel : ~Fresh(w)' /\ ~Kept(w)'
      BY <2>1 DEF Fresh, Kept
    <2> QED BY <1>r, <1>t, <2>1, <2>2 DEF MeasureInv
  <1>11. CASE ReadLow
    <2>1. UNCHANGED <<moving, encoder, prevEnc, enc, pc, wheel, frame, measured, tracked, exact>>
      BY <1>11 DEF ReadLow, pidVars, frameVars, drive
    <2>2. \A w \in Wheel : Fresh(w)' = Fresh(w) /\ Kept(w)' = Kept(w)
      BY <2>1 DEF Fresh, Kept
    <2> QED BY <1>r, <1>t, <2>1, <2>2 DEF MeasureInv
  <1>5. CASE ClearHigh
    <2>1. /\ UNCHANGED <<encoder, prevEnc, frame, measured, tracked, exact>>
          /\ pc = "zero"
          /\ pc' \in {"zero", "reset"} /\ (pc' = "reset" => wheel' = 1)
      BY <1>5 DEF ClearHigh, NextWheel, pidVars, frameVars, drive
    <2>2. \A w \in Wheel : ~Fresh(w)' /\ ~Kept(w)'
      BY <1>t, <2>1 DEF Fresh, Kept
    <2> QED BY <1>r, <1>t, <2>1, <2>2 DEF MeasureInv
  <1>6. CASE UpdateRead
    <2>1. /\ pc = "read"
          /\ UNCHANGED <<moving, prevEnc, enc>>
          /\ encoder' = [encoder EXCEPT ![wheel] = Read]
          /\ measured' = [measured EXCEPT ![wheel] = frame[wheel]]
          /\ frame' = [frame EXCEPT ![wheel] = 0]
          /\ tracked' = IF moving THEN tracked ELSE tracked \ {wheel}
          /\ exact' = IF disturbed THEN exact \ {wheel} ELSE exact \cup {wheel}
      BY <1>6 DEF UpdateRead, ReadEncoder, drive
    <2>2. /\ wheel < NW => wheel' = wheel + 1 /\ pc' = "read"
          /\ wheel = NW => /\ wheel' = 1
                           /\ pc' \in {"frame", "reset", "auto"}
                           /\ pc' = "frame" <=> moving
      BY <1>6, <1>t DEF UpdateRead, NextWheel
    <2>3. ASSUME NEW w \in exact', Fresh(w)'
          PROVE  /\ Counted(enc[w], encoder'[w], frame'[w])
                 /\ w \in tracked => Counted(encoder'[w], prevEnc[w], measured'[w])
      <3>1. CASE w = wheel
        <4>0. Read = enc[wheel]
          BY <2>1, <2>3, <3>1, ReadUndisturbed DEF MeasureInv
        <4>1. encoder'[w] = enc[w] /\ frame'[w] = 0 /\ measured'[w] = frame[w]
          BY <2>1, <3>1, <4>0 DEF TypeInv, TypeOK
        <4>2. Kept(w)
          BY <1>t, <2>1, <3>1 DEF Kept
        <4> QED BY <1>t, <3>1, <4>1, <4>2, CountedNone DEF MeasureInv
      <3>2. CASE w # wheel
        <4>0. w \in exact /\ w \in Wheel
          BY <1>t, <2>1, <2>3, <3>2
        <4>1. encoder'[w] = encoder[w] /\ frame'[w] = frame[w] /\ measured'[w] = measured[w]
          BY <2>1, <3>2, <4>0 DEF TypeInv, TypeOK
        <4>2. Fresh(w)
          BY <1>t, <2>1, <2>2, <2>3, <3>2, <4>0 DEF Fresh
        <4> QED BY <4>0, <4>1, <4>2 DEF MeasureInv
      <3> QED BY <3>1, <3>2
    <2>4. ASSUME NEW w \in tracked', Kept(w)'
          PROVE  Counted(enc[w], prevEnc[w], frame'[w])
      <3>1. w \in tracked /\ w \in Wheel
        BY <1>t, <2>1
      <3>2. Kept(w) /\ w # wheel
        <4>1. CASE wheel < NW
          BY <1>t, <2>1, <2>2, <2>4, <3>1, <4>1 DEF Kept
        <4>2. CASE wheel = NW
          <5>1. pc' \in {"frame", "reset", "auto"} /\ wheel' = 1
            BY <2>2, <4>2
          <5>2. pc' = "auto"
            BY <1>t, <2>4, <3>1, <5>1 DEF Kept
          <5>3. ~moving /\ w # wheel
            BY <2>1, <2>2, <4>2, <5>2
          <5>4. w >= wheel
            BY <2>1, <3>1, <5>3 DEF MeasureInv
          <5> QED BY <1>t, <3>1, <4>2, <5>3, <5>4
        <4> QED BY <1>t, <4>1, <4>2
      <3>3. frame'[w] = frame[w]
        BY <2>1, <3>1, <3>2 DEF TypeInv, TypeOK
      <3> QED BY <3>1, <3>2, <3>3 DEF MeasureInv
    <2>5. pc' \notin {"zero", "read", "reset"} => wheel' = 1
      BY <1>t, <2>2
    <2>6. ASSUME pc' = "read", ~moving', NEW w \in tracked' PROVE w >= wheel'
      <3>1. wheel < NW /\ wheel' = wheel + 1
        BY <1>t, <2>2, <2>6
      <3>2. w \in tracked /\ w # wheel /\ w >= wheel
        BY <2>1, <2>6 DEF MeasureInv
      <3> QED BY <1>t, <3>1, <3>2
    <2> QED BY <1>r, <1>t, <2>1, <2>3, <2>4, <2>5, <2>6 DEF MeasureInv
  <1>7. CASE ResetRead
    <2>1. /\ pc = "reset"
          /\ UNCHANGED <<moving, enc, exact>>
          /\ prevEnc' = [prevEnc EXCEPT ![wheel] = Read]
          /\ frame' = [frame EXCEPT ![wheel] = 0]
          /\ tracked' = IF disturbed THEN tracked \ {wheel} ELSE tracked \cup {wheel}
      BY <1>7 DEF ResetRead, ResetPrev, ReadEncoder, drive
    <2>2. /\ wheel < NW => wheel' = wheel + 1 /\ pc' = "reset"
          /\ wheel = NW => wheel' = 1 /\ pc' \in {"serial", "auto"}
      BY <1>7, <1>t DEF ResetRead, NextWheel, TypeInv, TypeOK
    <2>3. \A w \in Wheel : ~Fresh(w)'
      BY <1>t, <2>2 DEF Fresh
    <2>4. ASSUME NEW w \in tracked', Kept(w)'
          PROVE  Counted(enc[w], prevEnc'[w], frame'[w])
      <3>1. CASE w = wheel
        <4>0. Read = enc[wheel]
          BY <2>1, <2>4, <3>1, ReadUndisturbed DEF MeasureInv
        <4>1. prevEnc'[w] = enc[w] /\ frame'[w] = 0
          BY <1>t, <2>1, <3>1, <4>0 DEF TypeInv, TypeOK
        <4> QED BY <1>t, <3>1, <4>1, CountedNone
      <3>2. CASE w # wheel
        <4>1. w \in tracked /\ w \in Wheel
          BY <1>t, <2>1, <3>2
        <4>2. prevEnc'[w] = prevEnc[w] /\ frame'[w] = frame[w]
          BY <2>1, <3>2, <4>1 DEF TypeInv, TypeOK
        <4>3. Kept(w)
          BY <1>t, <2>1, <2>2, <2>4, <3>2, <4>1 DEF Kept
        <4> QED BY <4>1, <4>2, <4>3 DEF MeasureInv
      <3> QED BY <3>1, <3>2
    <2>5. pc' # "read" /\ (pc' \notin {"zero", "read", "reset"} => wheel' = 1)
      BY <1>t, <2>2
    <2> QED BY <1>r, <1>t, <2>1, <2>3, <2>4, <2>5 DEF MeasureInv
  <1>8. CASE Frame
    <2>1. /\ pc = "frame" /\ pc' = "auto" /\ prevEnc' = encoder
          /\ tracked' = exact
          /\ UNCHANGED <<enc, encoder, wheel, frame, measured, exact>>
      BY <1>8 DEF Frame, readVars
    <2>2. \A w \in Wheel : Fresh(w) /\ ~Fresh(w)'
      BY <2>1 DEF Fresh
    <2> QED BY <1>r, <1>t, <2>1, <2>2 DEF MeasureInv
  <1>9. CASE AutoStop
    <2>1. /\ pc = "auto" /\ pc' = "serial"
          /\ UNCHANGED <<encoder, prevEnc, enc, wheel, frame, tracked>> /\ exact' = {}
      BY <1>9 DEF AutoStop, pidVars, readVars, frameVars, drive
    <2>2. \A w \in Wheel : Kept(w) /\ ~Fresh(w)'
      BY <2>1 DEF Kept, Fresh
    <2> QED BY <1>r, <1>t, <2>1, <2>2 DEF MeasureInv
  <1>10. CASE Tick \/ HostDies \/ UNCHANGED vars
    <2>1. UNCHANGED <<moving, encoder, prevEnc, enc, pc, wheel, frame, measured, tracked, exact>>
      BY <1>10 DEF Tick, HostDies, vars, pidVars, readVars, frameVars, drive
    <2>2. \A w \in Wheel : Fresh(w)' = Fresh(w) /\ Kept(w)' = Kept(w)
      BY <2>1 DEF Fresh, Kept
    <2> QED BY <1>r, <1>t, <2>1, <2>2 DEF MeasureInv
  <1> QED BY <1>1, <1>2, <1>3, <1>4, <1>5, <1>6, <1>7, <1>8, <1>9, <1>10, <1>11 DEF Next, Timeless

\* A frame of a base that was reset or ran the frame before measures what was
\* counted in it, whoever counts, for any widths of int and long, any number of
\* wheels and commands at any time, if no count came between the bytes of its
\* reads.
THEOREM BridgeMeasuresFrame == Spec => []MeasuresFrame
  <1>1. TypeInv /\ MeasureInv => MeasuresFrame
    <2> SUFFICES ASSUME TypeInv, MeasureInv, pc = "frame", NEW w \in tracked \cap exact
                 PROVE  Input(w) = measured[w]
      BY DEF MeasuresFrame
    <2>1. w \in Wheel
      BY DEF TypeInv, TypeOK
    <2>2. Counted(encoder[w], prevEnc[w], measured[w])
      BY DEF MeasureInv, Fresh
    <2> QED BY <2>1, <2>2, CountedInput DEF TypeInv
  <1> QED BY <1>1, TypeInit, TypeNext, MeasureInit, MeasureNext, PTL DEF Spec
=============================================================================
