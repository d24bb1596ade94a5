------------------------- MODULE CommandLinkProofs -------------------------
(***************************************************************************)
(* Proofs about CommandLink, for every size of the buffers and of the ring *)
(* buffer, any number of commands, and every set of commands that fit.     *)
(*                                                                         *)
(* Parsed says what stands in the object behind the n-th character of a    *)
(* command; ParsedStep is procRecChar, NumbersOf is atoi and GainsOf       *)
(* strtok_r.  ParseInv ties it to what the main program has heard, BusInv to the messages, and      *)
(* OrderInv to the whole stream of the serial line.  From these the link   *)
(* is shown to implement CommandDelivery.                                  *)
(***************************************************************************)
EXTENDS CommandLink, TLAPS, WellFoundedInduction

-----------------------------------------------------------------------------
(* Numbers.                                                                *)

\* Induction, with a set in place of a predicate.
LEMMA SetInduction ==
    ASSUME NEW S, 0 \in S, \A n \in Nat : n \in S => n + 1 \in S
    PROVE  Nat \subseteq S
<1> SUFFICES ASSUME Nat \ S # {} PROVE FALSE
  OBVIOUS
<1> DEFINE R == {ss \in Nat \X Nat : ss[1] < ss[2]}
           T == Nat \ S
<1>1. IsWellFoundedOn(R, Nat)
  BY NatLessThanWellFounded DEF OpToRel
<1> HIDE DEF R
<1>2. PICK x \in T : \A y \in T : <<y, x>> \notin R
  BY <1>1, WFMin
<1>3. x # 0 /\ x - 1 \in Nat
  OBVIOUS
<1>4. x - 1 \in T
  BY <1>3
<1>5. <<x - 1, x>> \in R
  BY <1>3 DEF R
<1> QED
  BY <1>2, <1>4, <1>5

\* A set of numbers that is not empty has a least one.
LEMMA LeastNat ==
    ASSUME NEW T \in SUBSET Nat, T # {}
    PROVE  \E x \in T : \A y \in T : x <= y
<1> DEFINE R == {ss \in Nat \X Nat : ss[1] < ss[2]}
<1>1. IsWellFoundedOn(R, Nat)
  BY NatLessThanWellFounded DEF OpToRel
<1> HIDE DEF R
<1>2. PICK x \in T : \A y \in T : <<y, x>> \notin R
  BY <1>1, WFMin
<1>3. \A y \in T : ~(y < x)
  BY <1>2 DEF R
<1> QED
  BY <1>2, <1>3

\* Small numbers: a command has up to three arguments.
LEMMA BelowThree ==
    ASSUME NEW m \in 0..3, NEW k \in 0..(m - 1)
    PROVE  k \in 0..2 /\ k \in 0..m /\ k + 1 \in 1..m
  OBVIOUS

\* The same, counted from one.
LEMMA WithinThree ==
    ASSUME NEW m \in 0..3, NEW k \in 1..m
    PROVE  k \in 1..3
  OBVIOUS

-----------------------------------------------------------------------------
(* The characters taken in, one after the other.                           *)

\* Taken takes the characters in one after the other.
LEMMA TakenSteps ==
    ASSUME NEW o, NEW s, Len(s) \in Nat
    PROVE  \E t : /\ t[0] = o
                  /\ \A n \in 1..Len(s) : t[n] = Put(t[n - 1], s[n])
                  /\ Taken(o, s) = t[Len(s)]
<1> DEFINE From(t, m) == [n \in 0..m |-> IF n = 0 THEN o ELSE Put(t[n - 1], s[n])]
           S == {m \in Nat : \E t : t = From(t, m)}
<1>1. 0 \in S
  <2> DEFINE t == [n \in 0..0 |-> o]
  <2>1. t = From(t, 0)
    OBVIOUS
  <2> QED
    BY <2>1
<1>2. ASSUME NEW m \in Nat, m \in S
      PROVE  m + 1 \in S
  <2>1. PICK t : t = From(t, m)
    BY <1>2
  <2>2. \A n \in 0..m : t[n] = IF n = 0 THEN o ELSE Put(t[n - 1], s[n])
    BY <2>1
  <2> DEFINE u == From(t, m + 1)
  <2>3. /\ u = [n \in 0..(m + 1) |-> u[n]]
        /\ \A n \in 0..(m + 1) : u[n] = IF n = 0 THEN o ELSE Put(t[n - 1], s[n])
    OBVIOUS
  <2> HIDE DEF u
  <2>4. \A n \in 0..m : u[n] = t[n]
    BY <2>2, <2>3
  <2>5. \A n \in 0..(m + 1) : n # 0 => u[n - 1] = t[n - 1]
    BY <2>4
  <2>6. \A n \in 0..(m + 1) : u[n] = IF n = 0 THEN o ELSE Put(u[n - 1], s[n])
    BY <2>3, <2>5
  <2>7. u = From(u, m + 1)
    BY <2>3, <2>6
  <2> QED
    BY <2>7
<1>3. Len(s) \in S
  <2> HIDE DEF S
  <2> QED
    BY <1>1, <1>2, SetInduction
<1>4. PICK u : u = From(u, Len(s))
  BY <1>3
<1> DEFINE t == CHOOSE v : v = From(v, Len(s))
<1>5. t = From(t, Len(s))
  BY <1>4
<1>6. Taken(o, s) = t[Len(s)]
  BY DEF Taken
<1> HIDE DEF t
<1>7. t[0] = o /\ \A n \in 1..Len(s) : t[n] = Put(t[n - 1], s[n])
  BY <1>5
<1> QED
  BY <1>6, <1>7

-----------------------------------------------------------------------------
(* Types.                                                                  *)

\* The buffers lie one behind the other, in the memory.
LEMMA Buffers ==
    ASSUME fw \in DOMAIN Commands
    PROVE  \A b \in DOMAIN Buffer :
             /\ Buffer[b] \in Nat /\ Room(fw)[b] \in Nat \ {0}
             /\ Buffer[b] + Room(fw)[b] \in 1..Top
             /\ Base => Room(fw)[b] <= 256
             /\ \A a \in DOMAIN Buffer : a < b => Buffer[a] + Room(fw)[a] <= Buffer[b]
<1>1. CASE Base
  <2>1. Top = Len1 + 2 * Len2 /\ Buffer = <<0, Len1, Len1 + Len2>>
        /\ Room(fw) = <<Len1, Len2, Len2>>
    BY <1>1 DEF Top, Buffer, Room, Base
  <2> QED
    BY <1>1, <2>1, LinkAssumption
<1>2. CASE ~Base
  <2>1. Top = 2 * BridgeLen /\ Buffer = <<0, BridgeLen>>
        /\ Room(fw) = <<BridgeLen, BridgeLen>> /\ fw = "bridge"
    BY <1>2, LinkAssumption DEF Top, Buffer, Room, Base
  <2> QED
    BY <1>2, <2>1, LinkAssumption
<1> QED
  BY <1>1, <1>2

\* What either firmware fills its buffers with, and how many it has.
LEMMA Layout ==
    ASSUME fw \in DOMAIN Commands
    PROVE  /\ fw \in {"base", "bridge"} /\ Top \in Nat \ {0} /\ Fill \in Byte
           /\ DOMAIN Buffer = IF Base THEN 1..3 ELSE 1..2
           /\ DOMAIN Room(fw) = DOMAIN Buffer
<1>1. CASE Base
  <2>1. Top = Len1 + 2 * Len2 /\ Fill = CR /\ Buffer = <<0, Len1, Len1 + Len2>>
        /\ Room(fw) = <<Len1, Len2, Len2>>
    BY <1>1 DEF Top, Fill, Buffer, Room, Base
  <2> QED
    BY <1>1, <2>1, LinkAssumption DEF Base, Byte
<1>2. CASE ~Base
  <2>1. Top = 2 * BridgeLen /\ Fill = NUL /\ Buffer = <<0, BridgeLen>>
        /\ Room(fw) = <<BridgeLen, BridgeLen>> /\ fw = "bridge"
    BY <1>2, LinkAssumption DEF Top, Fill, Buffer, Room, Base
  <2> QED
    BY <1>2, <2>1, LinkAssumption DEF Byte
<1> QED
  BY <1>1, <1>2

\* Storing a character keeps the object's type, and what was run over.
LEMMA WriteType ==
    ASSUME fw \in DOMAIN Commands, NEW o \in Object, NEW ch \in Byte
    PROVE  /\ Write(o, ch) \in Object
           /\ Write(o, ch).argCnt = o.argCnt /\ Write(o, ch).argIndex = o.argIndex
           /\ Write(o, ch).cmd_chr = o.cmd_chr
           /\ ch # NUL /\ o.mem[Top] # NUL => Write(o, ch).mem[Top] # NUL
<1>1. CASE InArg(o) /\ At(o) \in Memory
  <2> DEFINE m == [o.mem EXCEPT ![At(o)] = ch]
  <2>1. m \in [Memory -> Byte] /\ (ch # NUL /\ o.mem[Top] # NUL => m[Top] # NUL)
    BY <1>1, Layout DEF Object, Memory
  <2>2. Write(o, ch) = [o EXCEPT !.mem = m]
    BY <1>1 DEF Write, Object
  <2> HIDE DEF m
  <2> QED
    BY <2>1, <2>2, ZenonT(60) DEF Object
<1>2. CASE ~(InArg(o) /\ At(o) \in Memory)
  BY <1>2 DEF Write
<1> QED
  BY <1>1, <1>2

\* The end of an argument keeps the object's type.
LEMMA TerminateType ==
    ASSUME fw \in DOMAIN Commands, NEW o \in Object
    PROVE  /\ Terminate(o) \in Object
           /\ Terminate(o).argCnt = o.argCnt
           /\ Base => Terminate(o) = o
  BY WriteType DEF Terminate, Byte

\* So does a new index, of which the base has a byte.
LEMMA IndexType ==
    ASSUME NEW o \in Object, NEW i \in Nat, Base => i \in 0..255
    PROVE  [o EXCEPT !.argIndex = i] \in Object
  BY DEF Object

\* A new argument keeps the object's type, and the rest of it.
LEMMA CountersType ==
    ASSUME NEW o \in Object, NEW n \in 0..255, Base \/ n \in 0..2,
           NEW p, p = [o EXCEPT !.argCnt = n, !.argIndex = 0]
    PROVE  /\ p \in Object /\ p.argCnt = n /\ p.argIndex = 0
           /\ p.cmd_chr = o.cmd_chr /\ p.mem = o.mem
<1> DEFINE q == [o EXCEPT !.argCnt = n]
<1>1. q \in Object
  BY DEF Object
<1>2. p = [q EXCEPT !.argIndex = 0]
  BY DEF Object
<1>3. p.argCnt = n /\ p.argIndex = 0 /\ p.cmd_chr = o.cmd_chr /\ p.mem = o.mem
  BY DEF Object
<1> HIDE DEF q
<1>4. 0 \in 0..255 /\ 0 \in Nat
  OBVIOUS
<1>5. [q EXCEPT !.argIndex = 0] \in Object
  BY <1>1, <1>4, IndexType, Zenon
<1> QED
  BY <1>2, <1>3, <1>5

\* A character keeps the object's type, and what was run over.
LEMMA PutType ==
    ASSUME fw \in DOMAIN Commands, NEW o \in Object, NEW ch \in Char
    PROVE  /\ Put(o, ch) \in Object
           /\ Base /\ o.mem[Top] # NUL => Put(o, ch).mem[Top] # NUL
<1>1. CASE ch = SP
  <2>1. Put(o, ch) = NextArg(o)
    BY <1>1 DEF Put
  <2>2. CASE Base
    <3>1. o.argCnt \in 0..255
      BY DEF Object
    <3> DEFINE n == (o.argCnt + 1) % 256
    <3>2. n \in 0..255
      BY <3>1
    <3>3. NextArg(o) = [o EXCEPT !.argCnt = n, !.argIndex = 0]
      BY <2>2 DEF NextArg
    <3> HIDE DEF n
    <3>4. Put(o, ch) = [o EXCEPT !.argCnt = n, !.argIndex = 0]
      BY <2>1, <3>3
    <3>5. Put(o, ch) \in Object /\ Put(o, ch).mem = o.mem
      <4>1. Base \/ n \in 0..2
        BY <2>2
      <4>2. Put(o, ch) \in Object
        BY <4>1, <3>2, <3>4, CountersType, Zenon
      <4>3. Put(o, ch).mem = o.mem
        BY <3>4 DEF Object
      <4> QED
        BY <4>2, <4>3
    <3> QED
      BY <3>5
  <2>3. CASE ~Base /\ o.argCnt = 2
    BY <2>1, <2>3 DEF NextArg
  <2>4. CASE ~Base /\ o.argCnt # 2
    <3> DEFINE t == Terminate(o)
    <3>1. t \in Object /\ t.argCnt = o.argCnt
      BY TerminateType
    <3> DEFINE n == t.argCnt + 1
    <3>2. n \in 0..2 /\ n \in 0..255
      BY <2>4, <3>1 DEF Object
    <3>3. Put(o, ch) = [t EXCEPT !.argCnt = n, !.argIndex = 0]
      BY <2>1, <2>4 DEF NextArg
    <3> HIDE DEF t, n
    <3>4. Put(o, ch) \in Object
      BY <3>1, <3>2, <3>3, CountersType, Zenon
    <3> QED
      BY <2>4, <3>4
  <2> QED
    BY <2>2, <2>3, <2>4
<1>2. CASE ch # SP /\ o.argCnt = 0
  <2>1. Put(o, ch) = [o EXCEPT !.cmd_chr = ch]
    BY <1>2 DEF Put
  <2> QED
    BY <2>1, ZenonT(60) DEF Object, Byte
<1>3. CASE ch # SP /\ o.argCnt # 0 /\ InArg(o)
  <2> DEFINE w == Write(o, ch)
  <2>1. w \in Object /\ (o.mem[Top] # NUL => w.mem[Top] # NUL)
    BY WriteType, LinkAssumption DEF Byte
  <2>2. Put(o, ch) = [w EXCEPT !.argIndex = NextIndex(@)]
    BY <1>3 DEF Put
  <2> HIDE DEF w
  <2>3. w.argIndex \in Nat
    BY <2>1 DEF Object
  <2> DEFINE n == NextIndex(w.argIndex)
  <2>4. n \in Nat /\ (Base => n \in 0..255)
    BY <2>3 DEF NextIndex
  <2>5. Put(o, ch) = [w EXCEPT !.argIndex = n]
    BY <2>2
  <2> HIDE DEF n
  <2>6. [w EXCEPT !.argIndex = n].mem = w.mem
    BY <2>1 DEF Object
  <2> QED
    BY <2>1, <2>4, <2>5, <2>6, IndexType
<1>4. CASE ch # SP /\ o.argCnt # 0 /\ ~InArg(o)
  BY <1>4 DEF Put
<1> QED
  BY <1>1, <1>2, <1>3, <1>4

\* The reset clears all but the byte behind the buffers.
LEMMA ResetType ==
    ASSUME fw \in DOMAIN Commands, NEW o \in Object
    PROVE  /\ Reset(o) \in Object
           /\ Reset(o).argCnt = 0 /\ Reset(o).argIndex = 0 /\ Reset(o).cmd_chr = Fill
           /\ \A a \in Memory \ {Top} : Reset(o).mem[a] = Fill
           /\ Reset(o).mem[Top] = o.mem[Top]
<1>1. o.arg \in [1..3 -> Seq(Byte)] /\ o.mem \in [Memory -> Byte]
  BY DEF Object
<1>2. NoArgs \in [1..3 -> Seq(Byte)]
  <2>1. <<>> \in Seq(Byte)
    OBVIOUS
  <2> QED
    BY <2>1 DEF NoArgs
<1> DEFINE m == [a \in Memory |-> IF a = Top THEN o.mem[a] ELSE Fill]
           g == IF Base THEN o.arg ELSE NoArgs
<1>3. /\ m \in [Memory -> Byte] /\ m[Top] = o.mem[Top]
      /\ \A a \in Memory \ {Top} : m[a] = Fill
  BY <1>1, Layout DEF Memory
<1>4. g \in [1..3 -> Seq(Byte)]
  BY <1>1, <1>2
<1>5. Reset(o) = [argCnt |-> 0, argIndex |-> 0, cmd_chr |-> Fill, arg |-> g, mem |-> m]
  BY DEF Reset
<1> HIDE DEF m, g
<1>6. Reset(o) \in Object
  BY <1>3, <1>4, <1>5, Layout DEF Object
<1> QED
  BY <1>3, <1>5, <1>6

\* A message keeps the object's type, and what was run over.
LEMMA TakenType ==
    ASSUME fw \in DOMAIN Commands, NEW o \in Object, NEW s \in Seq(Char)
    PROVE  /\ Taken(o, s) \in Object
           /\ Base /\ o.mem[Top] # NUL => Taken(o, s).mem[Top] # NUL
<1>1. PICK t : /\ t[0] = o
               /\ \A n \in 1..Len(s) : t[n] = Put(t[n - 1], s[n])
               /\ Taken(o, s) = t[Len(s)]
  BY TakenSteps
<1> DEFINE Good(p) == p \in Object /\ (Base /\ o.mem[Top] # NUL => p.mem[Top] # NUL)
           S == {n \in Nat : n <= Len(s) => Good(t[n])}
<1>2. 0 \in S
  BY <1>1
<1>3. ASSUME NEW n \in Nat, n \in S
      PROVE  n + 1 \in S
  <2> SUFFICES ASSUME n + 1 <= Len(s) PROVE Good(t[n + 1])
    OBVIOUS
  <2>1. Good(t[n])
    BY <1>3
  <2>2. t[n + 1] = Put(t[n], s[n + 1]) /\ s[n + 1] \in Char
    BY <1>1
  <2> QED
    BY <2>1, <2>2, PutType
<1>4. Len(s) \in S
  <2> HIDE DEF S
  <2> QED
    BY <1>2, <1>3, SetInduction
<1> QED
  BY <1>1, <1>4

-----------------------------------------------------------------------------
(* atoi.                                                                   *)

\* A run of characters ends somewhere.
LEMMA EndsExists ==
    ASSUME fw \in DOMAIN Commands, NEW mem, NEW a \in 0..(Top + 1), NEW C
    PROVE  /\ Ends(mem, a, C) \in a..(Top + 1)
           /\ Ends(mem, a, C) = Top + 1 \/ mem[Ends(mem, a, C)] \notin C
           /\ \A j \in a..(Ends(mem, a, C) - 1) : mem[j] \in C
<1> DEFINE T == {b \in a..(Top + 1) : b = Top + 1 \/ mem[b] \notin C}
<1>1. Top + 1 \in T /\ T \in SUBSET Nat
  BY Layout
<1>2. PICK b \in T : \A c \in T : b <= c
  BY <1>1, LeastNat
<1>3. ASSUME NEW j \in a..(b - 1)
      PROVE  mem[j] \in C
  BY <1>1, <1>2, <1>3, Layout
<1>4. \E e \in a..(Top + 1) : /\ e = Top + 1 \/ mem[e] \notin C
                             /\ \A j \in a..(e - 1) : mem[j] \in C
  BY <1>2, <1>3
<1> QED
  BY <1>4 DEF Ends

\* A run that ends at b ends nowhere else.
LEMMA EndsAt ==
    ASSUME fw \in DOMAIN Commands, NEW mem, NEW a \in 0..(Top + 1), NEW C,
           NEW b \in a..(Top + 1), b = Top + 1 \/ mem[b] \notin C,
           \A j \in a..(b - 1) : mem[j] \in C
    PROVE  Ends(mem, a, C) = b
<1> DEFINE e == Ends(mem, a, C)
<1>1. /\ e \in a..(Top + 1)
      /\ e = Top + 1 \/ mem[e] \notin C
      /\ \A j \in a..(e - 1) : mem[j] \in C
  BY EndsExists
<1> HIDE DEF e
<1>2. Top \in Nat
  BY Layout
<1>3. ~(e < b) /\ ~(b < e)
  BY <1>1, <1>2
<1> QED
  BY <1>1, <1>2, <1>3 DEF e

\* atoi reads bytes, and no further than the memory.
LEMMA NumbersType ==
    ASSUME fw \in DOMAIN Commands, NEW o \in Object
    PROVE  Numbers(o) \in [1..3 -> Seq(Byte)]
<1>1. ASSUME NEW b \in DOMAIN Buffer
      PROVE  Atoi(o.mem, Buffer[b]) \in Seq(Byte)
  <2> DEFINE p    == Buffer[b]
             from == Ends(o.mem, p, {CR})
             sign == IF from <= Top /\ o.mem[from] = "-" THEN from + 1 ELSE from
             to   == Ends(o.mem, sign, Digit)
             s    == [n \in 1..Top + 1 |-> o.mem[n - 1]]
  <2>1. p \in 0..(Top + 1) /\ Top \in Nat
    <3>1. Top \in Nat
      BY Layout
    <3>2. p \in Nat /\ Room(fw)[b] \in Nat \ {0} /\ p + Room(fw)[b] \in 1..Top
      BY Buffers
    <3> QED
      BY <3>1, <3>2
  <2>2. from \in 0..(Top + 1)
    BY <2>1, EndsExists
  <2>3. sign \in 0..(Top + 1)
    BY <2>1, <2>2
  <2>4. to \in 0..(Top + 1)
    BY <2>1, <2>3, EndsExists
  <2>5. s \in Seq(Byte) /\ Len(s) = Top + 1
    BY <2>1 DEF Object, Memory
  <2>6. Atoi(o.mem, p) = SubSeq(s, from + 1, to)
    BY DEF Atoi
  <2> HIDE DEF from, to, s
  <2> QED
    BY <2>1, <2>2, <2>4, <2>5, <2>6
<1> QED
  BY <1>1 DEF Numbers

\* The gains end somewhere.
LEMMA GainsEnd ==
    ASSUME fw \in DOMAIN Commands, NEW mem, NEW nul \in Nat
    PROVE  \E b \in 0..nul : /\ b = 0 \/ mem[b - 1] # CR
                           /\ \A j \in b..(nul - 1) : mem[j] = CR
<1> DEFINE T == {b \in Nat : b <= nul /\ \A j \in b..(nul - 1) : mem[j] = CR}
<1>1. nul \in T /\ T \in SUBSET Nat
  OBVIOUS
<1>2. PICK b \in T : \A d \in T : b <= d
  BY <1>1, LeastNat
<1>3. b \in Nat /\ b <= nul /\ \A j \in b..(nul - 1) : mem[j] = CR
  BY <1>2
<1>4. ASSUME b # 0, mem[b - 1] = CR
      PROVE  FALSE
  <2>1. b - 1 \in Nat /\ b - 1 <= nul /\ ~(b <= b - 1)
    BY <1>3, <1>4
  <2>2. \A j \in (b - 1)..(nul - 1) : mem[j] = CR
    BY <1>3, <1>4
  <2> QED
    BY <1>2, <2>1, <2>2
<1> QED
  BY <1>3, <1>4

\* strtok_r reads bytes, and no further than the memory.
LEMMA GainsType ==
    ASSUME fw \in DOMAIN Commands, NEW mem \in [Memory -> Byte]
    PROVE  Gains(mem) \in Seq(Byte)
<1> DEFINE nul == Ends(mem, 0, Char)
           End(b) == b \in 0..nul /\ (b = 0 \/ mem[b - 1] # CR)
                     /\ \A j \in b..(nul - 1) : mem[j] = CR
           to  == CHOOSE b \in 0..nul : /\ b = 0 \/ mem[b - 1] # CR
                                        /\ \A j \in b..(nul - 1) : mem[j] = CR
           s   == [n \in 1..Top + 1 |-> mem[n - 1]]
<1>1. Top \in Nat /\ nul \in 0..(Top + 1)
  <2>1. Top \in Nat /\ 0 \in 0..(Top + 1)
    BY Layout
  <2> QED
    BY <2>1, EndsExists
<1>2. Gains(mem) = SubSeq(s, 1, to)
  BY DEF Gains
<1> HIDE DEF nul
<1>3. to \in 0..nul
  <2>1. \E b \in 0..nul : /\ b = 0 \/ mem[b - 1] # CR
                          /\ \A j \in b..(nul - 1) : mem[j] = CR
    BY <1>1, GainsEnd
  <2> QED
    BY <2>1
<1>4. s \in Seq(Byte) /\ Len(s) = Top + 1
  BY <1>1 DEF Memory
<1> HIDE DEF s, to
<1> QED
  BY <1>1, <1>2, <1>3, <1>4

\* What runCommand works on, whatever command it is.
LEMMA ConvertedType ==
    ASSUME fw \in DOMAIN Commands, NEW o \in Object
    PROVE  Converted(o) \in [1..3 -> Seq(Byte)]
<1>1. Numbers(o) \in [1..3 -> Seq(Byte)] /\ o.arg \in [1..3 -> Seq(Byte)]
  BY NumbersType DEF Object
<1> QED
  BY <1>1 DEF Converted

LEMMA ArgumentsType ==
    ASSUME fw \in DOMAIN Commands, NEW mem \in [Memory -> Byte],
           NEW g \in [1..3 -> Seq(Byte)], NEW ch
    PROVE  Arguments(ch, mem, g) \in [1..3 -> Seq(Byte)]
<1>1. Gains(mem) \in Seq(Byte) /\ <<>> \in Seq(Byte)
  BY GainsType
<1> DEFINE t == Gains(mem)
<1>2. t \in Seq(Byte)
  BY <1>1
<1> HIDE DEF t
<1>3. <<t, <<>>, <<>>>> \in [1..3 -> Seq(Byte)]
  <2>1. \A n \in 1..3 : <<t, <<>>, <<>>>>[n] \in {t, <<>>}
    OBVIOUS
  <2>2. <<t, <<>>, <<>>>> \in [1..3 -> {t, <<>>}]
    BY <2>1
  <2> QED
    BY <1>1, <1>2, <2>2
<1> QED
  BY <1>3 DEF Arguments, t

\* The text of a command and what it means.
LEMMA TextType ==
    ASSUME NEW f \in DOMAIN Commands, NEW c \in Commands[f]
    PROVE  /\ c.cmd \in Char /\ c.args \in Seq(Seq(Char))
           /\ \A n \in 1..3 : Arg(c, n) \in Seq(Char)
           /\ Body(c) \in Seq(Char) /\ Text(c) \in Seq(Char)
           /\ \A l \in Port : Meaning(l, c) \in Command
<1>1. c.cmd \in Char /\ c.args \in Seq(Seq(Char))
  BY LinkAssumption
<1>2. CR \in Char /\ SP \in Char /\ \A s : s \in Seq(Char) => s \in Seq(Byte)
  BY LinkAssumption DEF Byte
<1>3. \A n \in DOMAIN c.args : c.args[n] \in Seq(Char)
  BY <1>1
<1>4. \A n \in 1..3 : Arg(c, n) \in Seq(Char)
  BY <1>2, <1>3 DEF Arg
<1>5. Body(c) \in Seq(Char)
  BY <1>1, <1>4 DEF Body
<1>6. Text(c) \in Seq(Char)
  BY <1>2, <1>5 DEF Text
<1>7. ASSUME NEW l \in Port
      PROVE  Meaning(l, c) \in Command
  <2> DEFINE g == [n \in 1..3 |-> IF n \in DOMAIN c.args THEN c.args[n] ELSE <<>>]
  <2>1. g \in [1..3 -> Seq(Byte)]
    BY <1>2, <1>3
  <2>2. Meaning(l, c) = [link |-> l, cmd |-> c.cmd, args |-> g]
    BY DEF Meaning
  <2> HIDE DEF g
  <2> QED
    BY <1>1, <2>1, <2>2 DEF Command, Byte
<1> QED
  BY <1>1, <1>4, <1>5, <1>6, <1>7

-----------------------------------------------------------------------------
(* The type invariant.                                                     *)

\* No step changes the firmware, nor then the layout of the buffers.
LEMMA SameFirmware ==
    ASSUME fw' = fw
    PROVE  Base' = Base /\ Fill' = Fill /\ Top' = Top /\ Memory' = Memory
           /\ Buffer' = Buffer /\ Object' = Object
<1>1. Base' = Base
  BY DEF Base
<1>2. Top' = Top
  BY <1>1 DEF Top
<1>3. Memory' = Memory
  BY <1>2 DEF Memory
<1> QED
  BY <1>1, <1>2, <1>3 DEF Fill, Buffer, Object

\* The types hold at first.
LEMMA TypeInit == Init => TypeOK
<1> SUFFICES ASSUME Init PROVE TypeOK
  OBVIOUS
<1> USE DEF Init
<1>1. Fill \in Byte /\ Top \in Nat
  BY Layout
<1>2. NoArgs \in [1..3 -> Seq(Byte)]
  <2>1. <<>> \in Seq(Byte)
    OBVIOUS
  <2> QED
    BY <2>1 DEF NoArgs
<1>3. obj \in Object
  <2> DEFINE m == [a \in Memory |-> IF a = Top THEN NUL ELSE Fill]
  <2>1. m \in [Memory -> Byte]
    BY <1>1 DEF Byte
  <2>2. obj = [argCnt |-> 0, argIndex |-> 0, cmd_chr |-> Fill, mem |-> m, arg |-> NoArgs]
    OBVIOUS
  <2> HIDE DEF m, Init
  <2> QED
    BY <1>1, <1>2, <2>1, <2>2 DEF Object
<1>4. sent \in [Port -> Seq(Command)] /\ ran \in [Port -> Seq(Command)]
  OBVIOUS
<1>5. obj.argCnt = 0 /\ \A a \in Memory \ {Top} : obj.mem[a] = Fill
  OBVIOUS
<1> QED
  BY <1>1, <1>3, <1>4, <1>5, LinkAssumption DEF TypeOK, Port

\* What BusSend runs.
BusRun(c) == [link |-> "iic", cmd  |-> Taken(obj, Body(c)).cmd_chr,
              args |-> Arguments(Taken(obj, Body(c)).cmd_chr, Taken(obj, Body(c)).mem,
                                 Converted(Taken(obj, Body(c))))]

\* What the interrupt runs is a command.
LEMMA BusRunType ==
    ASSUME TypeOK, NEW c \in Commands[fw]
    PROVE  BusRun(c) \in Command
<1> DEFINE o == Taken(obj, Body(c))
<1>1. o \in Object
  BY TakenType, TextType DEF TypeOK
<1> HIDE DEF o
<1>2. Converted(o) \in [1..3 -> Seq(Byte)] /\ o.cmd_chr \in Byte /\ o.mem \in [Memory -> Byte]
  BY <1>1, ConvertedType DEF TypeOK, Object
<1>3. Arguments(o.cmd_chr, o.mem, Converted(o)) \in [1..3 -> Seq(Byte)]
  BY <1>2, ArgumentsType DEF TypeOK
<1> QED
  BY <1>2, <1>3 DEF BusRun, Command, Port, o

\* The mark of a text that can be no command any more is a text.
LEMMA GarbledType == Garbled \in Seq(Char) /\ Garbled # <<>>
<1>1. "?" \in Char
  BY LinkAssumption
<1> QED
  BY <1>1 DEF Garbled

\* A history grows by a command.
LEMMA HistoryType ==
    ASSUME NEW h \in [Port -> Seq(Command)], NEW l \in Port, NEW e \in Command
    PROVE  [h EXCEPT ![l] = Append(@, e)] \in [Port -> Seq(Command)]
<1>1. Append(h[l], e) \in Seq(Command)
  OBVIOUS
<1> DEFINE s == Append(h[l], e)
<1>2. s \in Seq(Command)
  BY <1>1
<1> HIDE DEF s
<1>3. [h EXCEPT ![l] = s] \in [Port -> Seq(Command)]
  BY <1>2
<1> QED
  BY <1>3 DEF s

\* Every step keeps the types.
LEMMA TypeStep == TypeOK /\ [Next]_vars => TypeOK'
<1> SUFFICES ASSUME TypeOK, [Next]_vars PROVE TypeOK'
  OBVIOUS
<1>1. ASSUME NEW c \in Commands[fw], SerialSend(c)
      PROVE  TypeOK'
  <2>1. Text(c) \in Seq(Char) /\ Meaning("serial", c) \in Command
    BY TextType DEF TypeOK, Port
  <2>2. sent' \in [Port -> Seq(Command)]
    <3>1. sent' = [sent EXCEPT !["serial"] = Append(@, Meaning("serial", c))]
      BY <1>1 DEF SerialSend
    <3> QED
      BY <2>1, <3>1, HistoryType DEF TypeOK, Port
  <2> QED
    BY <1>1, <2>1, <2>2, SameFirmware DEF SerialSend, TypeOK
<1>2. ASSUME NEW c \in Commands[fw], BusSend(c)
      PROVE  TypeOK'
  <2> DEFINE o == Taken(obj, Body(c))
  <2>1. o \in Object /\ Meaning("iic", c) \in Command /\ BusRun(c) \in Command
    BY TakenType, TextType, BusRunType DEF TypeOK, Port
  <2>2. Reset(o) \in Object /\ Converted(o) \in [1..3 -> Seq(Byte)]
    BY <2>1, ResetType, ConvertedType DEF TypeOK
  <2>3. obj' = [Reset(o) EXCEPT !.arg = Converted(o)]
    BY <1>2 DEF BusSend
  <2>4. /\ sent' = [sent EXCEPT !["iic"] = Append(@, Meaning("iic", c))]
        /\ ran' = [ran EXCEPT !["iic"] = Append(@, BusRun(c))]
        /\ ack' = <<BusRun(c)>>
    BY <1>2 DEF BusSend, BusRun, ResetI2CData
  <2>5. obj' \in Object
    <3> DEFINE r == Reset(o)
               g == Converted(o)
    <3> HIDE DEF r, g
    <3>1. r \in Object /\ g \in [1..3 -> Seq(Byte)] /\ obj' = [r EXCEPT !.arg = g]
      BY <2>2, <2>3 DEF r, g
    <3> QED
      BY <3>1 DEF Object
  <2>6. obj'.argCnt = 0 /\ \A a \in Memory \ {Top} : obj'.mem[a] = Fill
    BY <2>1, <2>2, <2>3, ResetType DEF TypeOK, Object
  <2>7. /\ sent' \in [Port -> Seq(Command)] /\ ran' \in [Port -> Seq(Command)]
        /\ ack' \in Seq(Command)
    BY <2>1, <2>4, HistoryType DEF TypeOK, Port
  <2>8. /\ heard' \in Seq(Char) /\ spoilt' \subseteq Port /\ last' \in Port
        /\ UNCHANGED <<fw, typed, rx, pc, sel, reply>>
    BY <1>2, GarbledType DEF BusSend, TypeOK, Port
  <2> HIDE DEF o
  <2> QED
    BY <2>5, <2>6, <2>7, <2>8, SameFirmware DEF TypeOK
<1>3. CASE Arrive
  <2>1. typed' \in Seq(Char) /\ Head(typed) \in Char
    BY <1>3 DEF Arrive, TypeOK
  <2>2. rx' \in Seq(Char) /\ Len(rx') <= RxSize /\ spoilt' \subseteq Port
    <3>1. CASE Len(rx) < RxSize
      <4>1. rx' = Append(rx, Head(typed)) /\ spoilt' = spoilt
        BY <1>3, <3>1 DEF Arrive
      <4>2. rx \in Seq(Char) /\ RxSize \in Nat
        BY LinkAssumption DEF TypeOK
      <4>3. rx' \in Seq(Char) /\ Len(rx') = Len(rx) + 1
        BY <2>1, <4>1, <4>2
      <4> QED
        BY <3>1, <4>1, <4>2, <4>3 DEF TypeOK
    <3>2. CASE ~(Len(rx) < RxSize)
      BY <1>3, <3>2 DEF Arrive, TypeOK, Port
    <3> QED
      BY <3>1, <3>2
  <2>3. UNCHANGED <<fw, sent, reply, obj, pc, sel, ack, ran, last, heard>>
    BY <1>3 DEF Arrive, host
  <2> QED
    BY <2>1, <2>2, <2>3, SameFirmware DEF TypeOK
<1>4. CASE BusRequest
  BY <1>4, SameFirmware DEF BusRequest, TypeOK
<1>5. CASE Read
  <2>1. Head(rx) \in Char /\ Tail(rx) \in Seq(Char) /\ Len(Tail(rx)) <= RxSize
    BY <1>5, LinkAssumption DEF Read, TypeOK
  <2>2. obj' \in Object
    BY <1>5, <2>1, PutType, TerminateType DEF Read, TypeOK
  <2>3. heard' \in Seq(Char) /\ heard' # <<>>
    <3>1. Append(heard, Head(rx)) \in Seq(Char) /\ Append(heard, Head(rx)) # <<>>
      <4> DEFINE ch == Head(rx)
      <4>1. ch \in Char /\ heard \in Seq(Char)
        BY <2>1 DEF TypeOK
      <4> HIDE DEF ch
      <4>2. Append(heard, ch) \in Seq(Char)
        BY <4>1
      <4>3. Len(Append(heard, ch)) = Len(heard) + 1 /\ Len(heard) \in Nat /\ Len(<<>>) = 0
        BY <4>1
      <4>4. Len(Append(heard, ch)) # Len(<<>>)
        BY <4>3
      <4> QED
        BY <4>2, <4>4 DEF ch
    <3>2. heard' \in {Append(heard, Head(rx)), Garbled}
      BY <1>5 DEF Read
    <3> QED
      BY <3>1, <3>2, GarbledType
  <2>4. /\ rx' = Tail(rx) /\ pc' \in {pc, "args"}
        /\ UNCHANGED <<fw, typed, sel, ack, reply, sent, ran, last, spoilt>>
    BY <1>5 DEF Read, host
  <2> QED
    BY <2>1, <2>2, <2>3, <2>4, SameFirmware DEF TypeOK
<1>6. CASE Args
  <2> DEFINE g == Converted(obj)
  <2>1. g \in [1..3 -> Seq(Byte)]
    BY ConvertedType DEF TypeOK
  <2>2. obj' = [obj EXCEPT !.arg = g]
    BY <1>6 DEF Args
  <2> HIDE DEF g
  <2>3. obj' \in Object
    BY <2>1, <2>2 DEF TypeOK, Object
  <2> QED
    BY <1>6, <2>3, SameFirmware DEF Args, host, TypeOK
<1>7. CASE Clear
  BY <1>7, SameFirmware DEF Clear, host, TypeOK, ResetI2CData
<1>8. CASE Switch
  <2>1. obj.cmd_chr \in Byte
    BY DEF TypeOK, Object
  <2> QED
    BY <1>8, <2>1, SameFirmware DEF Switch, host, TypeOK
<1>9. CASE Act
  <2> DEFINE g   == Arguments(sel, obj.mem, obj.arg)
             run == [link |-> "serial", cmd |-> sel, args |-> g]
  <2>1. run \in Command
    <3>1. g \in [1..3 -> Seq(Byte)]
      BY ArgumentsType DEF TypeOK, Object
    <3> HIDE DEF g
    <3> QED
      BY <3>1 DEF TypeOK, Command, Port
  <2>2. /\ ran' = [ran EXCEPT !["serial"] = Append(@, run)] /\ last' = "serial"
        /\ ack' \in {ack, Append(ack, run)} /\ heard' = <<>> /\ pc' = "reset"
        /\ UNCHANGED <<fw, sent, reply, typed, rx, obj, sel, spoilt>>
    BY <1>9 DEF Act, host, AfterRun
  <2> HIDE DEF run
  <2>3. ack \in Seq(Command) /\ ran \in [Port -> Seq(Command)]
    BY DEF TypeOK
  <2>4. ack' \in Seq(Command)
    BY <2>1, <2>2, <2>3
  <2>5. ran' \in [Port -> Seq(Command)]
    BY <2>1, <2>2, <2>3, HistoryType DEF Port
  <2> QED
    BY <2>2, <2>4, <2>5, SameFirmware DEF TypeOK, Port
<1>10. CASE ResetParam
  <2>1. obj' \in Object /\ obj'.argCnt = 0 /\ \A a \in Memory \ {Top} : obj'.mem[a] = Fill
    BY <1>10, ResetType DEF ResetParam, TypeOK
  <2>2. pc' = "loop" /\ UNCHANGED <<fw, sent, reply, typed, rx, sel, ack, ran, last, heard, spoilt>>
    BY <1>10 DEF ResetParam, host
  <2> QED
    BY <2>1, <2>2, SameFirmware DEF TypeOK
<1>11. CASE UNCHANGED vars
  BY <1>11, SameFirmware DEF vars, TypeOK
<1> QED
  BY <1>1, <1>2, <1>3, <1>4, <1>5, <1>6, <1>7, <1>8, <1>9, <1>10, <1>11 DEF Next, Main

\* TypeOK: the counters of procRecChar stay in their types, and between two
\* commands the buffers are clean (resetCmdParam, resetCommand).
THEOREM LinkTypeCorrect == Spec => []TypeOK
<1>1. Init => TypeOK
  BY TypeInit
<1>2. TypeOK /\ [Next]_vars => TypeOK'
  BY TypeStep
<1> QED
  BY <1>1, <1>2, PTL DEF Spec

-----------------------------------------------------------------------------
(* The text of a command that fits.                                        *)

\* Where its k-th argument starts, with the space, and how long it is; the
\* command character is the argument 0.
Size(c, k)  == IF k = 0 THEN 0 ELSE Len(c.args[k])
Start(c, k) == IF k = 0 THEN 1
               ELSE IF k = 1 THEN 2
               ELSE IF k = 2 THEN 2 + Len(Arg(c, 1))
               ELSE 2 + Len(Arg(c, 1)) + Len(Arg(c, 2))

\* What it is for a command to fit, spelled out.
LEMMA FitsFacts ==
    ASSUME fw \in DOMAIN Commands, NEW c \in Commands[fw], Fits(fw, c)
    PROVE  /\ c.cmd \in Char \ {SP, CR, "?"}
           /\ Len(c.args) \in 0..3 /\ DOMAIN c.args = 1..Len(c.args)
           /\ DOMAIN c.args \subseteq DOMAIN Buffer
           /\ \A k \in 1..Len(c.args) :
                 /\ c.args[k] \in Seq(Char)
                 /\ Len(c.args[k]) \in 1..(Room(fw)[k] - 1)
                 /\ \A i \in 1..Len(c.args[k]) : c.args[k][i] \in Char \ {SP, CR, NUL}
                 /\ c.cmd # UPDATE_PID => \A i \in 1..Len(c.args[k]) :
                       c.args[k][i] \in Digit \/ (i = 1 /\ c.args[k][i] = "-")
           /\ c.cmd = UPDATE_PID => DOMAIN c.args \subseteq {1}
<1>1. c.cmd \in Char /\ c.args \in Seq(Seq(Char))
  BY TextType
<1>2. DOMAIN c.args = 1..Len(c.args) /\ Len(c.args) \in Nat
  BY <1>1
<1>3. DOMAIN c.args \subseteq DOMAIN Buffer /\ DOMAIN Buffer \subseteq 1..3
  BY Layout DEF Fits
<1>4. Len(c.args) \in 0..3
  <2>1. Len(c.args) # 0 => Len(c.args) \in DOMAIN c.args
    BY <1>2
  <2>2. Len(c.args) # 0 => Len(c.args) \in 1..3
    BY <2>1, <1>3
  <2> QED
    BY <1>2, <2>2
<1>5. ASSUME NEW k \in 1..Len(c.args)
      PROVE  /\ c.args[k] \in Seq(Char)
             /\ Len(c.args[k]) \in 1..(Room(fw)[k] - 1)
             /\ \A i \in 1..Len(c.args[k]) : c.args[k][i] \in Char \ {SP, CR, NUL}
             /\ c.cmd # UPDATE_PID => \A i \in 1..Len(c.args[k]) :
                   c.args[k][i] \in Digit \/ (i = 1 /\ c.args[k][i] = "-")
  <2> DEFINE a == c.args[k]
  <2>1. a \in Seq(Char)
    BY <1>1, <1>2
  <2>2. Len(a) \in 1..(Room(fw)[k] - 1)
        /\ (IF c.cmd = UPDATE_PID THEN AreGains(fw, a) ELSE IsNumber(a))
    BY <1>2 DEF Fits
  <2>3. DOMAIN a = 1..Len(a)
    BY <2>1
  <2>4. \A d \in Digit \cup {"-", ":"} : d \notin {SP, CR, NUL}
    BY LinkAssumption DEF Digit, SP, CR, NUL
  <2> HIDE DEF a
  <2>5. c.cmd # UPDATE_PID => \A i \in 1..Len(a) : a[i] \in Digit \/ (i = 1 /\ a[i] = "-")
    BY <2>2, <2>3 DEF IsNumber
  <2>6. \A i \in 1..Len(a) : a[i] \in Char \ {SP, CR, NUL}
    <3>1. \A i \in 1..Len(a) : a[i] \in Char
      BY <2>1 DEF a
    <3>2. \A i \in 1..Len(a) : a[i] \in Digit \cup {"-", ":"}
      BY <2>2, <2>3 DEF IsNumber, AreGains
    <3> QED
      BY <2>4, <3>1, <3>2
  <2> QED
    BY <2>1, <2>2, <2>5, <2>6 DEF a
<1>6. c.cmd \notin {SP, CR, "?"}
  BY DEF Fits
<1>7. c.cmd = UPDATE_PID => DOMAIN c.args \subseteq {1}
  BY DEF Fits
<1> QED
  BY <1>1, <1>2, <1>3, <1>4, <1>5, <1>6, <1>7

\* An argument in the text: a space and its characters.
LEMMA ArgAt ==
    ASSUME NEW c, NEW n \in 1..3, c.args \in Seq(Seq(Char))
    PROVE  /\ n \in DOMAIN c.args =>
                 /\ Arg(c, n) \in Seq(Char)
                 /\ Len(Arg(c, n)) = 1 + Len(c.args[n]) /\ Arg(c, n)[1] = SP
                 /\ \A i \in 1..Len(c.args[n]) : Arg(c, n)[1 + i] = c.args[n][i]
           /\ n \notin DOMAIN c.args => Arg(c, n) = <<>>
<1>1. CASE n \in DOMAIN c.args
  <2> DEFINE a == c.args[n]
  <2>1. a \in Seq(Char) /\ SP \in Char
    BY <1>1, LinkAssumption
  <2>2. Arg(c, n) = <<SP>> \o a
    BY <1>1 DEF Arg
  <2> HIDE DEF a
  <2>3. /\ <<SP>> \o a \in Seq(Char) /\ Len(<<SP>> \o a) = 1 + Len(a)
        /\ (<<SP>> \o a)[1] = SP /\ \A i \in 1..Len(a) : (<<SP>> \o a)[1 + i] = a[i]
    BY <2>1
  <2> QED
    BY <1>1, <2>2, <2>3 DEF a
<1>2. CASE n \notin DOMAIN c.args
  BY <1>2 DEF Arg
<1> QED
  BY <1>1, <1>2

\* Two sequences, one behind the other.
LEMMA ConcatAt ==
    ASSUME NEW S, NEW s \in Seq(S), NEW t \in Seq(S)
    PROVE  /\ s \o t \in Seq(S) /\ Len(s \o t) = Len(s) + Len(t)
           /\ \A i \in 1..Len(s) : (s \o t)[i] = s[i]
           /\ \A i \in 1..Len(t) : (s \o t)[Len(s) + i] = t[i]
  OBVIOUS

\* Four sequences, one behind the other.
LEMMA ConcatFour ==
    ASSUME NEW S, NEW s \in Seq(S), NEW t \in Seq(S), NEW u \in Seq(S), NEW v \in Seq(S),
           NEW w, w = s \o t \o u \o v
    PROVE  /\ Len(w) = Len(s) + Len(t) + Len(u) + Len(v)
           /\ \A i \in 1..Len(s) : w[i] = s[i]
           /\ \A i \in 1..Len(t) : w[Len(s) + i] = t[i]
           /\ \A i \in 1..Len(u) : w[Len(s) + Len(t) + i] = u[i]
           /\ \A i \in 1..Len(v) : w[Len(s) + Len(t) + Len(u) + i] = v[i]
<1> PICK st : st = s \o t
  OBVIOUS
<1>1. /\ st \in Seq(S) /\ Len(st) = Len(s) + Len(t)
      /\ \A i \in 1..Len(s) : st[i] = s[i]
      /\ \A i \in 1..Len(t) : st[Len(s) + i] = t[i]
  BY ConcatAt
<1> PICK stu : stu = st \o u
  OBVIOUS
<1>2. /\ stu \in Seq(S) /\ Len(stu) = Len(st) + Len(u)
      /\ \A i \in 1..Len(st) : stu[i] = st[i]
      /\ \A i \in 1..Len(u) : stu[Len(st) + i] = u[i]
  <2>1. st \in Seq(S)
    BY <1>1
  <2> QED
    BY <2>1, ConcatAt
<1>3. w = stu \o v
  OBVIOUS
<1>4. /\ Len(w) = Len(stu) + Len(v)
      /\ \A i \in 1..Len(stu) : w[i] = stu[i]
      /\ \A i \in 1..Len(v) : w[Len(stu) + i] = v[i]
  <2>1. stu \in Seq(S)
    BY <1>2
  <2> QED
    BY <2>1, <1>3, ConcatAt
<1>5. Len(s) \in Nat /\ Len(t) \in Nat /\ Len(u) \in Nat /\ Len(v) \in Nat
  OBVIOUS
<1>6. ASSUME NEW i \in 1..Len(s)
      PROVE  w[i] = s[i]
  BY <1>1, <1>2, <1>4, <1>5
<1>7. ASSUME NEW i \in 1..Len(t)
      PROVE  w[Len(s) + i] = t[i]
  <2>1. Len(s) + i \in 1..Len(st) /\ Len(s) + i \in 1..Len(stu)
    BY <1>1, <1>2, <1>5
  <2> QED
    BY <2>1, <1>1, <1>2, <1>4
<1>8. ASSUME NEW i \in 1..Len(u)
      PROVE  w[Len(s) + Len(t) + i] = u[i]
  <2>1. Len(st) + i \in 1..Len(stu) /\ Len(st) + i = Len(s) + Len(t) + i
    BY <1>1, <1>2, <1>5
  <2>2. w[Len(st) + i] = u[i]
    BY <2>1, <1>2, <1>4
  <2> QED
    BY <2>1, <2>2
<1>9. ASSUME NEW i \in 1..Len(v)
      PROVE  w[Len(s) + Len(t) + Len(u) + i] = v[i]
  <2>1. Len(stu) + i = Len(s) + Len(t) + Len(u) + i
    BY <1>1, <1>2, <1>5
  <2>2. w[Len(stu) + i] = v[i]
    BY <1>4
  <2> QED
    BY <2>1, <2>2
<1>10. Len(w) = Len(s) + Len(t) + Len(u) + Len(v)
  BY <1>1, <1>2, <1>4, <1>5
<1> QED
  BY <1>6, <1>7, <1>8, <1>9, <1>10

\* The sums of lengths in BodyAt.
LEMMA SumOfTwo ==
    ASSUME NEW w, NEW x \in Nat, NEW y, NEW z, NEW n \in Nat,
           w = 1 + x + y + z, y = 1 + n, z = 0
    PROVE  w = (2 + x) + n
  OBVIOUS

\* The same, with one argument more.
LEMMA SumOfThree ==
    ASSUME NEW w, NEW x \in Nat, NEW y \in Nat, NEW z, NEW n \in Nat,
           w = 1 + x + y + z, z = 1 + n
    PROVE  w = (2 + x + y) + n
  OBVIOUS

\* The text, character by character.
LEMMA BodyAt ==
    ASSUME fw \in DOMAIN Commands, NEW c \in Commands[fw], Fits(fw, c)
    PROVE  /\ Len(Body(c)) = Start(c, Len(c.args)) + Size(c, Len(c.args))
           /\ Body(c)[1] = c.cmd
           /\ \A k \in 1..Len(c.args) :
                 /\ Body(c)[Start(c, k)] = SP
                 /\ \A i \in 1..Len(c.args[k]) : Body(c)[Start(c, k) + i] = c.args[k][i]
<1> DEFINE A == Len(c.args)
           a1 == Arg(c, 1)
           a2 == Arg(c, 2)
           a3 == Arg(c, 3)
           w  == Body(c)
<1>1. /\ c.cmd \in Char /\ c.args \in Seq(Seq(Char)) /\ A \in 0..3
      /\ DOMAIN c.args = 1..A /\ \A k \in 1..A : Len(c.args[k]) \in Nat
  BY FitsFacts, TextType
<1>2. \A n \in 1..3 :
        /\ n <= A => /\ Len(Arg(c, n)) = 1 + Len(c.args[n]) /\ Arg(c, n)[1] = SP
                     /\ \A i \in 1..Len(c.args[n]) : Arg(c, n)[1 + i] = c.args[n][i]
        /\ n > A => Len(Arg(c, n)) = 0
  <2> SUFFICES ASSUME NEW n \in 1..3
               PROVE  /\ n <= A => /\ Len(Arg(c, n)) = 1 + Len(c.args[n]) /\ Arg(c, n)[1] = SP
                                   /\ \A i \in 1..Len(c.args[n]) :
                                        Arg(c, n)[1 + i] = c.args[n][i]
                      /\ n > A => Len(Arg(c, n)) = 0
    OBVIOUS
  <2>1. Len(<<>>) = 0
    OBVIOUS
  <2>2. CASE n <= A
    <3>1. n \in DOMAIN c.args /\ ~(n > A)
      BY <1>1, <2>2
    <3> QED
      BY <1>1, <3>1, ArgAt
  <2>3. CASE ~(n <= A)
    <3>1. n \notin DOMAIN c.args
      BY <1>1, <2>3
    <3> QED
      BY <1>1, <2>1, <2>3, <3>1, ArgAt
  <2> QED
    BY <2>2, <2>3
<1>3. a1 \in Seq(Char) /\ a2 \in Seq(Char) /\ a3 \in Seq(Char)
  BY TextType
<1>4. w = <<c.cmd>> \o a1 \o a2 \o a3
  BY DEF Body
<1>5. <<c.cmd>> \in Seq(Char) /\ Len(<<c.cmd>>) = 1 /\ <<c.cmd>>[1] = c.cmd
  BY <1>1
<1> HIDE DEF A, a1, a2, a3, w
<1>6. /\ Len(w) = 1 + Len(a1) + Len(a2) + Len(a3)
      /\ w[1] = c.cmd
      /\ \A i \in 1..Len(a1) : w[1 + i] = a1[i]
      /\ \A i \in 1..Len(a2) : w[1 + Len(a1) + i] = a2[i]
      /\ \A i \in 1..Len(a3) : w[1 + Len(a1) + Len(a2) + i] = a3[i]
  BY <1>3, <1>4, <1>5, ConcatFour
<1>7. Len(a1) \in Nat /\ Len(a2) \in Nat /\ Len(a3) \in Nat
  BY <1>3
<1>8. Len(w) = Start(c, A) + Size(c, A)
  <2>1. /\ A >= 1 => Len(a1) = 1 + Len(c.args[1]) /\ Len(c.args[1]) \in Nat
        /\ A >= 2 => Len(a2) = 1 + Len(c.args[2]) /\ Len(c.args[2]) \in Nat
        /\ A >= 3 => Len(a3) = 1 + Len(c.args[3]) /\ Len(c.args[3]) \in Nat
        /\ A < 1 => Len(a1) = 0
        /\ A < 2 => Len(a2) = 0
        /\ A < 3 => Len(a3) = 0
    BY <1>1, <1>2 DEF a1, a2, a3
  <2>2. Start(c, 0) = 1 /\ Start(c, 1) = 2 /\ Start(c, 2) = 2 + Len(a1)
        /\ Start(c, 3) = 2 + Len(a1) + Len(a2)
    BY DEF Start, a1, a2
  <2>3. Size(c, 0) = 0 /\ Size(c, 1) = Len(c.args[1]) /\ Size(c, 2) = Len(c.args[2])
        /\ Size(c, 3) = Len(c.args[3])
    BY DEF Size
  <2>4. CASE A = 0
    BY <2>4, <2>1, <2>2, <2>3, <1>6, <1>7
  <2>5. CASE A = 1
    BY <2>5, <2>1, <2>2, <2>3, <1>6, <1>7
  <2>6. CASE A = 2
    <3>1. Start(c, A) = 2 + Len(a1) /\ Size(c, A) = Len(c.args[2])
      BY <2>6, <2>2, <2>3
    <3>2. Len(a2) = 1 + Len(c.args[2]) /\ Len(c.args[2]) \in Nat /\ Len(a3) = 0
      BY <2>6, <2>1
    <3>3. Len(w) = (2 + Len(a1)) + Len(c.args[2])
      BY <3>2, <1>6, <1>7, SumOfTwo, ZenonT(60)
    <3> QED
      BY <3>1, <3>3, Zenon
  <2>7. CASE A = 3
    <3>1. Start(c, A) = 2 + Len(a1) + Len(a2) /\ Size(c, A) = Len(c.args[3])
      BY <2>7, <2>2, <2>3
    <3>2. Len(a3) = 1 + Len(c.args[3]) /\ Len(c.args[3]) \in Nat
      BY <2>7, <2>1
    <3>3. Len(w) = (2 + Len(a1) + Len(a2)) + Len(c.args[3])
      BY <3>2, <1>6, <1>7, SumOfThree, ZenonT(60)
    <3> QED
      BY <3>1, <3>3, Zenon
  <2> QED
    BY <1>1, <2>4, <2>5, <2>6, <2>7
<1>9. ASSUME NEW k \in 1..A
      PROVE  \A j \in 1..(1 + Len(c.args[k])) : w[Start(c, k) - 1 + j] = Arg(c, k)[j]
  <2>1. CASE k = 1
    BY <2>1, <1>1, <1>2, <1>6 DEF Start, a1
  <2>2. CASE k = 2
    BY <2>2, <1>1, <1>2, <1>6, <1>7 DEF Start, a1, a2
  <2>3. CASE k = 3
    BY <2>3, <1>1, <1>2, <1>6, <1>7, SMTT(30) DEF Start, a1, a2, a3
  <2> QED
    BY <1>1, <2>1, <2>2, <2>3
<1>10. ASSUME NEW k \in 1..A
       PROVE  /\ w[Start(c, k)] = SP
              /\ \A i \in 1..Len(c.args[k]) : w[Start(c, k) + i] = c.args[k][i]
  <2>1. Start(c, k) \in Nat
    BY <1>1, <1>7 DEF Start, a1, a2
  <2>2. Len(c.args[k]) \in Nat /\ k \in 1..3 /\ k <= A
    BY <1>1
  <2>3. w[Start(c, k) - 1 + 1] = SP
    BY <1>2, <1>9, <2>2
  <2>4. ASSUME NEW i \in 1..Len(c.args[k])
        PROVE  w[Start(c, k) - 1 + (1 + i)] = c.args[k][i]
    <3>1. 1 + i \in 1..(1 + Len(c.args[k]))
      BY <2>2
    <3>2. w[Start(c, k) - 1 + (1 + i)] = Arg(c, k)[1 + i]
      BY <1>9, <3>1
    <3> QED
      BY <3>2, <1>2, <2>2
  <2> QED
    BY <2>1, <2>3, <2>4
<1> QED
  BY <1>6, <1>8, <1>10 DEF A, w

-----------------------------------------------------------------------------
(* Taking a command that fits apart.                                       *)

\* Behind the i-th character of argument k of c: what each buffer holds of it,
\* and where the parser is.
Held(c, k, i, b) == IF b < k THEN Len(c.args[b]) ELSE IF b = k THEN i ELSE 0
Filled(c, k, i, mem) ==
    \A b \in DOMAIN Buffer : \A j \in 0..(Room(fw)[b] - 1) :
        mem[Buffer[b] + j] = IF j < Held(c, k, i, b) THEN c.args[b][j + 1] ELSE Fill
Inside(c, k, i, o) == /\ o.argCnt = k /\ (k # 0 => o.argIndex = i)
                      /\ o.cmd_chr = c.cmd /\ Filled(c, k, i, o.mem)

\* Before a command, and behind the n-th character of it.
Clean(o)        == o.argCnt = 0 /\ \A a \in Memory \ {Top} : o.mem[a] = Fill
Parsed(c, n, o) == IF n = 0 THEN Clean(o)
                   ELSE \E k \in 0..Len(c.args) : \E i \in 0..Size(c, k) :
                          n = Start(c, k) + i /\ Inside(c, k, i, o)

\* The places of two buffers are different.
LEMMA Places ==
    ASSUME fw \in DOMAIN Commands, NEW a \in DOMAIN Buffer, NEW b \in DOMAIN Buffer,
           NEW i \in 0..(Room(fw)[a] - 1), NEW j \in 0..(Room(fw)[b] - 1)
    PROVE  /\ Buffer[a] + i \in Memory \ {Top}
           /\ Buffer[a] + i = Buffer[b] + j => a = b /\ i = j
<1>1. Buffer[a] \in Nat /\ Room(fw)[a] \in Nat \ {0} /\ Buffer[a] + Room(fw)[a] \in 1..Top
      /\ Buffer[b] \in Nat /\ Room(fw)[b] \in Nat \ {0} /\ Top \in Nat
  BY Buffers, Layout
<1>2. Buffer[a] + i \in Memory \ {Top}
  BY <1>1 DEF Memory
<1>3. a \in Nat /\ b \in Nat
  BY Layout
<1>4. (a < b => Buffer[a] + Room(fw)[a] <= Buffer[b])
      /\ (b < a => Buffer[b] + Room(fw)[b] <= Buffer[a])
  BY Buffers
<1>5. ASSUME Buffer[a] + i = Buffer[b] + j
      PROVE  a = b /\ i = j
  <2>1. ~(a < b) /\ ~(b < a)
    BY <1>1, <1>4, <1>5
  <2>2. a = b
    BY <1>3, <2>1
  <2> QED
    BY <1>1, <1>5, <2>2
<1> QED
  BY <1>2, <1>5

\* One character more.
LEMMA FilledChar ==
    ASSUME fw \in DOMAIN Commands, NEW c \in Commands[fw], Fits(fw, c),
           NEW k \in 1..Len(c.args), NEW i \in 0..(Len(c.args[k]) - 1),
           NEW mem \in [Memory -> Byte], Filled(c, k, i, mem)
    PROVE  /\ k \in DOMAIN Buffer /\ Buffer[k] + i \in Memory \ {Top} /\ i + 1 < Room(fw)[k]
           /\ Filled(c, k, i + 1, [mem EXCEPT ![Buffer[k] + i] = c.args[k][i + 1]])
<1>1. k \in DOMAIN Buffer /\ Len(c.args[k]) \in 1..(Room(fw)[k] - 1) /\ k \in Nat
  BY FitsFacts
<1>2. i + 1 < Room(fw)[k] /\ i \in 0..(Room(fw)[k] - 1) /\ i \in Nat
  BY <1>1, Buffers
<1>3. Buffer[k] + i \in Memory \ {Top}
  BY <1>1, <1>2, Places
<1> DEFINE m == [mem EXCEPT ![Buffer[k] + i] = c.args[k][i + 1]]
<1>4. ASSUME NEW b \in DOMAIN Buffer, NEW j \in 0..(Room(fw)[b] - 1)
      PROVE  m[Buffer[b] + j] = IF j < Held(c, k, i + 1, b) THEN c.args[b][j + 1] ELSE Fill
  <2>1. Buffer[b] + j \in Memory
    BY Places
  <2>2. mem[Buffer[b] + j] = IF j < Held(c, k, i, b) THEN c.args[b][j + 1] ELSE Fill
    BY DEF Filled
  <2>3. b \in Nat /\ j \in Nat
    BY Layout
  <2>4. CASE b = k /\ j = i
    <3>1. m[Buffer[b] + j] = c.args[k][i + 1]
      BY <2>1, <2>4
    <3>2. Held(c, k, i + 1, b) = i + 1
      BY <1>1, <2>4 DEF Held
    <3> QED
      BY <1>2, <2>4, <3>1, <3>2
  <2>5. CASE ~(b = k /\ j = i)
    <3>1. Buffer[b] + j # Buffer[k] + i
      BY <1>1, <1>2, <2>5, Places
    <3>2. m[Buffer[b] + j] = mem[Buffer[b] + j]
      BY <2>1, <3>1
    <3>3. j < Held(c, k, i + 1, b) <=> j < Held(c, k, i, b)
      BY <1>1, <1>2, <2>3, <2>5 DEF Held
    <3> QED
      BY <2>2, <3>2, <3>3
  <2> QED
    BY <2>4, <2>5
<1> QED
  BY <1>1, <1>2, <1>3, <1>4 DEF Filled

\* The end of an argument needs no mark: it is there already.
LEMMA FilledEnd ==
    ASSUME fw \in DOMAIN Commands, NEW c \in Commands[fw], Fits(fw, c),
           NEW k \in 1..Len(c.args), NEW mem \in [Memory -> Byte],
           Filled(c, k, Len(c.args[k]), mem)
    PROVE  /\ k \in DOMAIN Buffer /\ Buffer[k] + Len(c.args[k]) \in Memory \ {Top}
           /\ Filled(c, k, Len(c.args[k]), [mem EXCEPT ![Buffer[k] + Len(c.args[k])] = Fill])
<1> DEFINE i == Len(c.args[k])
<1>1. k \in DOMAIN Buffer /\ i \in 1..(Room(fw)[k] - 1) /\ k \in Nat
  BY FitsFacts
<1> HIDE DEF i
<1>2. i \in 0..(Room(fw)[k] - 1) /\ i \in Nat
  BY <1>1, Buffers
<1>3. Buffer[k] + i \in Memory \ {Top}
  BY <1>1, <1>2, Places
<1> DEFINE m == [mem EXCEPT ![Buffer[k] + i] = Fill]
<1>4. ASSUME NEW b \in DOMAIN Buffer, NEW j \in 0..(Room(fw)[b] - 1)
      PROVE  m[Buffer[b] + j] = IF j < Held(c, k, i, b) THEN c.args[b][j + 1] ELSE Fill
  <2>1. Buffer[b] + j \in Memory
    BY Places
  <2>2. mem[Buffer[b] + j] = IF j < Held(c, k, i, b) THEN c.args[b][j + 1] ELSE Fill
    BY DEF Filled, i
  <2>3. CASE b = k /\ j = i
    <3>1. m[Buffer[b] + j] = Fill
      BY <2>1, <2>3
    <3>2. Held(c, k, i, b) = i
      BY <1>1, <2>3 DEF Held
    <3> QED
      BY <1>2, <2>3, <3>1, <3>2
  <2>4. CASE ~(b = k /\ j = i)
    <3>1. Buffer[b] + j # Buffer[k] + i
      BY <1>1, <1>2, <2>4, Places
    <3> QED
      BY <2>1, <2>2, <3>1
  <2> QED
    BY <2>3, <2>4
<1> QED
  BY <1>1, <1>3, <1>4 DEF Filled, i

\* A character of an argument.
LEMMA InsideChar ==
    ASSUME fw \in DOMAIN Commands, NEW c \in Commands[fw], Fits(fw, c), NEW o \in Object,
           NEW k \in 1..Len(c.args), NEW i \in 0..(Len(c.args[k]) - 1), Inside(c, k, i, o)
    PROVE  Inside(c, k, i + 1, Put(o, c.args[k][i + 1]))
<1> DEFINE ch == c.args[k][i + 1]
           w  == Write(o, ch)
           m  == [o.mem EXCEPT ![Buffer[k] + i] = ch]
<1>1. /\ k \in DOMAIN Buffer /\ Buffer[k] + i \in Memory \ {Top} /\ i + 1 < Room(fw)[k]
      /\ Filled(c, k, i + 1, m)
  BY FilledChar DEF Inside, Object
<1>2. o.argCnt = k /\ o.argIndex = i /\ o.cmd_chr = c.cmd /\ k # 0
  BY DEF Inside
<1>3. ch \in Char \ {SP} /\ Len(c.args[k]) \in Nat
  <2>1. i + 1 \in 1..Len(c.args[k])
    BY FitsFacts
  <2> QED
    BY <2>1, FitsFacts
<1>4. InArg(o) /\ At(o) = Buffer[k] + i
  BY <1>1, <1>2 DEF InArg, At
<1>5. w = [o EXCEPT !.mem[Buffer[k] + i] = ch]
  BY <1>1, <1>4 DEF Write
<1>6. w \in Object
  BY <1>3, WriteType DEF Byte
<1> HIDE DEF ch
<1>7. w.argCnt = k /\ w.argIndex = i /\ w.cmd_chr = c.cmd /\ w.mem = m
  BY <1>2, <1>5 DEF Object
<1> HIDE DEF w, m
<1>8. Put(o, ch) = [w EXCEPT !.argIndex = NextIndex(@)]
  BY <1>2, <1>3, <1>4 DEF Put, w
<1>9. NextIndex(i) = i + 1
  <2>1. i \in Nat /\ (Base => i + 1 < 256)
    BY <1>1, Buffers
  <2> QED
    BY <2>1 DEF NextIndex
<1>10. /\ Put(o, ch).argCnt = k /\ Put(o, ch).argIndex = i + 1
       /\ Put(o, ch).cmd_chr = c.cmd /\ Put(o, ch).mem = m
  BY <1>6, <1>7, <1>8, <1>9 DEF Object
<1> QED
  BY <1>1, <1>10 DEF Inside, ch

\* The end of an argument.
LEMMA InsideTerminate ==
    ASSUME fw \in DOMAIN Commands, NEW c \in Commands[fw], Fits(fw, c), NEW o \in Object,
           NEW k \in 0..Len(c.args), Inside(c, k, Size(c, k), o)
    PROVE  Inside(c, k, Size(c, k), Terminate(o))
<1>1. CASE Base \/ k = 0
  <2>1. Terminate(o) = o
    <3>1. k = 0 => ~InArg(o)
      BY Layout DEF Inside, InArg
    <3> QED
      BY <1>1, <3>1 DEF Terminate, Write
  <2> QED
    BY <2>1, Zenon
<1>2. CASE ~Base /\ k # 0
  <2> DEFINE i == Len(c.args[k])
             m == [o.mem EXCEPT ![Buffer[k] + i] = NUL]
  <2>1. k \in 1..Len(c.args) /\ Size(c, k) = i
    BY <1>2, FitsFacts DEF Size
  <2>2. /\ k \in DOMAIN Buffer /\ Buffer[k] + i \in Memory \ {Top}
        /\ Filled(c, k, i, [o.mem EXCEPT ![Buffer[k] + i] = Fill])
    BY <2>1, FilledEnd DEF Inside, Object
  <2>3. Filled(c, k, i, m)
    BY <1>2, <2>2 DEF Fill
  <2>4. o.argCnt = k /\ o.argIndex = i /\ o.cmd_chr = c.cmd
    BY <1>2, <2>1 DEF Inside
  <2>5. Terminate(o) = [o EXCEPT !.mem[Buffer[k] + i] = NUL]
    BY <1>2, <2>2, <2>4 DEF Terminate, Write, InArg, At
  <2> HIDE DEF i
  <2>6. /\ Terminate(o).argCnt = k /\ Terminate(o).argIndex = i
        /\ Terminate(o).cmd_chr = c.cmd /\ Terminate(o).mem = m
    BY <2>4, <2>5 DEF Object
  <2> QED
    BY <2>1, <2>3, <2>6 DEF Inside
<1> QED
  BY <1>1, <1>2

\* The space before the next argument.
LEMMA InsideSpace ==
    ASSUME fw \in DOMAIN Commands, NEW c \in Commands[fw], Fits(fw, c), NEW o \in Object,
           NEW k \in 0..(Len(c.args) - 1), Inside(c, k, Size(c, k), o)
    PROVE  Inside(c, k + 1, 0, Put(o, SP))
<1>1. /\ Len(c.args) \in 0..3 /\ DOMAIN c.args = 1..Len(c.args)
      /\ DOMAIN c.args \subseteq DOMAIN Buffer
  BY FitsFacts
<1>2. k \in 0..2 /\ k \in 0..Len(c.args) /\ k + 1 \in 1..Len(c.args)
  BY <1>1, BelowThree, Zenon
<1>3. k + 1 \in DOMAIN Buffer
  BY <1>1, <1>2
<1> DEFINE t == IF Base THEN o ELSE Terminate(o)
<1>4. t \in Object /\ Inside(c, k, Size(c, k), t)
  BY <1>2, InsideTerminate, TerminateType
<1> HIDE DEF t
<1>5. t.argCnt = k /\ t.cmd_chr = c.cmd /\ o.argCnt = k
  BY <1>4 DEF Inside
<1>6. Put(o, SP) = [t EXCEPT !.argCnt = k + 1, !.argIndex = 0]
  <2>1. Put(o, SP) = NextArg(o)
    BY DEF Put
  <2>2. CASE Base
    <3>1. (k + 1) % 256 = k + 1
      BY <1>2
    <3> QED
      BY <1>5, <2>1, <2>2, <3>1 DEF NextArg, t
  <2>3. CASE ~Base
    <3>1. k # 2
      BY <1>2, <1>3, <2>3, Layout
    <3> QED
      BY <1>5, <2>1, <2>3, <3>1 DEF NextArg, t
  <2> QED
    BY <2>2, <2>3
<1>7. /\ Put(o, SP).argCnt = k + 1 /\ Put(o, SP).argIndex = 0
      /\ Put(o, SP).cmd_chr = c.cmd /\ Put(o, SP).mem = t.mem
  BY <1>4, <1>5, <1>6 DEF Object
<1>8. Filled(c, k + 1, 0, t.mem)
  <2> SUFFICES ASSUME NEW b \in DOMAIN Buffer, NEW j \in 0..(Room(fw)[b] - 1)
               PROVE  t.mem[Buffer[b] + j]
                        = IF j < Held(c, k + 1, 0, b) THEN c.args[b][j + 1] ELSE Fill
    BY DEF Filled
  <2>1. t.mem[Buffer[b] + j] = IF j < Held(c, k, Size(c, k), b) THEN c.args[b][j + 1] ELSE Fill
    BY <1>4 DEF Inside, Filled
  <2>2. b \in Nat \ {0}
    BY Layout
  <2>3. Held(c, k + 1, 0, b) = Held(c, k, Size(c, k), b)
    BY <1>2, <2>2 DEF Held, Size
  <2> QED
    BY <2>1, <2>3
<1> QED
  BY <1>7, <1>8 DEF Inside

\* The command character.
LEMMA InsideFirst ==
    ASSUME fw \in DOMAIN Commands, NEW c \in Commands[fw], Fits(fw, c), NEW o \in Object, Clean(o)
    PROVE  Inside(c, 0, 0, Put(o, c.cmd))
<1>1. c.cmd # SP /\ o.argCnt = 0
  BY FitsFacts DEF Clean
<1>2. Put(o, c.cmd) = [o EXCEPT !.cmd_chr = c.cmd]
  BY <1>1 DEF Put
<1>3. /\ Put(o, c.cmd).argCnt = 0 /\ Put(o, c.cmd).cmd_chr = c.cmd
      /\ Put(o, c.cmd).mem = o.mem
  BY <1>1, <1>2 DEF Object
<1>4. Filled(c, 0, 0, o.mem)
  <2> SUFFICES ASSUME NEW b \in DOMAIN Buffer, NEW j \in 0..(Room(fw)[b] - 1)
               PROVE  o.mem[Buffer[b] + j]
                        = IF j < Held(c, 0, 0, b) THEN c.args[b][j + 1] ELSE Fill
    BY DEF Filled
  <2>1. Buffer[b] + j \in Memory \ {Top}
    BY Places
  <2>2. b \in Nat \ {0} /\ ~(j < Held(c, 0, 0, b))
    BY Layout DEF Held
  <2> QED
    BY <2>1, <2>2 DEF Clean
<1> QED
  BY <1>3, <1>4 DEF Inside

\* The next argument begins behind the space behind this one.
LEMMA StartNext ==
    ASSUME fw \in DOMAIN Commands, NEW c \in Commands[fw], Fits(fw, c),
           NEW k \in 0..(Len(c.args) - 1)
    PROVE  Start(c, k + 1) = Start(c, k) + Size(c, k) + 1
<1>1. /\ Len(c.args) \in 0..3 /\ DOMAIN c.args = 1..Len(c.args)
      /\ c.args \in Seq(Seq(Char))
  BY FitsFacts, TextType
<1>2. k \in 0..2 /\ k + 1 \in 1..Len(c.args)
  BY <1>1, BelowThree, Zenon
<1>3. ASSUME NEW j \in 1..Len(c.args)
      PROVE  Len(Arg(c, j)) = 1 + Len(c.args[j]) /\ Len(c.args[j]) \in Nat
  <2>1. j \in 1..3 /\ j \in DOMAIN c.args
    BY <1>1, WithinThree, Zenon
  <2>2. c.args[j] \in Seq(Char)
    BY <1>1, <2>1
  <2>3. Len(Arg(c, j)) = 1 + Len(c.args[j])
    BY <1>1, <2>1, ArgAt
  <2> QED
    BY <2>2, <2>3
<1>4. CASE k = 0
  BY <1>4 DEF Start, Size
<1>5. CASE k = 1
  <2>1. 1 \in 1..Len(c.args)
    BY <1>1, <1>2, <1>5
  <2>2. Len(Arg(c, 1)) = 1 + Len(c.args[1]) /\ Len(c.args[1]) \in Nat
    BY <1>3, <2>1
  <2> QED
    BY <2>2, <1>5 DEF Start, Size
<1>6. CASE k = 2
  <2>1. 1 \in 1..Len(c.args) /\ 2 \in 1..Len(c.args)
    BY <1>1, <1>2, <1>6
  <2>2. Len(Arg(c, 1)) = 1 + Len(c.args[1]) /\ Len(c.args[1]) \in Nat
    BY <1>3, <2>1
  <2>3. Len(Arg(c, 2)) = 1 + Len(c.args[2]) /\ Len(c.args[2]) \in Nat
    BY <1>3, <2>1
  <2>4. Start(c, 2) = 2 + Len(Arg(c, 1)) /\ Start(c, 3) = 2 + Len(Arg(c, 1)) + Len(Arg(c, 2))
        /\ Size(c, 2) = Len(c.args[2])
    BY DEF Start, Size
  <2>5. Start(c, 3) = Start(c, 2) + Size(c, 2) + 1
    BY <2>2, <2>3, <2>4, SMTT(30)
  <2> QED
    BY <2>5, <1>6
<1> QED
  BY <1>2, <1>4, <1>5, <1>6

\* The n-th character of the body is where the parser expects it.
LEMMA ParsedStep ==
    ASSUME fw \in DOMAIN Commands, NEW c \in Commands[fw], Fits(fw, c), NEW o \in Object,
           NEW n \in 0..(Len(Body(c)) - 1), Parsed(c, n, o)
    PROVE  Parsed(c, n + 1, Put(o, Body(c)[n + 1]))
<1> DEFINE A == Len(c.args)
<1>1. /\ A \in 0..3 /\ \A k \in 1..A : Len(c.args[k]) \in Nat
      /\ Len(Arg(c, 1)) \in Nat /\ Len(Arg(c, 2)) \in Nat
  BY FitsFacts, TextType
<1>2. CASE n = 0
  <2>1. Body(c)[n + 1] = c.cmd
    BY <1>2, BodyAt
  <2>2. Inside(c, 0, 0, Put(o, c.cmd))
    BY <1>2, InsideFirst DEF Parsed
  <2>3. n + 1 = Start(c, 0) + 0 /\ 0 \in 0..Size(c, 0) /\ 0 \in 0..A /\ n + 1 # 0
    BY <1>1, <1>2 DEF Start, Size
  <2> QED
    BY <2>1, <2>2, <2>3 DEF Parsed
<1>3. CASE n # 0
  <2>1. PICK k \in 0..A : \E i \in 0..Size(c, k) : n = Start(c, k) + i /\ Inside(c, k, i, o)
    BY <1>3 DEF Parsed
  <2>2. PICK i \in 0..Size(c, k) : n = Start(c, k) + i /\ Inside(c, k, i, o)
    BY <2>1
  <2>3. Start(c, k) \in Nat /\ Size(c, k) \in Nat
    BY <1>1 DEF Start, Size
  <2>4. CASE i < Size(c, k)
    <3>1. k \in 1..A /\ i \in 0..(Len(c.args[k]) - 1)
      BY <1>1, <2>3, <2>4 DEF Size
    <3>2. Body(c)[Start(c, k) + (i + 1)] = c.args[k][i + 1]
      BY <1>1, <3>1, BodyAt
    <3>3. Inside(c, k, i + 1, Put(o, c.args[k][i + 1]))
      BY <2>2, <3>1, InsideChar
    <3>4. n + 1 = Start(c, k) + (i + 1) /\ i + 1 \in 0..Size(c, k) /\ n + 1 # 0
      BY <2>2, <2>3, <2>4
    <3> QED
      BY <3>2, <3>3, <3>4 DEF Parsed
  <2>5. CASE i = Size(c, k) /\ k < A
    <3>1. k \in 0..(A - 1) /\ k + 1 \in 1..A
      BY <1>1, <2>5
    <3>2. Start(c, k + 1) = n + 1
      BY <2>2, <2>5, <3>1, StartNext
    <3>3. Body(c)[n + 1] = SP
      BY <3>1, <3>2, BodyAt
    <3>4. Inside(c, k + 1, 0, Put(o, SP))
      BY <2>2, <2>5, <3>1, InsideSpace
    <3>5. k + 1 \in 0..A /\ Size(c, k + 1) \in Nat /\ n + 1 # 0
      BY <1>1, <3>1, <2>2, <2>3, SMTT(30) DEF Size
    <3>6. n + 1 = Start(c, k + 1) + 0 /\ 0 \in 0..Size(c, k + 1)
      BY <3>2, <3>5, <2>2, <2>3
    <3> QED
      BY <3>3, <3>4, <3>5, <3>6 DEF Parsed
  <2>6. CASE i = Size(c, k) /\ k = A
    <3>1. n = Len(Body(c))
      BY <2>2, <2>6, BodyAt
    <3>2. Len(Body(c)) \in Nat
      BY TextType
    <3> QED
      BY <3>1, <3>2
  <2> QED
    BY <1>1, <2>2, <2>3, <2>4, <2>5, <2>6
<1> QED
  BY <1>2, <1>3

\* A whole command, in clean buffers.
LEMMA ParsedAll ==
    ASSUME fw \in DOMAIN Commands, NEW c \in Commands[fw], Fits(fw, c), NEW o \in Object, Clean(o)
    PROVE  Parsed(c, Len(Body(c)), Taken(o, Body(c)))
<1> DEFINE s == Body(c)
<1>1. s \in Seq(Char)
  BY TextType
<1> HIDE DEF s
<1>2. PICK t : /\ t[0] = o
               /\ \A n \in 1..Len(s) : t[n] = Put(t[n - 1], s[n])
               /\ Taken(o, s) = t[Len(s)]
  BY <1>1, TakenSteps
<1> DEFINE S == {n \in Nat : n <= Len(s) => t[n] \in Object /\ Parsed(c, n, t[n])}
<1>3. 0 \in S
  BY <1>2 DEF Parsed
<1>4. ASSUME NEW n \in Nat, n \in S
      PROVE  n + 1 \in S
  <2> SUFFICES ASSUME n + 1 <= Len(s) PROVE t[n + 1] \in Object /\ Parsed(c, n + 1, t[n + 1])
    OBVIOUS
  <2>1. t[n] \in Object /\ Parsed(c, n, t[n]) /\ n \in 0..(Len(s) - 1)
    BY <1>1, <1>4
  <2>2. t[n + 1] = Put(t[n], s[n + 1]) /\ s[n + 1] \in Char
    BY <1>1, <1>2
  <2>3. Parsed(c, n + 1, Put(t[n], s[n + 1]))
    BY <2>1, ParsedStep DEF s
  <2> QED
    BY <2>1, <2>2, <2>3, PutType
<1>5. Len(s) \in S
  <2> HIDE DEF S
  <2> QED
    BY <1>1, <1>3, <1>4, SetInduction
<1> QED
  BY <1>1, <1>2, <1>5 DEF s

\* The end of the text finds the parser behind the last argument.
LEMMA ParsedEnd ==
    ASSUME fw \in DOMAIN Commands, NEW c \in Commands[fw], Fits(fw, c), NEW o,
           Parsed(c, Len(Body(c)), o)
    PROVE  Inside(c, Len(c.args), Size(c, Len(c.args)), o)
<1> DEFINE A == Len(c.args)
<1>1. A \in 0..3 /\ \A k \in 0..A : Start(c, k) \in Nat /\ Size(c, k) \in Nat
  <2>1. A \in 0..3 /\ \A k \in 1..A : Len(c.args[k]) \in Nat
    BY FitsFacts
  <2>2. Len(Arg(c, 1)) \in Nat /\ Len(Arg(c, 2)) \in Nat
    BY TextType
  <2> QED
    BY <2>1, <2>2 DEF Start, Size
<1>2. Len(Body(c)) = Start(c, A) + Size(c, A)
  BY BodyAt
<1>3. Len(Body(c)) # 0
  <2>1. Start(c, A) # 0
    BY <1>1, TextType DEF Start
  <2> QED
    BY <1>1, <1>2, <2>1
<1>4. PICK k \in 0..A : \E i \in 0..Size(c, k) : /\ Len(Body(c)) = Start(c, k) + i
                                                 /\ Inside(c, k, i, o)
  BY <1>3 DEF Parsed
<1>5. PICK i \in 0..Size(c, k) : Len(Body(c)) = Start(c, k) + i /\ Inside(c, k, i, o)
  BY <1>4
<1>6. \A j \in 0..(A - 1) : Start(c, j + 1) = Start(c, j) + Size(c, j) + 1
  BY StartNext
<1>7. \A j \in 0..(A - 1) : Start(c, j) + Size(c, j) < Start(c, A)
  <2> HIDE DEF A
  <2>1. CASE A = 0 \/ A = 1
    BY <1>1, <1>6, <2>1
  <2>2. CASE A = 2
    BY <1>1, <1>6, <2>2
  <2>3. CASE A = 3
    <3>1. /\ Start(c, 1) = Start(c, 0) + Size(c, 0) + 1
          /\ Start(c, 2) = Start(c, 1) + Size(c, 1) + 1
          /\ Start(c, 3) = Start(c, 2) + Size(c, 2) + 1
      BY <1>6, <2>3
    <3>2. /\ Start(c, 0) \in Nat /\ Start(c, 1) \in Nat /\ Start(c, 2) \in Nat
          /\ Size(c, 0) \in Nat /\ Size(c, 1) \in Nat /\ Size(c, 2) \in Nat
      BY <1>1, <2>3
    <3>3. /\ Start(c, 0) + Size(c, 0) < Start(c, 3)
          /\ Start(c, 1) + Size(c, 1) < Start(c, 3)
          /\ Start(c, 2) + Size(c, 2) < Start(c, 3)
      BY <3>1, <3>2, SMTT(30)
    <3> QED
      BY <2>3, <3>3
  <2> QED
    BY <1>1, <2>1, <2>2, <2>3
<1>8. k = A
  <2>1. A \in Nat /\ Start(c, k) \in Nat /\ Size(c, k) \in Nat
        /\ Start(c, A) \in Nat /\ Size(c, A) \in Nat
    BY <1>1
  <2>2. ~(Start(c, k) + Size(c, k) < Start(c, A))
    BY <1>2, <1>5, <2>1
  <2>3. k \notin 0..(A - 1)
    BY <1>7, <2>2
  <2> QED
    BY <2>1, <2>3
<1>9. i = Size(c, A)
  BY <1>1, <1>2, <1>5, <1>8
<1> QED
  BY <1>5, <1>8, <1>9

\* The end of a command marks the end of its last argument, in the bridge.
LEMMA ParsedTerminate ==
    ASSUME fw \in DOMAIN Commands, NEW c \in Commands[fw], Fits(fw, c), NEW o \in Object,
           Parsed(c, Len(Body(c)), o)
    PROVE  Inside(c, Len(c.args), Size(c, Len(c.args)), Terminate(o))
<1>1. Inside(c, Len(c.args), Size(c, Len(c.args)), o)
  BY ParsedEnd
<1>2. Len(c.args) \in 0..Len(c.args)
  <2>1. Len(c.args) \in 0..3
    BY FitsFacts
  <2> QED
    BY <2>1
<1> QED
  BY <1>1, <1>2, InsideTerminate

-----------------------------------------------------------------------------
(* What atoi reads of it.                                                  *)

\* Every byte from a buffer on, but the one behind them all, is in a buffer.
LEMMA Covered ==
    ASSUME fw \in DOMAIN Commands, Base, NEW b \in DOMAIN Buffer, NEW x \in Buffer[b]..(Top - 1)
    PROVE  \E d \in DOMAIN Buffer : \E j \in 0..(Room(fw)[d] - 1) : d >= b /\ x = Buffer[d] + j
<1>1. Top = Len1 + 2 * Len2 /\ Buffer = <<0, Len1, Len1 + Len2>>
      /\ Room(fw) = <<Len1, Len2, Len2>>
  BY DEF Top, Buffer, Room, Base
<1>2. Len1 \in Nat \ {0} /\ Len2 \in Nat \ {0}
  BY LinkAssumption
<1>3. b \in 1..3 /\ x \in Nat /\ x >= Buffer[b] /\ x < Len1 + 2 * Len2
  BY <1>1, <1>2
<1>4. /\ Buffer[1] = 0 /\ Buffer[2] = Len1 /\ Buffer[3] = Len1 + Len2
      /\ Room(fw)[1] = Len1 /\ Room(fw)[2] = Len2 /\ Room(fw)[3] = Len2
      /\ 1 \in DOMAIN Buffer /\ 2 \in DOMAIN Buffer /\ 3 \in DOMAIN Buffer
  BY <1>1
<1>5. CASE x < Len1
  <2>1. b = 1 /\ x = Buffer[1] + x /\ x \in 0..(Room(fw)[1] - 1)
    BY <1>2, <1>3, <1>4, <1>5
  <2> QED
    BY <1>4, <2>1
<1>6. CASE x >= Len1 /\ x < Len1 + Len2
  <2>1. 2 >= b /\ x = Buffer[2] + (x - Len1) /\ x - Len1 \in 0..(Room(fw)[2] - 1)
    BY <1>2, <1>3, <1>4, <1>6
  <2> QED
    BY <1>4, <2>1
<1>7. CASE x >= Len1 + Len2
  <2>1. 3 >= b /\ x = Buffer[3] + (x - (Len1 + Len2))
        /\ x - (Len1 + Len2) \in 0..(Room(fw)[3] - 1)
    BY <1>2, <1>3, <1>4, <1>7
  <2> QED
    BY <1>4, <2>1
<1> QED
  BY <1>2, <1>3, <1>5, <1>6, <1>7

\* A number that stands in a buffer, with an end behind it, is read as it is.
LEMMA AtoiThere ==
    ASSUME fw \in DOMAIN Commands, NEW mem \in [Memory -> Byte], NEW p \in Nat,
           NEW s \in Seq(Char), Len(s) > 0, p + Len(s) <= Top,
           mem[p + Len(s)] = Fill,
           \A i \in 1..Len(s) : /\ mem[p + (i - 1)] = s[i]
                                /\ s[i] \in Digit \/ (i = 1 /\ s[i] = "-")
    PROVE  Atoi(mem, p) = s
<1> DEFINE n    == Len(s)
           from == Ends(mem, p, {CR})
           sign == IF from <= Top /\ mem[from] = "-" THEN from + 1 ELSE from
           to   == Ends(mem, sign, Digit)
           m    == [x \in 1..Top + 1 |-> mem[x - 1]]
<1>1. Top \in Nat /\ n \in Nat /\ n > 0 /\ p + n <= Top
  BY Layout
<1>2. Atoi(mem, p) = SubSeq(m, from + 1, to)
  BY DEF Atoi
<1>3. from = p
  <2>1. p \in 0..(Top + 1) /\ p \in p..(Top + 1)
    BY <1>1
  <2>2. mem[p] \notin {CR}
    <3>1. 1 \in 1..n /\ p + (1 - 1) = p
      BY <1>1
    <3>2. mem[p] = s[1] /\ (s[1] \in Digit \/ s[1] = "-")
      BY <3>1
    <3> QED
      BY <3>2 DEF Digit, CR
  <2>3. \A j \in p..(p - 1) : mem[j] \in {CR}
    OBVIOUS
  <2> QED
    BY <2>1, <2>2, <2>3, EndsAt
<1> HIDE DEF n, from
<1>4. sign \in p..(p + 1) /\ (sign = p => s[1] \in Digit)
  <2>1. 1 \in 1..n /\ p + (1 - 1) = p
    BY <1>1
  <2>2. mem[p] = s[1] /\ (s[1] \in Digit \/ s[1] = "-")
    BY <2>1 DEF n
  <2> QED
    BY <1>1, <1>3, <2>2
<1>5. to = p + n
  <2> HIDE DEF sign
  <2>1. sign \in 0..(Top + 1) /\ p + n \in sign..(Top + 1)
    BY <1>1, <1>4
  <2>2. mem[p + n] \notin Digit
    BY LinkAssumption DEF n, Fill, Digit, CR, NUL
  <2>3. \A j \in sign..((p + n) - 1) : mem[j] \in Digit
    <3> SUFFICES ASSUME NEW j \in sign..((p + n) - 1) PROVE mem[j] \in Digit
      OBVIOUS
    <3>1. (j - p) + 1 \in 1..n /\ p + (((j - p) + 1) - 1) = j
      BY <1>1, <1>4
    <3>2. mem[j] = s[(j - p) + 1]
          /\ (s[(j - p) + 1] \in Digit \/ ((j - p) + 1 = 1 /\ s[(j - p) + 1] = "-"))
      BY <3>1 DEF n
    <3>3. (j - p) + 1 = 1 => s[1] \in Digit
      BY <1>1, <1>4
    <3> QED
      BY <3>2, <3>3
  <2> QED
    BY <2>1, <2>2, <2>3, EndsAt
<1> HIDE DEF sign, to
<1>6. m \in Seq(Byte) /\ Len(m) = Top + 1 /\ \A x \in 1..(Top + 1) : m[x] = mem[x - 1]
  BY <1>1 DEF Memory
<1> HIDE DEF m
<1>7. SubSeq(m, p + 1, p + n) \in Seq(Byte) /\ Len(SubSeq(m, p + 1, p + n)) = n
      /\ \A i \in 1..n : SubSeq(m, p + 1, p + n)[i] = m[p + i]
  BY <1>1, <1>6
<1>8. \A i \in 1..n : m[p + i] = s[i]
  <2> SUFFICES ASSUME NEW i \in 1..n PROVE m[p + i] = s[i]
    OBVIOUS
  <2>1. p + i \in 1..(Top + 1) /\ (p + i) - 1 = p + (i - 1)
    BY <1>1
  <2>2. mem[p + (i - 1)] = s[i]
    BY DEF n
  <2> QED
    BY <1>6, <2>1, <2>2
<1>9. SubSeq(m, p + 1, p + n) = s
  BY <1>1, <1>7, <1>8 DEF n
<1> QED
  BY <1>2, <1>3, <1>5, <1>9

\* Where a run of fillings of the base ends with NUL there is no number.
LEMMA AtoiNone ==
    ASSUME fw \in DOMAIN Commands, NEW mem \in [Memory -> Byte], NEW p \in Nat, NEW q \in p..Top,
           mem[q] = NUL, \A j \in p..(q - 1) : mem[j] = CR
    PROVE  Atoi(mem, p) = <<>>
<1> DEFINE m == [x \in 1..Top + 1 |-> mem[x - 1]]
<1>1. Top \in Nat /\ p \in 0..(Top + 1) /\ q \in p..(Top + 1) /\ q \in Nat /\ q <= Top
      /\ q \in 0..(Top + 1) /\ q \in q..(Top + 1)
  BY Layout
<1>2. Ends(mem, p, {CR}) = q
  <2>1. mem[q] \notin {CR}
    BY DEF NUL, CR
  <2>2. \A j \in p..(q - 1) : mem[j] \in {CR}
    OBVIOUS
  <2> QED
    BY <1>1, <2>1, <2>2, EndsAt
<1>3. mem[q] # "-"
  BY DEF NUL
<1>4. Ends(mem, q, Digit) = q
  <2>1. mem[q] \notin Digit
    BY DEF NUL, Digit
  <2>2. \A j \in q..(q - 1) : mem[j] \in Digit
    BY <1>1
  <2> QED
    BY <1>1, <2>1, <2>2, EndsAt
<1>5. Atoi(mem, p) = SubSeq(m, q + 1, q)
  BY <1>2, <1>3, <1>4 DEF Atoi
<1>6. m \in Seq(Byte)
  BY <1>1 DEF Memory
<1> HIDE DEF m
<1>7. SubSeq(m, q + 1, q) = <<>>
  BY <1>1, <1>6
<1> QED
  BY <1>5, <1>7

\* What stands in the buffers when a command was taken apart.
LEMMA HeldAll ==
    ASSUME fw \in DOMAIN Commands, NEW c \in Commands[fw], Fits(fw, c), NEW o \in Object,
           Inside(c, Len(c.args), Size(c, Len(c.args)), o),
           NEW b \in DOMAIN Buffer, NEW j \in 0..(Room(fw)[b] - 1)
    PROVE  o.mem[Buffer[b] + j] = IF b \in DOMAIN c.args /\ j < Len(c.args[b])
                                  THEN c.args[b][j + 1] ELSE Fill
<1> DEFINE A == Len(c.args)
<1>1. A \in 0..3 /\ DOMAIN c.args = 1..A /\ DOMAIN Buffer \subseteq 1..3
  BY FitsFacts, Layout
<1>2. o.mem[Buffer[b] + j] = IF j < Held(c, A, Size(c, A), b) THEN c.args[b][j + 1] ELSE Fill
  BY DEF Inside, Filled
<1>3. b \in Nat \ {0} /\ j >= 0 /\ j \in Nat
  BY <1>1, Buffers
<1>4. Held(c, A, Size(c, A), b) = IF b \in DOMAIN c.args THEN Len(c.args[b]) ELSE 0
  BY <1>1, <1>3 DEF Held, Size
<1> QED
  BY <1>2, <1>3, <1>4

\* The numbers of a command taken apart are the arguments it was sent with.
LEMMA NumbersOf ==
    ASSUME fw \in DOMAIN Commands, NEW c \in Commands[fw], Fits(fw, c), NEW o \in Object,
           Inside(c, Len(c.args), Size(c, Len(c.args)), o), Base => o.mem[Top] = NUL, NEW l,
           c.cmd # UPDATE_PID
    PROVE  Numbers(o) = Meaning(l, c).args
<1> DEFINE A == Len(c.args)
<1>1. A \in 0..3 /\ DOMAIN c.args = 1..A /\ DOMAIN c.args \subseteq DOMAIN Buffer
  BY FitsFacts
<1>2. o.mem \in [Memory -> Byte] /\ Top \in Nat /\ DOMAIN Buffer \subseteq 1..3
  BY Layout DEF Object
<1>3. ASSUME NEW b \in DOMAIN Buffer, NEW j \in 0..(Room(fw)[b] - 1)
      PROVE  o.mem[Buffer[b] + j] = IF b \in DOMAIN c.args /\ j < Len(c.args[b])
                                    THEN c.args[b][j + 1] ELSE Fill
  BY HeldAll
<1>4. ASSUME NEW b \in DOMAIN c.args
      PROVE  Atoi(o.mem, Buffer[b]) = c.args[b]
  <2> DEFINE s == c.args[b]
             p == Buffer[b]
  <2>1. s \in Seq(Char) /\ Len(s) \in 1..(Room(fw)[b] - 1)
        /\ \A i \in 1..Len(s) : s[i] \in Digit \/ (i = 1 /\ s[i] = "-")
    BY <1>1, FitsFacts
  <2>2. p \in Nat /\ Room(fw)[b] \in Nat /\ p + Room(fw)[b] \in 1..Top
    BY <1>1, Buffers
  <2> HIDE DEF s, p
  <2>3. Len(s) > 0 /\ p + Len(s) <= Top /\ Len(s) \in 0..(Room(fw)[b] - 1)
    BY <1>2, <2>1, <2>2
  <2>4. o.mem[p + Len(s)] = Fill
    <3>1. ~(Len(s) < Len(s))
      BY <2>1
    <3> QED
      BY <1>1, <1>3, <2>3, <3>1 DEF p, s
  <2>5. ASSUME NEW i \in 1..Len(s)
        PROVE  o.mem[p + (i - 1)] = s[i]
    <3>1. i - 1 \in 0..(Room(fw)[b] - 1) /\ i - 1 < Len(s) /\ (i - 1) + 1 = i
      BY <2>1, <2>2
    <3> QED
      BY <1>1, <1>3, <3>1 DEF p, s
  <2>6. Atoi(o.mem, p) = s
    BY <1>2, <2>1, <2>2, <2>3, <2>4, <2>5, AtoiThere
  <2> QED
    BY <2>6 DEF p, s
<1>5. ASSUME NEW b \in DOMAIN Buffer \ DOMAIN c.args
      PROVE  Atoi(o.mem, Buffer[b]) = <<>>
  <2> DEFINE p == Buffer[b]
  <2>1. p \in Nat /\ Room(fw)[b] \in Nat \ {0} /\ p + Room(fw)[b] \in 1..Top
    BY Buffers
  <2>2. CASE Base
    <3>1. ASSUME NEW x \in p..(Top - 1)
          PROVE  o.mem[x] = CR
      <4>1. PICK d \in DOMAIN Buffer : \E j \in 0..(Room(fw)[d] - 1) : d >= b /\ x = Buffer[d] + j
        BY <2>2, Covered
      <4>2. PICK j \in 0..(Room(fw)[d] - 1) : d >= b /\ x = Buffer[d] + j
        BY <4>1
      <4>3. d \notin DOMAIN c.args
        BY <1>1, <1>2, <4>2
      <4> QED
        BY <1>3, <2>2, <4>2, <4>3 DEF Fill
    <3>2. Top \in p..Top
      BY <1>2, <2>1
    <3> QED
      BY <1>2, <2>1, <2>2, <3>1, <3>2, AtoiNone
  <2>3. CASE ~Base
    <3>1. 0 \in 0..(Room(fw)[b] - 1) /\ p + 0 = p /\ p \in p..Top
      BY <1>2, <2>1
    <3>2. o.mem[p] = NUL
      BY <1>3, <2>3, <3>1 DEF Fill
    <3>3. \A j \in p..(p - 1) : o.mem[j] = CR
      BY <2>1
    <3> QED
      BY <1>2, <2>1, <3>1, <3>2, <3>3, AtoiNone
  <2> QED
    BY <2>2, <2>3
<1>6. ASSUME NEW n \in 1..3
      PROVE  (IF n \in DOMAIN Buffer THEN Atoi(o.mem, Buffer[n]) ELSE <<>>)
               = IF n \in DOMAIN c.args THEN c.args[n] ELSE <<>>
  BY <1>1, <1>4, <1>5
<1> QED
  BY <1>6 DEF Numbers, Meaning

\* The gains stand where the buffers begin, with nothing but filling behind them.
LEMMA GainsThere ==
    ASSUME fw \in DOMAIN Commands, NEW mem \in [Memory -> Byte],
           NEW s \in Seq(Char), NEW q \in Nat, Len(s) <= q, q <= Top, mem[q] = NUL,
           \A i \in 1..Len(s) : mem[i - 1] = s[i] /\ s[i] # CR,
           \A j \in Len(s)..(q - 1) : mem[j] = CR
    PROVE  Gains(mem) = s
<1> DEFINE nul == Ends(mem, 0, Char)
           to  == CHOOSE b \in 0..nul : /\ b = 0 \/ mem[b - 1] # CR
                                        /\ \A j \in b..(nul - 1) : mem[j] = CR
           m   == [x \in 1..Top + 1 |-> mem[x - 1]]
           n   == Len(s)
<1>1. Top \in Nat /\ n \in Nat /\ n <= q /\ q <= Top /\ q \in Nat
  BY Layout
<1>2. Gains(mem) = SubSeq(m, 1, to)
  BY DEF Gains
<1>3. nul = q
  <2>1. 0 \in 0..(Top + 1) /\ q \in 0..(Top + 1)
    BY <1>1
  <2>2. mem[q] \notin Char
    BY LinkAssumption
  <2>3. ASSUME NEW j \in 0..(q - 1)
        PROVE  mem[j] \in Char
    <3>1. CASE j < n
      <4>1. j + 1 \in 1..Len(s) /\ (j + 1) - 1 = j
        BY <1>1, <3>1
      <4>2. mem[j] = s[j + 1] /\ s[j + 1] \in Char
        BY <4>1
      <4> QED
        BY <4>2
    <3>2. CASE ~(j < n)
      <4>1. j \in Len(s)..(q - 1)
        BY <1>1, <3>2
      <4> QED
        BY <4>1, LinkAssumption
    <3> QED
      BY <3>1, <3>2
  <2> QED
    BY <2>1, <2>2, <2>3, EndsAt
<1> HIDE DEF nul
<1>4. to = n
  <2>1. n \in 0..nul /\ (n = 0 \/ mem[n - 1] # CR) /\ \A j \in n..(nul - 1) : mem[j] = CR
    <3>1. n # 0 => n \in 1..Len(s)
      BY <1>1
    <3> QED
      BY <1>1, <1>3, <3>1
  <2>2. ASSUME NEW b \in 0..nul, b = 0 \/ mem[b - 1] # CR, \A j \in b..(nul - 1) : mem[j] = CR
        PROVE  b = n
    <3>1. ~(b < n)
      <4> SUFFICES ASSUME b < n PROVE FALSE
        OBVIOUS
      <4>1. n - 1 \in b..(nul - 1) /\ n \in 1..Len(s)
        BY <1>1, <1>3
      <4> QED
        BY <2>2, <4>1
    <3>2. ~(n < b)
      <4> SUFFICES ASSUME n < b PROVE FALSE
        OBVIOUS
      <4>1. b - 1 \in Len(s)..(q - 1) /\ b # 0
        BY <1>1, <1>3
      <4> QED
        BY <2>2, <4>1
    <3> QED
      BY <1>1, <1>3, <3>1, <3>2
  <2> HIDE DEF n
  <2> QED
    BY <2>1, <2>2
<1> HIDE DEF to
<1>5. m \in Seq(Byte) /\ Len(m) = Top + 1 /\ \A x \in 1..(Top + 1) : m[x] = mem[x - 1]
  BY <1>1 DEF Memory
<1>6. \A i \in 1..n : i \in 1..(Top + 1) /\ mem[i - 1] = s[i]
  BY <1>1
<1> HIDE DEF m
<1>7. /\ SubSeq(m, 1, n) \in Seq(Byte) /\ Len(SubSeq(m, 1, n)) = n
      /\ \A i \in 1..n : SubSeq(m, 1, n)[i] = m[i]
  BY <1>1, <1>5
<1>8. SubSeq(m, 1, n) = s
  BY <1>5, <1>6, <1>7
<1> QED
  BY <1>2, <1>4, <1>8

\* The gains of 'u' are the text it was sent with.
LEMMA GainsOf ==
    ASSUME fw \in DOMAIN Commands, NEW c \in Commands[fw], Fits(fw, c), NEW o \in Object,
           Inside(c, Len(c.args), Size(c, Len(c.args)), o), Base => o.mem[Top] = NUL,
           c.cmd = UPDATE_PID
    PROVE  Gains(o.mem) = IF 1 \in DOMAIN c.args THEN c.args[1] ELSE <<>>
<1> DEFINE s == IF 1 \in DOMAIN c.args THEN c.args[1] ELSE <<>>
           n == Len(s)
<1>1. /\ DOMAIN c.args \subseteq {1} /\ 1 \in DOMAIN Buffer /\ Buffer[1] = 0
      /\ o.mem \in [Memory -> Byte] /\ Top \in Nat /\ Room(fw)[1] \in 1..Top
  <2>1. DOMAIN c.args \subseteq {1}
    BY FitsFacts
  <2>2. 1 \in DOMAIN Buffer /\ Buffer[1] = 0
    BY Layout DEF Buffer
  <2>3. Top \in Nat /\ o.mem \in [Memory -> Byte]
    BY Layout DEF Object
  <2>4. Room(fw)[1] \in 1..Top
    <3>1. Room(fw)[1] \in Nat \ {0} /\ Buffer[1] + Room(fw)[1] \in 1..Top
      BY <2>2, Buffers
    <3> QED
      BY <2>2, <2>3, <3>1
  <2> QED
    BY <2>1, <2>2, <2>3, <2>4
<1>2. /\ s \in Seq(Char) /\ Len(s) \in 0..(Room(fw)[1] - 1)
      /\ \A i \in 1..Len(s) : s[i] # CR
  <2>1. CASE 1 \in DOMAIN c.args
    <3>1. 1 \in 1..Len(c.args)
      BY <2>1, FitsFacts
    <3>2. /\ c.args[1] \in Seq(Char) /\ Len(c.args[1]) \in 1..(Room(fw)[1] - 1)
          /\ \A i \in 1..Len(c.args[1]) : c.args[1][i] \in Char \ {SP, CR, NUL}
      BY <3>1, FitsFacts
    <3>3. s = c.args[1]
      BY <2>1
    <3> HIDE DEF s
    <3> QED
      BY <1>1, <3>2, <3>3
  <2>2. CASE 1 \notin DOMAIN c.args
    <3>1. s = <<>>
      BY <2>2
    <3> HIDE DEF s
    <3> QED
      BY <1>1, <3>1
  <2> QED
    BY <2>1, <2>2
<1>3. ASSUME NEW j \in 0..(Room(fw)[1] - 1)
      PROVE  o.mem[j] = IF j < Len(s) THEN s[j + 1] ELSE Fill
  <2>1. Buffer[1] + j = j
    BY <1>1
  <2>2. o.mem[j] = IF 1 \in DOMAIN c.args /\ j < Len(c.args[1]) THEN c.args[1][j + 1] ELSE Fill
    BY <1>1, <2>1, HeldAll
  <2>3. Len(<<>>) = 0 /\ ~(j < 0)
    OBVIOUS
  <2> QED
    BY <2>2, <2>3
<1> HIDE DEF s
<1>4. \A i \in 1..Len(s) : o.mem[i - 1] = s[i] /\ s[i] # CR
  <2> SUFFICES ASSUME NEW i \in 1..Len(s) PROVE o.mem[i - 1] = s[i] /\ s[i] # CR
    OBVIOUS
  <2>1. i - 1 \in 0..(Room(fw)[1] - 1) /\ i - 1 < Len(s) /\ (i - 1) + 1 = i
    BY <1>1, <1>2
  <2> QED
    BY <1>2, <1>3, <2>1
<1>5. CASE Base
  <2>1. Fill = CR /\ o.mem[Top] = NUL
    BY <1>5 DEF Fill
  <2>2. ASSUME NEW x \in Len(s)..(Top - 1)
        PROVE  o.mem[x] = CR
    <3>1. x \in Buffer[1]..(Top - 1)
      BY <1>1, <1>2
    <3>2. PICK d \in DOMAIN Buffer : \E j \in 0..(Room(fw)[d] - 1) : x = Buffer[d] + j
      BY <1>1, <1>5, <3>1, Covered
    <3>3. PICK j \in 0..(Room(fw)[d] - 1) : x = Buffer[d] + j
      BY <3>2
    <3>4. CASE d = 1
      <4>1. x = j /\ ~(j < Len(s))
        BY <1>1, <1>2, <3>3, <3>4
      <4> QED
        BY <1>3, <2>1, <3>3, <3>4, <4>1
    <3>5. CASE d # 1
      <4>1. d \notin DOMAIN c.args
        BY <1>1, <3>5
      <4> QED
        BY <2>1, <3>3, <4>1, HeldAll
    <3> QED
      BY <3>4, <3>5
  <2>3. Top \in Nat /\ Len(s) <= Top /\ Top <= Top
    BY <1>1, <1>2
  <2> QED
    BY <1>1, <1>2, <1>4, <2>1, <2>2, <2>3, GainsThere DEF s
<1>6. CASE ~Base
  <2>1. Fill = NUL /\ Len(s) \in Nat /\ Len(s) <= Len(s) /\ Len(s) <= Top
    BY <1>1, <1>2, <1>6 DEF Fill
  <2>2. o.mem[Len(s)] = NUL
    BY <1>2, <1>3, <2>1
  <2>3. \A j \in Len(s)..(Len(s) - 1) : o.mem[j] = CR
    BY <2>1
  <2> QED
    BY <1>1, <1>2, <1>4, <2>1, <2>2, <2>3, GainsThere DEF s
<1> QED
  BY <1>5, <1>6

\* The arguments of a command taken apart are the arguments it was sent with.
LEMMA ArgumentsOf ==
    ASSUME fw \in DOMAIN Commands, NEW c \in Commands[fw], Fits(fw, c), NEW o \in Object,
           Inside(c, Len(c.args), Size(c, Len(c.args)), o), Base => o.mem[Top] = NUL, NEW l
    PROVE  Arguments(c.cmd, o.mem, Converted(o)) = Meaning(l, c).args
<1>1. CASE c.cmd # UPDATE_PID
  <2>1. Numbers(o) = Meaning(l, c).args
    BY <1>1, NumbersOf
  <2>2. Converted(o) = Numbers(o)
    BY <1>1 DEF Converted, Inside
  <2> QED
    BY <1>1, <2>1, <2>2 DEF Arguments
<1>2. CASE c.cmd = UPDATE_PID
  <2> DEFINE s == IF 1 \in DOMAIN c.args THEN c.args[1] ELSE <<>>
  <2>1. Gains(o.mem) = s
    BY <1>2, GainsOf
  <2>2. 2 \notin DOMAIN c.args /\ 3 \notin DOMAIN c.args
    <3>1. DOMAIN c.args \subseteq {1}
      BY <1>2, FitsFacts
    <3> QED
      BY <3>1
  <2>3. Meaning(l, c).args = [n \in 1..3 |-> IF n \in DOMAIN c.args THEN c.args[n] ELSE <<>>]
    BY DEF Meaning
  <2>4. Meaning(l, c).args = [n \in 1..3 |-> IF n = 1 THEN s ELSE <<>>]
    BY <2>2, <2>3
  <2>5. Arguments(c.cmd, o.mem, Converted(o)) = <<s, <<>>, <<>>>>
    BY <1>2, <2>1 DEF Arguments
  <2> HIDE DEF s
  <2> QED
    BY <2>4, <2>5
<1> QED
  BY <1>1, <1>2

-----------------------------------------------------------------------------
(* A serial command that arrives whole is run as it was sent.              *)

\* The text ends with CR, and nothing else in it is one.
LEMMA TextAt ==
    ASSUME fw \in DOMAIN Commands, NEW c \in Commands[fw], Fits(fw, c)
    PROVE  /\ Len(Body(c)) \in Nat \ {0} /\ Len(Text(c)) = Len(Body(c)) + 1
           /\ \A i \in 1..Len(Body(c)) : Text(c)[i] = Body(c)[i]
           /\ Text(c)[Len(Text(c))] = CR /\ Text(c)[1] = c.cmd
           /\ Text(c) # Garbled /\ Text(c) # <<>>
<1> DEFINE w == Body(c)
           t == Text(c)
<1>1. w \in Seq(Char) /\ t = Append(w, CR) /\ CR \in Char
  BY TextType, LinkAssumption DEF Text
<1>2. Len(w) # 0 /\ w[1] = c.cmd
  <2>1. Len(w) = Start(c, Len(c.args)) + Size(c, Len(c.args)) /\ w[1] = c.cmd
    BY BodyAt
  <2>2. Len(c.args) \in 0..3 /\ \A k \in 1..Len(c.args) : Len(c.args[k]) \in Nat
    BY FitsFacts
  <2>3. Start(c, Len(c.args)) \in Nat \ {0} /\ Size(c, Len(c.args)) \in Nat
    BY <2>2, TextType DEF Start, Size
  <2> QED
    BY <2>1, <2>3
<1>3. c.cmd # "?"
  BY FitsFacts
<1> HIDE DEF w, t
<1>4. /\ Len(t) = Len(w) + 1 /\ t[Len(t)] = CR /\ Len(w) \in Nat
      /\ \A i \in 1..Len(w) : t[i] = w[i]
  BY <1>1
<1>5. t[1] = c.cmd /\ Len(t) # 0
  BY <1>2, <1>4
<1>6. t # Garbled /\ t # <<>>
  BY <1>3, <1>5 DEF Garbled
<1> QED
  BY <1>2, <1>4, <1>5, <1>6 DEF w, t

\* What was heard is the beginning of c, but not all of it.
Begun(c) == Len(heard) < Len(Text(c)) /\ \A i \in 1..Len(heard) : heard[i] = Text(c)[i]

\* What stands in the object when the main program has heard a command.
ParseInv ==
    /\ \A c \in Commands[fw] :
         /\ pc = "loop" => heard # Text(c) /\ (Begun(c) => Parsed(c, Len(heard), obj))
         /\ pc = "args" /\ heard = Text(c) =>
               Inside(c, Len(c.args), Size(c, Len(c.args)), obj)
         /\ pc \in {"clear", "switch", "act"} /\ heard = Text(c) =>
               /\ obj.cmd_chr = c.cmd
               /\ ~Overrun => Arguments(c.cmd, obj.mem, obj.arg) = Meaning("serial", c).args
         /\ pc = "act" /\ heard = Text(c) => sel = c.cmd
    /\ pc = "reset" => heard = <<>>

\* A step that keeps the firmware keeps what the names below mean.
LEMMA ParsePrimed ==
    ASSUME fw' = fw, NEW c
    PROVE  /\ Parsed(c, Len(heard), obj)' <=> Parsed(c, Len(heard'), obj')
           /\ Inside(c, Len(c.args), Size(c, Len(c.args)), obj)'
                 <=> Inside(c, Len(c.args), Size(c, Len(c.args)), obj')
           /\ Begun(c)' <=> /\ Len(heard') < Len(Text(c))
                            /\ \A i \in 1..Len(heard') : heard'[i] = Text(c)[i]
           /\ Overrun' <=> Base /\ obj'.mem[Top] # NUL
<1>1. /\ Base' = Base /\ Fill' = Fill /\ Top' = Top /\ Memory' = Memory
      /\ Buffer' = Buffer /\ Room(fw)' = Room(fw)
  BY SameFirmware DEF Room
<1> QED
  BY <1>1 DEF Parsed, Inside, Filled, Clean, Begun, Overrun

\* Nor where arguments stand.
LEMMA ArgumentsPrimed ==
    ASSUME fw' = fw, NEW ch
    PROVE  Arguments(ch, obj.mem, obj.arg)' = Arguments(ch, obj'.mem, obj'.arg)
<1>1. Top' = Top
  BY SameFirmware
<1> QED
  BY <1>1 DEF Arguments, Gains, Ends

\* What was run over stays run over.
LEMMA OverrunStays ==
    ASSUME TypeOK, [Next]_vars, ~Overrun'
    PROVE  ~Overrun
<1> USE DEF TypeOK
<1>1. fw' = fw
  BY DEF Next, Main, SerialSend, BusSend, Arrive, BusRequest, Read, Args, Clear, Switch, Act,
         ResetParam, host, vars
<1>2. ~Base \/ obj'.mem[Top] = NUL
  BY <1>1, ParsePrimed
<1> SUFFICES ASSUME Base, obj.mem[Top] # NUL PROVE obj'.mem[Top] # NUL
  BY <1>2 DEF Overrun
<1>3. ASSUME NEW c \in Commands[fw], BusSend(c)
      PROVE  obj'.mem[Top] # NUL
  <2> DEFINE o == Taken(obj, Body(c))
             r == Reset(o)
             g == Converted(o)
  <2>1. o \in Object /\ o.mem[Top] # NUL
    BY TakenType, TextType
  <2>2. r \in Object /\ r.mem[Top] # NUL
    BY <2>1, ResetType
  <2>3. obj' = [r EXCEPT !.arg = g]
    BY <1>3 DEF BusSend
  <2> HIDE DEF r, g
  <2> QED
    BY <2>2, <2>3 DEF Object
<1>4. ASSUME NEW c \in Commands[fw], SerialSend(c)
      PROVE  obj'.mem[Top] # NUL
  BY <1>4 DEF SerialSend
<1>5. CASE Read
  <2>1. Head(rx) \in Char
    BY <1>5 DEF Read
  <2> QED
    BY <1>5, <2>1, PutType, TerminateType DEF Read
<1>6. CASE Args
  <2> DEFINE g == Converted(obj)
  <2>1. obj' = [obj EXCEPT !.arg = g]
    BY <1>6 DEF Args
  <2> HIDE DEF g
  <2> QED
    BY <2>1 DEF Object
<1>7. CASE ResetParam
  BY <1>7, ResetType DEF ResetParam
<1>8. CASE Arrive \/ BusRequest \/ Clear \/ Switch \/ Act \/ UNCHANGED vars
  BY <1>8 DEF Arrive, BusRequest, Clear, Switch, Act, vars
<1> QED
  BY <1>3, <1>4, <1>5, <1>6, <1>7, <1>8 DEF Next, Main

\* Nothing is heard at first, and the buffers are clean.
LEMMA ParseInit == TypeOK /\ FittingCommands /\ Init => ParseInv
<1> SUFFICES ASSUME TypeOK, FittingCommands, Init PROVE ParseInv
  OBVIOUS
<1>1. fw \in DOMAIN Commands /\ pc = "loop" /\ heard = <<>>
  BY DEF Init
<1>2. Clean(obj)
  BY <1>1 DEF TypeOK, Clean
<1>3. ASSUME NEW c \in Commands[fw]
      PROVE  heard # Text(c) /\ Parsed(c, Len(heard), obj)
  <2>1. Fits(fw, c)
    BY <1>1 DEF FittingCommands
  <2>2. Len(heard) = 0
    BY <1>1
  <2> QED
    BY <1>1, <1>2, <2>1, <2>2, TextAt DEF Parsed
<1> QED
  BY <1>1, <1>3 DEF ParseInv

\* The main program takes a character.
LEMMA ParseRead ==
    ASSUME TypeOK, FittingCommands, ParseInv, Read
    PROVE  ParseInv'
<1> DEFINE ch == Head(rx)
           so == Append(heard, ch)
<1>1. /\ pc = "loop" /\ fw' = fw /\ fw \in DOMAIN Commands /\ obj \in Object
      /\ heard' \in {so, Garbled}
      /\ ch = CR => pc' = "args" /\ obj' = Terminate(obj)
      /\ ch # CR => pc' = "loop" /\ obj' = Put(obj, ch)
  BY DEF Read, Complete, host, TypeOK
<1>2. ch \in Char /\ heard \in Seq(Char)
  BY DEF Read, TypeOK
<1> HIDE DEF ch
<1>3. /\ Len(so) = Len(heard) + 1 /\ Len(heard) \in Nat /\ so[Len(heard) + 1] = ch
      /\ \A i \in 1..Len(heard) : so[i] = heard[i]
  BY <1>2
<1> HIDE DEF so
<1>4. ASSUME NEW c \in Commands[fw],
             Len(heard') <= Len(Text(c)), \A i \in 1..Len(heard') : heard'[i] = Text(c)[i]
      PROVE  /\ heard' = so /\ Begun(c) /\ Parsed(c, Len(heard), obj)
             /\ ch = Text(c)[Len(heard) + 1]
             /\ Len(heard) \in 0..Len(Body(c))
  <2>1. Fits(fw, c)
    BY <1>1 DEF FittingCommands
  <2>2. Text(c)[1] = c.cmd /\ c.cmd # "?" /\ Len(Text(c)) = Len(Body(c)) + 1
        /\ Len(Body(c)) \in Nat
    BY <1>1, <2>1, TextAt, FitsFacts
  <2>3. heard' # Garbled
    <3> SUFFICES ASSUME heard' = Garbled PROVE FALSE
      OBVIOUS
    <3>1. 1 \in 1..Len(heard') /\ heard'[1] = "?"
      BY DEF Garbled
    <3>2. heard'[1] = Text(c)[1]
      BY <1>4, <3>1
    <3> QED
      BY <2>2, <3>1, <3>2
  <2>4. heard' = so
    BY <1>1, <2>3
  <2>5. Begun(c) /\ ch = Text(c)[Len(heard) + 1] /\ Len(heard) \in 0..Len(Body(c))
    <3>1. Len(heard) + 1 <= Len(Text(c))
      BY <1>3, <1>4, <2>4
    <3>2. \A i \in 1..(Len(heard) + 1) : so[i] = Text(c)[i]
      BY <1>3, <1>4, <2>4
    <3>3. \A i \in 1..Len(heard) : heard[i] = Text(c)[i]
      BY <1>3, <3>2
    <3>4. Len(heard) + 1 \in 1..(Len(heard) + 1)
      BY <1>3
    <3>5. ch = Text(c)[Len(heard) + 1]
      BY <1>3, <3>2, <3>4
    <3>6. Len(heard) < Len(Text(c)) /\ Len(heard) \in 0..Len(Body(c))
      BY <1>3, <2>2, <3>1
    <3> QED
      BY <3>3, <3>5, <3>6 DEF Begun
  <2> QED
    BY <1>1, <2>4, <2>5 DEF ParseInv
<1>5. ASSUME NEW c \in Commands[fw]
      PROVE  /\ pc' = "loop" => heard' # Text(c) /\ (Begun(c)' => Parsed(c, Len(heard), obj)')
             /\ pc' = "args" /\ heard' = Text(c) =>
                   Inside(c, Len(c.args), Size(c, Len(c.args)), obj)'
  <2>1. Fits(fw, c)
    BY <1>1 DEF FittingCommands
  <2>2. /\ Len(Body(c)) \in Nat \ {0} /\ Len(Text(c)) = Len(Body(c)) + 1
        /\ \A i \in 1..Len(Body(c)) : Text(c)[i] = Body(c)[i]
        /\ Text(c)[Len(Text(c))] = CR
    BY <1>1, <2>1, TextAt
  <2>3. ASSUME heard' = Text(c)
        PROVE  ch = CR /\ Inside(c, Len(c.args), Size(c, Len(c.args)), obj)'
    <3>1. Len(heard') <= Len(Text(c)) /\ \A i \in 1..Len(heard') : heard'[i] = Text(c)[i]
      BY <2>2, <2>3
    <3>2. heard' = so /\ Parsed(c, Len(heard), obj) /\ ch = Text(c)[Len(heard) + 1]
      BY <1>4, <3>1
    <3>3. Len(heard) = Len(Body(c)) /\ ch = CR
      <4>1. Len(so) = Len(Text(c))
        BY <2>3, <3>2
      <4>2. Len(heard) + 1 = Len(Text(c))
        BY <1>3, <4>1
      <4> QED
        BY <1>3, <2>2, <3>2, <4>2
    <3>4. Inside(c, Len(c.args), Size(c, Len(c.args)), Terminate(obj))
      BY <1>1, <2>1, <3>2, <3>3, ParsedTerminate
    <3> QED
      BY <1>1, <3>3, <3>4, ParsePrimed
  <2>4. ASSUME pc' = "loop", Begun(c)'
        PROVE  Parsed(c, Len(heard), obj)'
    <3>1. /\ Len(heard') < Len(Text(c))
          /\ \A i \in 1..Len(heard') : heard'[i] = Text(c)[i]
      BY <1>1, <2>4, ParsePrimed
    <3>2. heard' \in Seq(Char)
      BY <1>1, <1>2, GarbledType DEF so
    <3>3. Len(heard') <= Len(Text(c))
      BY <2>2, <3>1, <3>2
    <3>4. /\ heard' = so /\ Parsed(c, Len(heard), obj) /\ ch = Text(c)[Len(heard) + 1]
      BY <1>4, <3>1, <3>3
    <3>5. Len(heard) \in 0..(Len(Body(c)) - 1) /\ Len(heard') = Len(heard) + 1
      BY <1>3, <2>2, <3>1, <3>4
    <3>6. ch = Body(c)[Len(heard) + 1]
      BY <2>2, <3>4, <3>5
    <3>7. obj' = Put(obj, ch)
      BY <1>1, <2>4
    <3>8. Parsed(c, Len(heard) + 1, Put(obj, ch))
      BY <1>1, <2>1, <3>4, <3>5, <3>6, ParsedStep
    <3> QED
      BY <1>1, <3>5, <3>7, <3>8, ParsePrimed
  <2> QED
    BY <1>1, <2>3, <2>4
<1>6. pc' \in {"loop", "args"}
  BY <1>1
<1> QED
  BY <1>1, <1>5, <1>6 DEF ParseInv

\* Every step keeps what was parsed, or begins anew.
LEMMA ParseStep ==
    ASSUME TypeOK, TypeOK', FittingCommands, ParseInv, [Next]_vars
    PROVE  ParseInv'
<1>1. fw \in DOMAIN Commands /\ obj \in Object /\ heard \in Seq(Char)
  BY DEF TypeOK
<1>2. \A c \in Commands[fw] : Fits(fw, c) /\ Text(c) # Garbled /\ Text(c) # <<>>
  BY <1>1, TextAt DEF FittingCommands
<1>3. Len(<<>>) = 0 /\ Len(Garbled) = 1 /\ Garbled # <<>>
  BY GarbledType DEF Garbled
<1>4. ASSUME UNCHANGED <<fw, obj, pc, sel, heard>>
      PROVE  ParseInv'
  <2>1. \A c : Arguments(c.cmd, obj.mem, obj.arg)' = Arguments(c.cmd, obj.mem, obj.arg)
    BY <1>4, ArgumentsPrimed
  <2> QED
    BY <1>4, <2>1, ParsePrimed DEF ParseInv, Overrun, Begun
<1>5. ASSUME fw' = fw, pc' = "loop", heard' = <<>>
      PROVE  ParseInv'
  <2>1. Clean(obj')
    <3>1. Base' = Base /\ Fill' = Fill /\ Top' = Top /\ Memory' = Memory
      BY <1>5, SameFirmware
    <3> QED
      BY <1>5, <3>1 DEF TypeOK, Clean
  <2>2. \A c \in Commands[fw] : Parsed(c, Len(heard'), obj')
    BY <1>3, <1>5, <2>1 DEF Parsed
  <2> QED
    BY <1>2, <1>5, <2>2, ParsePrimed DEF ParseInv
<1>6. ASSUME NEW c \in Commands[fw], BusSend(c)
      PROVE  ParseInv'
  <2>1. UNCHANGED <<fw, pc, sel>>
    BY <1>6 DEF BusSend
  <2>2. CASE heard = <<>> /\ pc = "loop"
    BY <1>5, <1>6, <2>1, <2>2 DEF BusSend
  <2>3. CASE ~(heard = <<>> /\ pc = "loop")
    <3>1. heard' = IF heard = <<>> THEN heard ELSE Garbled
      BY <1>6, <2>3 DEF BusSend
    <3>2. heard' = <<>> \/ heard' = Garbled
      BY <3>1
    <3>3. \A d \in Commands[fw] : heard' # Text(d)
      BY <1>2, <3>2
    <3>4. pc = "reset" => heard' = <<>>
      BY <3>1 DEF ParseInv
    <3>5. ASSUME NEW d \in Commands[fw], pc' = "loop"
          PROVE  ~Begun(d)'
      <4>1. heard' = Garbled
        BY <2>1, <2>3, <3>1, <3>5
      <4>2. heard'[1] = "?" /\ 1 \in 1..Len(heard')
        BY <4>1 DEF Garbled
      <4>3. Text(d)[1] # "?"
        BY <1>1, <1>2, TextAt, FitsFacts
      <4> QED
        BY <2>1, <4>2, <4>3, ParsePrimed
    <3> QED
      BY <2>1, <3>3, <3>4, <3>5 DEF ParseInv
  <2> QED
    BY <2>2, <2>3
<1>7. CASE Args
  <2> DEFINE g == Converted(obj)
  <2>1. /\ obj' = [obj EXCEPT !.arg = g] /\ pc' \in {"clear", "switch"}
        /\ UNCHANGED <<fw, heard>> /\ pc = "args"
    BY <1>7 DEF Args, host
  <2>2. ASSUME NEW c \in Commands[fw], heard = Text(c), ~Overrun'
        PROVE  Arguments(c.cmd, obj.mem, g) = Meaning("serial", c).args
    <3>1. ~Overrun
      BY <1>7, <2>2, OverrunStays DEF Next, Main
    <3>2. Inside(c, Len(c.args), Size(c, Len(c.args)), obj)
      BY <2>1, <2>2 DEF ParseInv
    <3> QED
      BY <1>1, <1>2, <3>1, <3>2, ArgumentsOf DEF Overrun
  <2>3. \A c \in Commands[fw] : heard = Text(c) => obj.cmd_chr = c.cmd
    BY <2>1 DEF ParseInv, Inside
  <2> HIDE DEF g
  <2>4. obj'.arg = g /\ obj'.cmd_chr = obj.cmd_chr /\ obj'.mem = obj.mem
    BY <1>1, <2>1 DEF Object
  <2>5. ASSUME NEW c \in Commands[fw], heard = Text(c), ~Overrun'
        PROVE  Arguments(c.cmd, obj.mem, obj.arg)' = Meaning("serial", c).args
    BY <2>1, <2>2, <2>4, <2>5, ArgumentsPrimed
  <2> QED
    BY <2>1, <2>3, <2>4, <2>5 DEF ParseInv
<1>8. CASE Clear
  <2>1. pc = "clear" /\ pc' = "switch" /\ UNCHANGED <<fw, obj, heard>>
    BY <1>8 DEF Clear, host
  <2>2. Overrun' = Overrun
    BY <2>1, SameFirmware DEF Overrun
  <2>3. \A c : Arguments(c.cmd, obj.mem, obj.arg)' = Arguments(c.cmd, obj.mem, obj.arg)
    BY <2>1, ArgumentsPrimed
  <2> QED
    BY <2>1, <2>2, <2>3 DEF ParseInv
<1>9. CASE Switch
  <2>1. pc = "switch" /\ pc' = "act" /\ sel' = obj.cmd_chr /\ UNCHANGED <<fw, obj, heard>>
    BY <1>9 DEF Switch, host
  <2>2. Overrun' = Overrun
    BY <2>1, SameFirmware DEF Overrun
  <2>3. \A c : Arguments(c.cmd, obj.mem, obj.arg)' = Arguments(c.cmd, obj.mem, obj.arg)
    BY <2>1, ArgumentsPrimed
  <2> QED
    BY <2>1, <2>2, <2>3 DEF ParseInv
<1>10. CASE Act
  <2>1. pc' = "reset" /\ heard' = <<>> /\ UNCHANGED fw
    BY <1>10 DEF Act, AfterRun, host
  <2> QED
    BY <1>2, <2>1 DEF ParseInv
<1>11. CASE ResetParam
  <2>1. pc' = "loop" /\ heard' = <<>> /\ UNCHANGED fw
    BY <1>11 DEF ResetParam, ParseInv, host
  <2> QED
    BY <1>5, <2>1
<1>12. ASSUME NEW c \in Commands[fw], SerialSend(c)
       PROVE  ParseInv'
  BY <1>4, <1>12 DEF SerialSend
<1>13. CASE Arrive \/ BusRequest \/ UNCHANGED vars
  BY <1>4, <1>13 DEF Arrive, BusRequest, host, vars
<1>14. CASE Read
  BY <1>14, ParseRead
<1> QED
  BY <1>6, <1>7, <1>8, <1>9, <1>10, <1>11, <1>12, <1>13, <1>14 DEF Next, Main

\* The parser never loses a command it has heard from its beginning to its end.
LEMMA ParseCorrect ==
    ASSUME FittingCommands
    PROVE  Spec => []ParseInv
<1>1. TypeOK /\ Init => ParseInv
  BY ParseInit
<1>2. TypeOK /\ TypeOK' /\ ParseInv /\ [Next]_vars => ParseInv'
  BY ParseStep
<1>3. Spec => []TypeOK
  BY LinkTypeCorrect
<1> QED
  BY <1>1, <1>2, <1>3, PTL DEF Spec

\* IntactIsRun: a serial command that arrives whole after an end character is run
\* as it was sent, whatever came before (procRecChar, runCommand).
THEOREM LinkIntactIsRun ==
    ASSUME FittingCommands
    PROVE  Spec => IntactIsRun
<1> DEFINE Intact == \A c \in Commands[fw] :
                       heard = Text(c) /\ heard' = <<>> /\ ~Overrun =>
                         Last(ran'["serial"]) = Meaning("serial", c)
<1>1. TypeOK /\ ParseInv /\ [Next]_vars => [Intact]_vars
  <2> SUFFICES ASSUME TypeOK, ParseInv, [Next]_vars,
                      NEW c \in Commands[fw], heard = Text(c), heard' = <<>>, ~Overrun
               PROVE  Last(ran'["serial"]) = Meaning("serial", c) \/ UNCHANGED vars
    OBVIOUS
  <2>1. heard \in Seq(Char) /\ heard # <<>>
    BY TextAt DEF TypeOK, FittingCommands
  <2>2. CASE Act
    <3> DEFINE run == [link |-> "serial", cmd |-> sel,
                       args |-> Arguments(sel, obj.mem, obj.arg)]
    <3>1. ran' = [ran EXCEPT !["serial"] = Append(@, run)] /\ pc = "act"
      BY <2>2 DEF Act
    <3>2. run.link = "serial" /\ run.cmd = c.cmd /\ run.args = Meaning("serial", c).args
      BY <3>1 DEF ParseInv
    <3>3. run = Meaning("serial", c)
      BY <3>2 DEF Meaning
    <3> HIDE DEF run
    <3>4. /\ ran["serial"] \in Seq(Command) /\ run \in Command
          /\ ran'["serial"] = Append(ran["serial"], run)
      BY <3>1, <3>3, TextType DEF TypeOK, Port
    <3>5. Last(ran'["serial"]) = run
      BY <3>4 DEF Last
    <3> QED
      BY <3>3, <3>5
  <2>3. CASE Read
    <3>1. Head(rx) \in Char
      BY <2>3 DEF Read, TypeOK
    <3>2. Append(heard, Head(rx)) # <<>>
      BY <2>1, <3>1
    <3> QED
      BY <2>3, <3>2, GarbledType DEF Read
  <2>4. ASSUME NEW d \in Commands[fw], BusSend(d)
        PROVE  FALSE
    BY <2>1, <2>4, GarbledType DEF BusSend
  <2>5. ASSUME NEW d \in Commands[fw], SerialSend(d)
        PROVE  FALSE
    BY <2>1, <2>5 DEF SerialSend
  <2>6. CASE Arrive \/ BusRequest \/ Args \/ Clear \/ Switch \/ ResetParam
    BY <2>1, <2>6 DEF Arrive, BusRequest, Args, Clear, Switch, ResetParam
  <2> QED
    BY <2>2, <2>3, <2>4, <2>5, <2>6 DEF Next, Main
<1>2. Spec => []TypeOK
  BY LinkTypeCorrect
<1>3. Spec => []ParseInv
  BY ParseCorrect
<1>4. Spec => [][Next]_vars
  BY PTL DEF Spec
<1>5. Spec => [][Intact]_vars
  BY <1>1, <1>2, <1>3, <1>4, PTL
<1> QED
  BY <1>5, PTL DEF IntactIsRun

-----------------------------------------------------------------------------
(* The messages of the bus.                                                *)

BusInv == "iic" \notin spoilt /\ ~Overrun =>
    ran["iic"] = sent["iic"]

\* A message that meets no serial command is run as it was sent.
LEMMA BusRunIs ==
    ASSUME TypeOK, FittingCommands, NEW c \in Commands[fw], BusSend(c), heard = <<>>, pc = "loop",
           ~Overrun'
    PROVE  BusRun(c) = Meaning("iic", c)
<1> DEFINE o == Taken(obj, Body(c))
           r == Reset(o)
           g == Converted(o)
<1>1. fw \in DOMAIN Commands /\ fw' = fw /\ Base /\ obj \in Object /\ Fits(fw, c)
  BY DEF TypeOK, FittingCommands, BusSend
<1>2. Clean(obj)
  BY DEF TypeOK, Clean
<1>3. o \in Object /\ Inside(c, Len(c.args), Size(c, Len(c.args)), o)
  <2>1. o \in Object
    BY <1>1, TakenType, TextType
  <2>2. Parsed(c, Len(Body(c)), o)
    BY <1>1, <1>2, ParsedAll
  <2> QED
    BY <1>1, <2>1, <2>2, ParsedEnd
<1>4. o.mem[Top] = NUL
  <2>1. r \in Object /\ r.mem[Top] = o.mem[Top]
    BY <1>1, <1>3, ResetType
  <2>2. obj' = [r EXCEPT !.arg = g]
    BY DEF BusSend
  <2>3. obj'.mem[Top] = NUL
    BY <1>1, ParsePrimed
  <2> HIDE DEF o, r, g
  <2> QED
    BY <2>1, <2>2, <2>3 DEF Object
<1>5. Arguments(c.cmd, o.mem, g) = Meaning("iic", c).args
  BY <1>1, <1>3, <1>4, ArgumentsOf
<1>6. o.cmd_chr = c.cmd
  BY <1>3 DEF Inside
<1> HIDE DEF o, g
<1>7. BusRun(c) = [link |-> "iic", cmd |-> o.cmd_chr, args |-> Arguments(o.cmd_chr, o.mem, g)]
  BY DEF BusRun, o, g
<1> QED
  BY <1>5, <1>6, <1>7 DEF Meaning

\* No message was sent at first.
LEMMA BusInit == Init => BusInv
  BY DEF Init, BusInv, Port

\* Every step keeps the messages in order.
LEMMA BusStep ==
    ASSUME TypeOK, FittingCommands, BusInv, [Next]_vars
    PROVE  BusInv'
<1> SUFFICES ASSUME "iic" \notin spoilt', ~Overrun'
             PROVE  ran'["iic"] = sent'["iic"]
  BY DEF BusInv
<1>1. ~Overrun
  BY OverrunStays
<1>2. "iic" \notin spoilt
  BY DEF Next, Main, SerialSend, BusSend, Arrive, BusRequest, Read, Args, Clear, Switch, Act,
         ResetParam, vars, Port
<1>3. ran["iic"] = sent["iic"]
  BY <1>1, <1>2 DEF BusInv
<1>4. /\ ran \in [Port -> Seq(Command)] /\ sent \in [Port -> Seq(Command)]
      /\ "iic" \in Port /\ "serial" \in Port /\ "iic" # "serial"
  BY DEF TypeOK, Port
<1>5. ASSUME NEW c \in Commands[fw], BusSend(c)
      PROVE  ran'["iic"] = sent'["iic"]
  <2>1. heard = <<>> /\ pc = "loop"
    BY <1>5 DEF BusSend, Port
  <2>2. BusRun(c) = Meaning("iic", c)
    BY <1>5, <2>1, BusRunIs
  <2> DEFINE m == Meaning("iic", c)
  <2>3. m \in Command
    BY TextType DEF TypeOK, Port
  <2>4. /\ sent' = [sent EXCEPT !["iic"] = Append(@, m)]
        /\ ran' = [ran EXCEPT !["iic"] = Append(@, m)]
    BY <1>5, <2>2 DEF BusSend, BusRun
  <2> HIDE DEF m
  <2>5. sent'["iic"] = Append(sent["iic"], m) /\ ran'["iic"] = Append(ran["iic"], m)
    BY <1>4, <2>4
  <2> QED
    BY <1>3, <2>5
<1>6. ASSUME NEW c \in Commands[fw], SerialSend(c)
      PROVE  UNCHANGED ran /\ sent'["iic"] = sent["iic"]
  BY <1>4, <1>6 DEF SerialSend
<1>7. CASE Act
  BY <1>3, <1>4, <1>7 DEF Act, host
<1>8. CASE Read \/ Args \/ Clear \/ Switch \/ ResetParam
  <2>1. UNCHANGED <<ran, sent>>
    BY <1>8 DEF Read, Args, Clear, Switch, ResetParam, host
  <2> QED
    BY <1>3, <2>1
<1>9. CASE Arrive \/ BusRequest \/ UNCHANGED vars
  BY <1>3, <1>9 DEF Arrive, BusRequest, host, vars
<1> QED
  BY <1>3, <1>5, <1>6, <1>7, <1>8, <1>9 DEF Next, Main

\* So they are, always.
LEMMA BusCorrect ==
    ASSUME FittingCommands
    PROVE  Spec => []BusInv
<1>1. Init => BusInv
  BY BusInit
<1>2. TypeOK /\ BusInv /\ [Next]_vars => BusInv'
  BY BusStep
<1>3. Spec => []TypeOK
  BY LinkTypeCorrect
<1> QED
  BY <1>1, <1>2, <1>3, PTL DEF Spec

-----------------------------------------------------------------------------
(* The order of the serial commands.                                       *)
(*                                                                         *)
(* The characters written so far are one stream h; cs are the commands in  *)
(* it, S what they mean, and the i-th ends at cut[i].                      *)

Written(cs, cut, h, S) ==
    /\ cut[0] = 0
    /\ \A i \in 0..Len(S) : cut[i] \in Nat /\ cut[i] <= cut[Len(S)]
    /\ \A i \in 1..Len(S) :
          /\ cs[i] \in Commands[fw] /\ S[i] = Meaning("serial", cs[i])
          /\ cut[i] = cut[i - 1] + Len(Text(cs[i]))
          /\ \A j \in 1..Len(Text(cs[i])) : h[cut[i - 1] + j] = Text(cs[i])[j]

\* What the main program has heard, what waits for it and what is still to come
\* are the stream from a place on.
Carried(h, from, to, hd, bf, ty) ==
    /\ from + Len(hd) + Len(bf) + Len(ty) = to
    /\ \A j \in 1..Len(hd) : hd[j] = h[from + j]
    /\ \A j \in 1..Len(bf) : bf[j] = h[from + Len(hd) + j]
    /\ \A j \in 1..Len(ty) : ty[j] = h[from + Len(hd) + Len(bf) + j]

\* The main program is in the command r + 1, or waits for it.
Turn(cut, r, m, hd, p) ==
    /\ r <= m
    /\ p = "loop" /\ r < m => cut[r] + Len(hd) < cut[r + 1]
    /\ p \in {"args", "clear", "switch", "act"} => r < m /\ cut[r] + Len(hd) = cut[r + 1]
    /\ p = "reset" => hd = <<>>

InOrder(cs, cut, h, S, R, hd, bf, ty, p) ==
    /\ Written(cs, cut, h, S)
    /\ Carried(h, cut[Len(R)], cut[Len(S)], hd, bf, ty)
    /\ Turn(cut, Len(R), Len(S), hd, p)
    /\ \A i \in 1..Len(R) : R[i] = S[i]

OrderInv == "serial" \notin spoilt /\ ~Overrun =>
    \E cs, cut, h : InOrder(cs, cut, h, sent["serial"], ran["serial"], heard, rx, typed, pc)

\* In the body of a command there is no end character.
LEMMA BodyPlain ==
    ASSUME fw \in DOMAIN Commands, NEW c \in Commands[fw], Fits(fw, c)
    PROVE  \A i \in 1..Len(Body(c)) : Body(c)[i] # CR
<1> DEFINE P == Char \ {CR}
<1>1. c.cmd \in P /\ SP \in P
  BY FitsFacts, LinkAssumption DEF SP, CR
<1>2. ASSUME NEW n \in 1..3
      PROVE  Arg(c, n) \in Seq(P)
  <2>1. CASE n \in DOMAIN c.args
    <3> DEFINE a == c.args[n]
    <3>1. n \in 1..Len(c.args)
      BY <2>1, FitsFacts
    <3>2. a \in Seq(Char) /\ \A i \in 1..Len(a) : a[i] \in P
      BY <3>1, FitsFacts
    <3> HIDE DEF a, P
    <3>3. a \in Seq(P)
      BY <3>2
    <3>4. Arg(c, n) = <<SP>> \o a
      BY <2>1 DEF Arg, a
    <3> QED
      BY <1>1, <3>3, <3>4
  <2>2. CASE n \notin DOMAIN c.args
    BY <2>2 DEF Arg
  <2> QED
    BY <2>1, <2>2
<1> HIDE DEF P
<1>3. Body(c) \in Seq(P)
  BY <1>1, <1>2 DEF Body
<1> QED
  BY <1>3 DEF P

\* The serial host begins a command: the stream grows.
LEMMA OrderSend ==
    ASSUME fw \in DOMAIN Commands, NEW c \in Commands[fw], Fits(fw, c),
           NEW S \in Seq(Command), NEW R \in Seq(Command), NEW hd \in Seq(Char),
           NEW bf \in Seq(Char), NEW p, NEW cs, NEW cut, NEW h,
           InOrder(cs, cut, h, S, R, hd, bf, <<>>, p)
    PROVE  \E ds, du, g : InOrder(ds, du, g, Append(S, Meaning("serial", c)), R, hd, bf, Text(c), p)
<1> DEFINE m  == Len(S)
           r  == Len(R)
           t  == Text(c)
           e  == cut[m]
           T  == Append(S, Meaning("serial", c))
           ds == [i \in 1..(m + 1) |-> IF i = m + 1 THEN c ELSE cs[i]]
           du == [i \in 0..(m + 1) |-> IF i = m + 1 THEN e + Len(t) ELSE cut[i]]
           g  == [j \in 1..(e + Len(t)) |-> IF j <= e THEN h[j] ELSE t[j - e]]
<1>1. /\ Written(cs, cut, h, S) /\ Carried(h, cut[r], e, hd, bf, <<>>)
      /\ Turn(cut, r, m, hd, p) /\ \A i \in 1..r : R[i] = S[i]
  BY DEF InOrder
<1>2. m \in Nat /\ r \in Nat /\ r <= m /\ e \in Nat /\ Len(hd) \in Nat /\ Len(bf) \in Nat
  BY <1>1 DEF Written, Turn
<1>3. t \in Seq(Char) /\ Len(t) \in Nat \ {0}
  BY TextType, TextAt
<1>4. /\ Len(T) = m + 1 /\ T[m + 1] = Meaning("serial", c) /\ \A i \in 1..m : T[i] = S[i]
  <2> DEFINE x == Meaning("serial", c)
  <2>1. x \in Command
    BY TextType DEF Port
  <2> HIDE DEF x
  <2> QED
    BY <2>1 DEF x
<1>5. /\ \A i \in 1..m : ds[i] = cs[i]
      /\ ds[m + 1] = c
      /\ \A i \in 0..m : du[i] = cut[i]
      /\ du[m + 1] = e + Len(t)
      /\ \A j \in 1..e : g[j] = h[j]
      /\ \A j \in 1..Len(t) : g[e + j] = t[j]
  BY <1>2, <1>3, SMTT(30)
<1> HIDE DEF m, r, t, e, T, ds, du, g
<1>6. Written(ds, du, g, T)
  <2>1. du[0] = 0
    BY <1>1, <1>2, <1>5 DEF Written, m
  <2>2. \A i \in 0..(m + 1) : du[i] \in Nat /\ du[i] <= du[m + 1]
    <3>1. \A i \in 0..m : cut[i] \in Nat /\ cut[i] <= e
      BY <1>1 DEF Written, m, e
    <3>2. e + Len(t) \in Nat /\ e <= e + Len(t)
      BY <1>2, <1>3
    <3>3. ASSUME NEW i \in 0..m
          PROVE  du[i] \in Nat /\ du[i] <= du[m + 1]
      <4>1. cut[i] \in Nat /\ cut[i] <= e
        BY <3>1
      <4>2. cut[i] <= e + Len(t)
        BY <1>2, <3>2, <4>1
      <4> QED
        BY <1>5, <4>1, <4>2
    <3>4. \A i \in 0..(m + 1) : i \in 0..m \/ i = m + 1
      BY <1>2
    <3>5. du[m + 1] \in Nat /\ du[m + 1] <= du[m + 1]
      BY <1>5, <3>2
    <3> QED
      BY <3>3, <3>4, <3>5
  <2>3. ASSUME NEW i \in 1..m
        PROVE  /\ ds[i] \in Commands[fw] /\ T[i] = Meaning("serial", ds[i])
               /\ du[i] = du[i - 1] + Len(Text(ds[i]))
               /\ \A j \in 1..Len(Text(ds[i])) : g[du[i - 1] + j] = Text(ds[i])[j]
    <3>1. /\ cs[i] \in Commands[fw] /\ S[i] = Meaning("serial", cs[i])
          /\ cut[i] = cut[i - 1] + Len(Text(cs[i]))
          /\ \A j \in 1..Len(Text(cs[i])) : h[cut[i - 1] + j] = Text(cs[i])[j]
      BY <1>1 DEF Written, m
    <3>2. /\ cut[i] \in Nat /\ cut[i - 1] \in Nat /\ cut[i] <= e
          /\ Len(Text(cs[i])) \in Nat
      <4>1. i \in 0..m /\ i - 1 \in 0..m
        BY <1>2
      <4>2. Text(cs[i]) \in Seq(Char)
        BY <3>1, TextType
      <4> QED
        BY <1>1, <4>1, <4>2 DEF Written, m, e
    <3>3. \A j \in 1..Len(Text(cs[i])) : cut[i - 1] + j \in 1..e
      BY <1>2, <3>1, <3>2
    <3>4. ds[i] = cs[i] /\ du[i] = cut[i] /\ du[i - 1] = cut[i - 1] /\ T[i] = S[i]
      BY <1>2, <1>4, <1>5
    <3> QED
      BY <1>5, <3>1, <3>3, <3>4
  <2>4. /\ ds[m + 1] \in Commands[fw] /\ T[m + 1] = Meaning("serial", ds[m + 1])
        /\ du[m + 1] = du[m] + Len(Text(ds[m + 1]))
        /\ \A j \in 1..Len(Text(ds[m + 1])) : g[du[m] + j] = Text(ds[m + 1])[j]
    <3>1. du[m] = e
      BY <1>2, <1>5 DEF e
    <3> QED
      BY <1>4, <1>5, <3>1 DEF t
  <2>5. (m + 1) - 1 = m
    BY <1>2
  <2>6. \A i \in 1..(m + 1) : i \in 1..m \/ i = m + 1
    BY <1>2
  <2>7. ASSUME NEW i \in 1..(m + 1)
        PROVE  /\ ds[i] \in Commands[fw] /\ T[i] = Meaning("serial", ds[i])
               /\ du[i] = du[i - 1] + Len(Text(ds[i]))
               /\ \A j \in 1..Len(Text(ds[i])) : g[du[i - 1] + j] = Text(ds[i])[j]
    BY <2>3, <2>4, <2>5, <2>6
  <2> QED
    BY <1>4, <2>1, <2>2, <2>7 DEF Written
<1>7. Carried(g, du[r], du[m + 1], hd, bf, t)
  <2>1. cut[r] \in Nat /\ du[r] = cut[r]
    BY <1>1, <1>2, <1>5 DEF Written, m
  <2>2. cut[r] + Len(hd) + Len(bf) = e
    <3>1. cut[r] + Len(hd) + Len(bf) + Len(<<>>) = e /\ Len(<<>>) = 0
      BY <1>1 DEF Carried
    <3> QED
      BY <1>2, <2>1, <3>1
  <2>3. \A j \in 1..Len(hd) : cut[r] + j \in 1..e
    BY <1>2, <2>1, <2>2
  <2>4. \A j \in 1..Len(bf) : cut[r] + Len(hd) + j \in 1..e
    BY <1>2, <2>1, <2>2
  <2>5. \A j \in 1..Len(hd) : hd[j] = g[cut[r] + j]
    BY <1>1, <1>5, <2>3 DEF Carried
  <2>6. \A j \in 1..Len(bf) : bf[j] = g[cut[r] + Len(hd) + j]
    BY <1>1, <1>5, <2>4 DEF Carried
  <2>7. \A j \in 1..Len(t) : t[j] = g[cut[r] + Len(hd) + Len(bf) + j]
    BY <1>5, <2>2
  <2> QED
    BY <1>5, <2>1, <2>2, <2>5, <2>6, <2>7 DEF Carried
<1>8. Turn(du, r, m + 1, hd, p)
  <2>1. r < m => du[r] = cut[r] /\ du[r + 1] = cut[r + 1]
    BY <1>2, <1>5, SMTT(30)
  <2>2. r = m => du[r] + Len(hd) < du[r + 1]
    <3> SUFFICES ASSUME r = m PROVE du[r] + Len(hd) < du[r + 1]
      OBVIOUS
    <3>1. Len(hd) = 0
      <4>1. e + Len(hd) + Len(bf) + Len(<<>>) = e /\ Len(<<>>) = 0
        BY <1>1 DEF Carried, e
      <4> QED
        BY <1>2, <4>1
    <3>2. du[r] = e /\ du[r + 1] = e + Len(t)
      BY <1>2, <1>5 DEF e
    <3> QED
      BY <1>2, <1>3, <3>1, <3>2
  <2> QED
    BY <1>1, <1>2, <2>1, <2>2 DEF Turn
<1>9. \A i \in 1..r : R[i] = T[i]
  BY <1>1, <1>2, <1>4
<1>10. InOrder(ds, du, g, T, R, hd, bf, t, p)
  BY <1>4, <1>6, <1>7, <1>8, <1>9 DEF InOrder, r
<1> QED
  BY <1>10 DEF T, t

\* A character arrives.
LEMMA OrderArrive ==
    ASSUME NEW S \in Seq(Command), NEW R \in Seq(Command), NEW hd \in Seq(Char),
           NEW bf \in Seq(Char), NEW ty \in Seq(Char), ty # <<>>, NEW p,
           NEW cs, NEW cut, NEW h, InOrder(cs, cut, h, S, R, hd, bf, ty, p)
    PROVE  InOrder(cs, cut, h, S, R, hd, Append(bf, Head(ty)), Tail(ty), p)
<1> DEFINE a  == cut[Len(R)]
           b  == cut[Len(S)]
           bg == Append(bf, Head(ty))
           tz == Tail(ty)
<1>1. /\ Len(hd) \in Nat /\ Len(bf) \in Nat /\ Len(bg) = Len(bf) + 1
      /\ Len(tz) = Len(ty) - 1 /\ Len(ty) \in Nat \ {0}
      /\ \A j \in 1..Len(bf) : bg[j] = bf[j]
      /\ bg[Len(bf) + 1] = ty[1]
      /\ \A j \in 1..Len(tz) : tz[j] = ty[j + 1]
  OBVIOUS
<1>2. a \in Nat /\ b \in Nat
  BY DEF InOrder, Written, Turn
<1>3. Carried(h, a, b, hd, bf, ty)
  BY DEF InOrder
<1> HIDE DEF a, b, bg, tz
<1>4. a + Len(hd) + Len(bg) + Len(tz) = b
  <2> DEFINE x  == Len(hd)
             y  == Len(bf)
             z  == Len(ty)
             y2 == Len(bg)
             z2 == Len(tz)
  <2>1. a + x + y + z = b
    BY <1>3 DEF Carried
  <2>2. x \in Nat /\ y \in Nat /\ z \in Nat /\ y2 = y + 1 /\ z2 = z - 1
    BY <1>1
  <2> HIDE DEF x, y, z, y2, z2
  <2>3. a + x + y2 + z2 = b
    BY <1>2, <2>1, <2>2
  <2> QED
    BY <2>3 DEF x, y2, z2
<1>5. ASSUME NEW j \in 1..Len(bg)
      PROVE  bg[j] = h[a + Len(hd) + j]
  <2>1. CASE j \in 1..Len(bf)
    BY <1>1, <1>3, <2>1 DEF Carried
  <2>2. CASE j = Len(bf) + 1
    <3>1. 1 \in 1..Len(ty) /\ a + Len(hd) + Len(bf) + 1 = a + Len(hd) + j
      <4>1. Len(hd) \in Nat /\ Len(bf) \in Nat /\ Len(ty) \in Nat \ {0}
        BY <1>1
      <4> QED
        BY <1>2, <2>2, <4>1
    <3>2. ty[1] = h[a + Len(hd) + Len(bf) + 1]
      BY <1>3, <3>1 DEF Carried
    <3> QED
      BY <1>1, <2>2, <3>1, <3>2
  <2> QED
    BY <1>1, <2>1, <2>2
<1>6. ASSUME NEW j \in 1..Len(tz)
      PROVE  tz[j] = h[a + Len(hd) + Len(bg) + j]
  <2>1. j + 1 \in 1..Len(ty) /\ a + Len(hd) + Len(bf) + (j + 1) = a + Len(hd) + Len(bg) + j
    BY <1>1, <1>2
  <2>2. ty[j + 1] = h[a + Len(hd) + Len(bf) + (j + 1)]
    BY <1>3, <2>1 DEF Carried
  <2> QED
    BY <1>1, <2>1, <2>2
<1>7. Carried(h, a, b, hd, bg, tz)
  BY <1>3, <1>4, <1>5, <1>6 DEF Carried
<1> QED
  BY <1>7 DEF InOrder, a, b, bg, tz

\* The main program takes a character.
LEMMA OrderRead ==
    ASSUME fw \in DOMAIN Commands, FittingCommands,
           NEW S \in Seq(Command), NEW R \in Seq(Command), NEW hd \in Seq(Char),
           NEW bf \in Seq(Char), NEW ty \in Seq(Char), bf # <<>>,
           NEW cs, NEW cut, NEW h, InOrder(cs, cut, h, S, R, hd, bf, ty, "loop")
    PROVE  /\ \E c \in Commands[fw] : IsPrefix(Append(hd, Head(bf)), Text(c))
           /\ InOrder(cs, cut, h, S, R, Append(hd, Head(bf)), Tail(bf), ty,
                      IF Head(bf) = CR THEN "args" ELSE "loop")
<1> DEFINE r  == Len(R)
           m  == Len(S)
           n  == Len(hd)
           ch == Head(bf)
           hf == Append(hd, ch)
           bg == Tail(bf)
           c  == cs[r + 1]
           t  == Text(c)
<1>1. /\ n \in Nat /\ Len(bf) \in Nat \ {0} /\ Len(hf) = n + 1 /\ Len(bg) = Len(bf) - 1
      /\ ch = bf[1] /\ hf[n + 1] = ch /\ Len(ty) \in Nat
      /\ \A j \in 1..n : hf[j] = hd[j]
      /\ \A j \in 1..Len(bg) : bg[j] = bf[j + 1]
      /\ hf \in Seq(Char)
  OBVIOUS
<1>2. r \in Nat /\ m \in Nat /\ r <= m
  BY DEF InOrder, Turn
<1>3. /\ Written(cs, cut, h, S) /\ Carried(h, cut[r], cut[m], hd, bf, ty)
      /\ Turn(cut, r, m, hd, "loop") /\ \A i \in 1..r : R[i] = S[i]
  BY DEF InOrder
<1>4. cut[r] \in Nat /\ cut[m] \in Nat
  BY <1>2, <1>3 DEF Written, m
<1>5. r < m
  <2>1. cut[r] # cut[m]
    BY <1>1, <1>3, <1>4 DEF Carried
  <2>2. r # m
    BY <2>1
  <2> QED
    BY <1>2, <2>2
<1>6. /\ c \in Commands[fw] /\ cut[r + 1] = cut[r] + Len(t)
      /\ \A j \in 1..Len(t) : h[cut[r] + j] = t[j]
  <2>1. r + 1 \in 1..m /\ (r + 1) - 1 = r
    BY <1>2, <1>5
  <2> QED
    BY <1>3, <2>1 DEF Written, m
<1>7. /\ t \in Seq(Char) /\ Len(t) = Len(Body(c)) + 1 /\ Len(Body(c)) \in Nat
      /\ t[Len(t)] = CR /\ \A i \in 1..Len(Body(c)) : t[i] # CR
  <2>1. c \in Commands[fw] /\ Fits(fw, c)
    BY <1>6 DEF FittingCommands
  <2> HIDE DEF c
  <2>2. t \in Seq(Char) /\ Len(t) = Len(Body(c)) + 1 /\ Len(Body(c)) \in Nat /\ t[Len(t)] = CR
    BY <2>1, TextType, TextAt
  <2>3. \A i \in 1..Len(Body(c)) : t[i] = Body(c)[i] /\ Body(c)[i] # CR
    BY <2>1, TextAt, BodyPlain
  <2> QED
    BY <2>2, <2>3
<1> HIDE DEF r, m, n, ch, hf, bg, c, t
<1>8. n + 1 \in 1..Len(t)
  <2>1. cut[r] + n < cut[r + 1]
    BY <1>3, <1>5 DEF Turn, n
  <2> QED
    BY <1>1, <1>4, <1>6, <1>7, <2>1
<1>9. \A j \in 1..n : hd[j] = t[j]
  <2>1. \A j \in 1..n : j \in 1..Len(t)
    BY <1>1, <1>7, <1>8
  <2> QED
    BY <1>3, <1>6, <2>1 DEF Carried, n
<1>10. ch = t[n + 1] /\ ch = h[cut[r] + (n + 1)]
  <2>1. 1 \in 1..Len(bf) /\ cut[r] + n + 1 = cut[r] + (n + 1)
    BY <1>1, <1>4
  <2>2. bf[1] = h[cut[r] + n + 1]
    BY <1>3, <2>1 DEF Carried, n
  <2> QED
    BY <1>1, <1>6, <1>8, <2>1, <2>2
<1>11. \A j \in 1..(n + 1) : hf[j] = t[j]
  <2>1. \A j \in 1..n : hf[j] = t[j]
    BY <1>1, <1>9
  <2>2. hf[n + 1] = t[n + 1]
    BY <1>1, <1>10
  <2>3. n \in Nat
    BY <1>1
  <2> QED
    BY <2>1, <2>2, <2>3
<1>12. IsPrefix(hf, t)
  <2>1. Len(hf) <= Len(t)
    BY <1>1, <1>7, <1>8
  <2>2. SubSeq(hf, 1, n + 1) = SubSeq(t, 1, n + 1)
    BY <1>1, <1>7, <1>8, <1>11
  <2> QED
    BY <1>1, <2>1, <2>2 DEF IsPrefix
<1>13. Carried(h, cut[r], cut[m], hf, bg, ty)
  <2>1. cut[r] + Len(hf) + Len(bg) + Len(ty) = cut[m]
    BY <1>1, <1>3, <1>4 DEF Carried, n
  <2>2. \A j \in 1..Len(hf) : hf[j] = h[cut[r] + j]
    BY <1>1, <1>6, <1>7, <1>8, <1>11
  <2>3. ASSUME NEW j \in 1..Len(bg)
        PROVE  bg[j] = h[cut[r] + Len(hf) + j]
    <3>1. j + 1 \in 1..Len(bf) /\ cut[r] + n + (j + 1) = cut[r] + Len(hf) + j
      <4> DEFINE x == Len(hf)
                 y == Len(bf)
                 z == Len(bg)
                 o == cut[r]
      <4>1. n \in Nat /\ x = n + 1 /\ z = y - 1 /\ y \in Nat /\ o \in Nat /\ j \in 1..z
        BY <1>1, <1>4
      <4> HIDE DEF x, y, z, o
      <4>2. j + 1 \in 1..y /\ o + n + (j + 1) = o + x + j
        BY <4>1
      <4> QED
        BY <4>2 DEF x, y, z, o
    <3>2. bf[j + 1] = h[cut[r] + n + (j + 1)]
      BY <1>3, <3>1 DEF Carried, n
    <3> QED
      BY <1>1, <3>1, <3>2
  <2>4. ASSUME NEW j \in 1..Len(ty)
        PROVE  ty[j] = h[cut[r] + Len(hf) + Len(bg) + j]
    <3>1. cut[r] + n + Len(bf) + j = cut[r] + Len(hf) + Len(bg) + j
      BY <1>1, <1>4
    <3> QED
      BY <1>3, <3>1 DEF Carried, n
  <2> QED
    BY <2>1, <2>2, <2>3, <2>4 DEF Carried
<1>14. Turn(cut, r, m, hf, IF ch = CR THEN "args" ELSE "loop")
  <2>1. ch = CR => n + 1 = Len(t)
    <3>1. n \in Nat /\ Len(t) = Len(Body(c)) + 1 /\ Len(Body(c)) \in Nat /\ n + 1 <= Len(t)
      BY <1>1, <1>7, <1>8
    <3>2. n + 1 \in 1..Len(Body(c)) => ch # CR
      BY <1>7, <1>10
    <3> QED
      BY <3>1, <3>2
  <2>2. ch # CR => n + 1 < Len(t)
    <3>1. n \in Nat /\ Len(t) \in Nat /\ n + 1 <= Len(t)
      BY <1>1, <1>7, <1>8
    <3>2. n + 1 = Len(t) => ch = CR
      BY <1>7, <1>10
    <3> QED
      BY <3>1, <3>2
  <2>3. CASE ch = CR
    <3>1. cut[r] + Len(hf) = cut[r + 1]
      BY <1>1, <1>6, <2>1, <2>3
    <3> QED
      BY <1>2, <1>5, <2>3, <3>1 DEF Turn
  <2>4. CASE ch # CR
    <3>1. cut[r] + Len(hf) < cut[r + 1]
      BY <1>1, <1>4, <1>6, <1>7, <2>2, <2>4
    <3> QED
      BY <1>2, <1>5, <2>4, <3>1 DEF Turn
  <2> QED
    BY <2>3, <2>4
<1>15. InOrder(cs, cut, h, S, R, hf, bg, ty, IF ch = CR THEN "args" ELSE "loop")
  BY <1>3, <1>13, <1>14 DEF InOrder, r, m
<1>16. \E d \in Commands[fw] : IsPrefix(hf, Text(d))
  BY <1>6, <1>12 DEF t
<1> QED
  BY <1>15, <1>16 DEF hf, bg, ch

\* A command is run: the next one begins.
LEMMA OrderAct ==
    ASSUME fw \in DOMAIN Commands, FittingCommands,
           NEW S \in Seq(Command), NEW R \in Seq(Command), NEW hd \in Seq(Char),
           NEW bf \in Seq(Char), NEW ty \in Seq(Char),
           NEW cs, NEW cut, NEW h, InOrder(cs, cut, h, S, R, hd, bf, ty, "act")
    PROVE  \E c \in Commands[fw] :
             /\ hd = Text(c) /\ S[Len(R) + 1] = Meaning("serial", c)
             /\ InOrder(cs, cut, h, S, Append(R, Meaning("serial", c)), <<>>, bf, ty, "reset")
<1> DEFINE r == Len(R)
           m == Len(S)
           c == cs[r + 1]
           t == Text(c)
           x == Meaning("serial", c)
           Q == Append(R, x)
<1>1. /\ Written(cs, cut, h, S) /\ Carried(h, cut[r], cut[m], hd, bf, ty)
      /\ Turn(cut, r, m, hd, "act") /\ \A i \in 1..r : R[i] = S[i]
  BY DEF InOrder
<1>2. r \in Nat /\ m \in Nat /\ r < m /\ cut[r] + Len(hd) = cut[r + 1]
  BY <1>1 DEF Turn
<1>3. r + 1 \in 1..m /\ (r + 1) - 1 = r /\ r \in 0..m /\ r + 1 \in 0..m
  BY <1>2
<1>4. /\ c \in Commands[fw] /\ S[r + 1] = x
      /\ cut[r + 1] = cut[r] + Len(t)
      /\ \A j \in 1..Len(t) : h[cut[r] + j] = t[j]
      /\ cut[r] \in Nat /\ cut[r + 1] \in Nat
  BY <1>1, <1>3 DEF Written, m
<1>5. t \in Seq(Char) /\ Len(t) \in Nat /\ Len(hd) \in Nat /\ Len(bf) \in Nat /\ Len(ty) \in Nat
  BY <1>4, TextType, SMTT(30)
<1>6. x \in Command
  BY <1>4, TextType DEF Port
<1> HIDE DEF r, m, c, t, x
<1>7. hd = t
  <2>1. Len(hd) = Len(t)
    BY <1>2, <1>4, <1>5
  <2>2. \A j \in 1..Len(hd) : hd[j] = t[j]
    BY <1>1, <1>4, <2>1 DEF Carried
  <2>3. hd \in Seq(Char) /\ t \in Seq(Char)
    BY <1>5
  <2> HIDE DEF m
  <2> QED
    BY <2>1, <2>2, <2>3, SMTT(30)
<1>8. Len(Q) = r + 1 /\ Q[r + 1] = x /\ \A i \in 1..r : Q[i] = R[i]
  BY <1>6 DEF r
<1> HIDE DEF Q
<1>9. \A i \in 1..(r + 1) : Q[i] = S[i]
  BY <1>1, <1>2, <1>4, <1>8
<1>10. Carried(h, cut[r + 1], cut[m], <<>>, bf, ty)
  <2>1. Len(<<>>) = 0
    OBVIOUS
  <2>2. cut[r + 1] + 0 + Len(bf) + Len(ty) = cut[m]
    BY <1>1, <1>2, <1>4, <1>5 DEF Carried
  <2>3. ASSUME NEW j \in 1..Len(bf)
        PROVE  bf[j] = h[cut[r + 1] + 0 + j]
    <3>1. cut[r] + Len(hd) + j = cut[r + 1] + 0 + j
      BY <1>2, <1>4, <1>5
    <3> QED
      BY <1>1, <3>1 DEF Carried
  <2>4. ASSUME NEW j \in 1..Len(ty)
        PROVE  ty[j] = h[cut[r + 1] + 0 + Len(bf) + j]
    <3>1. cut[r] + Len(hd) + Len(bf) + j = cut[r + 1] + 0 + Len(bf) + j
      BY <1>2, <1>4, <1>5
    <3> QED
      BY <1>1, <3>1 DEF Carried
  <2> QED
    BY <2>1, <2>2, <2>3, <2>4 DEF Carried
<1>11. Turn(cut, r + 1, m, <<>>, "reset")
  BY <1>2 DEF Turn
<1>12. InOrder(cs, cut, h, S, Q, <<>>, bf, ty, "reset")
  BY <1>1, <1>8, <1>9, <1>10, <1>11 DEF InOrder, m
<1> QED
  BY <1>4, <1>7, <1>12 DEF c, t, x, Q, r

\* The stream is empty at first.
LEMMA OrderInit == FittingCommands /\ Init => OrderInv
<1> SUFFICES ASSUME Init PROVE OrderInv
  OBVIOUS
<1> DEFINE cut == [i \in 0..0 |-> 0]
<1>1. /\ sent["serial"] = <<>> /\ ran["serial"] = <<>>
      /\ heard = <<>> /\ rx = <<>> /\ typed = <<>> /\ pc = "loop" /\ Len(<<>>) = 0
  BY DEF Init, Port
<1>2. cut[0] = 0
  OBVIOUS
<1> HIDE DEF cut
<1>3. Written(<<>>, cut, <<>>, <<>>)
  BY <1>1, <1>2 DEF Written
<1>4. Carried(<<>>, 0, 0, <<>>, <<>>, <<>>)
  BY <1>1 DEF Carried
<1>5. Turn(cut, 0, 0, <<>>, "loop")
  BY DEF Turn
<1>6. InOrder(<<>>, cut, <<>>, <<>>, <<>>, <<>>, <<>>, <<>>, "loop")
  BY <1>1, <1>2, <1>3, <1>4, <1>5 DEF InOrder
<1> QED
  BY <1>1, <1>6 DEF OrderInv

\* Nothing of the serial line moves.
LEMMA OrderPrimed ==
    ASSUME fw' = fw, NEW cs, NEW cut, NEW h,
           InOrder(cs, cut, h, sent'["serial"], ran'["serial"], heard', rx', typed', pc')
    PROVE  OrderInv'
<1>1. InOrder(cs, cut, h, sent["serial"], ran["serial"], heard, rx, typed, pc)'
  BY DEF InOrder, Written, Carried, Turn
<1> QED
  BY <1>1 DEF OrderInv

\* The main program goes on with the same command.
LEMMA OrderGoesOn ==
    ASSUME NEW cs, NEW cut, NEW h, NEW S, NEW R, NEW hd, NEW bf, NEW ty,
           NEW p \in {"args", "clear", "switch"}, NEW q \in {"clear", "switch", "act"},
           InOrder(cs, cut, h, S, R, hd, bf, ty, p)
    PROVE  InOrder(cs, cut, h, S, R, hd, bf, ty, q)
  BY DEF InOrder, Turn

\* The buffers are reset: the main program waits for the next command.
LEMMA OrderReset ==
    ASSUME fw \in DOMAIN Commands, FittingCommands, NEW cs, NEW cut, NEW h,
           NEW S \in Seq(Command), NEW R \in Seq(Command), NEW hd, NEW bf, NEW ty,
           InOrder(cs, cut, h, S, R, hd, bf, ty, "reset")
    PROVE  InOrder(cs, cut, h, S, R, hd, bf, ty, "loop")
<1> DEFINE r == Len(R)
           m == Len(S)
<1>1. r \in Nat /\ m \in Nat /\ r <= m /\ hd = <<>> /\ Len(<<>>) = 0 /\ Written(cs, cut, h, S)
  BY DEF InOrder, Turn
<1>2. ASSUME r < m
      PROVE  cut[r] + Len(hd) < cut[r + 1]
  <2>1. r + 1 \in 1..m /\ (r + 1) - 1 = r /\ r \in 0..m
    BY <1>1, <1>2
  <2>2. /\ cs[r + 1] \in Commands[fw] /\ cut[r] \in Nat
        /\ cut[r + 1] = cut[r] + Len(Text(cs[r + 1]))
    BY <1>1, <2>1 DEF Written
  <2>3. Len(Text(cs[r + 1])) = Len(Body(cs[r + 1])) + 1 /\ Len(Body(cs[r + 1])) \in Nat
    BY <2>2, TextAt DEF FittingCommands
  <2> QED
    BY <1>1, <2>2, <2>3
<1> QED
  BY <1>2 DEF InOrder, Turn

\* Every step keeps the stream in order, or a character is lost or run over.
LEMMA OrderStep ==
    ASSUME TypeOK, FittingCommands, ParseInv, OrderInv, [Next]_vars
    PROVE  OrderInv'
<1> DEFINE S == sent["serial"]
           R == ran["serial"]
<1> SUFFICES ASSUME "serial" \notin spoilt', ~Overrun'
             PROVE  OrderInv'
  BY DEF OrderInv
<1>1. ~Overrun
  BY OverrunStays
<1>2. "serial" \notin spoilt /\ fw' = fw
  BY DEF Next, Main, SerialSend, BusSend, Arrive, BusRequest, Read, Args, Clear, Switch, Act,
         ResetParam, host, vars, Port
<1>3. PICK cs, cut, h : InOrder(cs, cut, h, S, R, heard, rx, typed, pc)
  BY <1>1, <1>2 DEF OrderInv
<1>4. /\ S \in Seq(Command) /\ R \in Seq(Command) /\ fw \in DOMAIN Commands
      /\ typed \in Seq(Char) /\ rx \in Seq(Char) /\ heard \in Seq(Char)
      /\ sent \in [Port -> Seq(Command)] /\ ran \in [Port -> Seq(Command)]
      /\ "serial" \in Port /\ "iic" \in Port /\ "serial" # "iic"
  BY DEF TypeOK, Port
<1>5. ASSUME NEW c \in Commands[fw], SerialSend(c)
      PROVE  OrderInv'
  <2> DEFINE x == Meaning("serial", c)
  <2>1. /\ typed = <<>> /\ typed' = Text(c) /\ UNCHANGED <<rx, pc, ran, heard>>
        /\ sent' = [sent EXCEPT !["serial"] = Append(@, x)]
    BY <1>5 DEF SerialSend
  <2> HIDE DEF x
  <2>2. sent'["serial"] = Append(S, x)
    BY <1>4, <2>1
  <2>3. Fits(fw, c)
    BY <1>4 DEF FittingCommands
  <2>4. InOrder(cs, cut, h, S, R, heard, rx, <<>>, pc)
    BY <1>3, <2>1
  <2> HIDE DEF S, R
  <2>5. \E ds, du, g : InOrder(ds, du, g, Append(S, x), R, heard, rx, Text(c), pc)
    BY <1>4, <2>3, <2>4, OrderSend DEF x
  <2>6. PICK ds, du, g : InOrder(ds, du, g, Append(S, x), R, heard, rx, Text(c), pc)
    BY <2>5
  <2>7. InOrder(ds, du, g, sent'["serial"], ran'["serial"], heard', rx', typed', pc')
    BY <2>1, <2>2, <2>6 DEF R
  <2> QED
    BY <1>2, <2>7, OrderPrimed
<1>6. ASSUME NEW c \in Commands[fw], BusSend(c)
      PROVE  OrderInv'
  <2>1. heard = <<>> /\ pc = "loop" /\ UNCHANGED <<heard, typed, rx, pc>>
    BY <1>6 DEF BusSend, Port
  <2>2. sent'["serial"] = S /\ ran'["serial"] = R
    BY <1>4, <1>6 DEF BusSend
  <2> QED
    BY <1>2, <1>3, <2>1, <2>2, OrderPrimed
<1>7. CASE Arrive
  <2>1. rx' = Append(rx, Head(typed)) /\ typed' = Tail(typed) /\ typed # <<>>
    BY <1>7 DEF Arrive
  <2>2. UNCHANGED <<sent, ran, heard, pc>>
    BY <1>7 DEF Arrive, host
  <2>3. InOrder(cs, cut, h, S, R, heard, Append(rx, Head(typed)), Tail(typed), pc)
    BY <1>3, <1>4, <2>1, OrderArrive
  <2> QED
    BY <1>2, <2>1, <2>2, <2>3, OrderPrimed
<1>8. CASE Read
  <2>1. pc = "loop" /\ rx # <<>> /\ rx' = Tail(rx) /\ UNCHANGED <<sent, ran, typed>>
    BY <1>8 DEF Read, host
  <2>2. /\ \E c \in Commands[fw] : IsPrefix(Append(heard, Head(rx)), Text(c))
        /\ InOrder(cs, cut, h, S, R, Append(heard, Head(rx)), Tail(rx), typed,
                   IF Head(rx) = CR THEN "args" ELSE "loop")
    <3> HIDE DEF S, R
    <3> QED
      BY <1>3, <1>4, <2>1, OrderRead
  <2>3. heard' = Append(heard, Head(rx)) /\ pc' = IF Head(rx) = CR THEN "args" ELSE "loop"
    BY <1>8, <2>1, <2>2 DEF Read, Complete
  <2> QED
    BY <1>2, <2>1, <2>2, <2>3, OrderPrimed
<1>9. CASE Args \/ Clear \/ Switch
  <2>1. pc \in {"args", "clear", "switch"} /\ pc' \in {"clear", "switch", "act"}
        /\ UNCHANGED <<sent, ran, heard, rx, typed>>
    BY <1>9 DEF Args, Clear, Switch, host
  <2>2. InOrder(cs, cut, h, S, R, heard, rx, typed, pc')
    BY <1>3, <2>1, OrderGoesOn
  <2> QED
    BY <1>2, <2>1, <2>2, OrderPrimed
<1>10. CASE Act
  <2>1. /\ pc = "act" /\ pc' = "reset" /\ heard' = <<>> /\ UNCHANGED <<sent, rx, typed>>
        /\ ran' = [ran EXCEPT !["serial"] =
                      Append(@, [link |-> "serial", cmd |-> sel,
                                 args |-> Arguments(sel, obj.mem, obj.arg)])]
    BY <1>10 DEF Act, host, AfterRun
  <2>2. \E c \in Commands[fw] :
          /\ heard = Text(c) /\ S[Len(R) + 1] = Meaning("serial", c)
          /\ InOrder(cs, cut, h, S, Append(R, Meaning("serial", c)), <<>>, rx, typed, "reset")
    <3> HIDE DEF S, R
    <3> QED
      BY <1>3, <1>4, <2>1, OrderAct
  <2>3. PICK c \in Commands[fw] :
          /\ heard = Text(c)
          /\ InOrder(cs, cut, h, S, Append(R, Meaning("serial", c)), <<>>, rx, typed, "reset")
    BY <2>2
  <2> DEFINE run == [link |-> "serial", cmd |-> sel,
                     args |-> Arguments(sel, obj.mem, obj.arg)]
  <2>4. sel = c.cmd /\ Arguments(sel, obj.mem, obj.arg) = Meaning("serial", c).args
    BY <1>1, <2>1, <2>3 DEF ParseInv
  <2>5. run = Meaning("serial", c)
    BY <2>4 DEF Meaning
  <2> HIDE DEF run
  <2>6. ran' = [ran EXCEPT !["serial"] = Append(@, run)]
    BY <2>1 DEF run
  <2>7. ran'["serial"] = Append(R, Meaning("serial", c))
    BY <1>4, <2>5, <2>6
  <2> QED
    BY <1>2, <2>1, <2>3, <2>7, OrderPrimed
<1>11. CASE ResetParam
  <2>1. pc = "reset" /\ pc' = "loop" /\ UNCHANGED <<sent, ran, heard, rx, typed>>
    BY <1>11 DEF ResetParam, host
  <2>2. InOrder(cs, cut, h, S, R, heard, rx, typed, "loop")
    <3> HIDE DEF S, R
    <3> QED
      BY <1>3, <1>4, <2>1, OrderReset
  <2> QED
    BY <1>2, <2>1, <2>2, OrderPrimed
<1>12. CASE BusRequest \/ UNCHANGED vars
  <2>1. UNCHANGED <<sent, ran, heard, rx, typed, pc>>
    BY <1>12 DEF BusRequest, vars
  <2> QED
    BY <1>2, <1>3, <2>1, OrderPrimed
<1> QED
  BY <1>5, <1>6, <1>7, <1>8, <1>9, <1>10, <1>11, <1>12 DEF Next, Main

\* So it is, always.
LEMMA OrderCorrect ==
    ASSUME FittingCommands
    PROVE  Spec => []OrderInv
<1>1. Init => OrderInv
  BY OrderInit
<1>2. TypeOK /\ ParseInv /\ OrderInv /\ [Next]_vars => OrderInv'
  BY OrderStep
<1>3. Spec => []TypeOK
  BY LinkTypeCorrect
<1>4. Spec => []ParseInv
  BY ParseCorrect
<1> QED
  BY <1>1, <1>2, <1>3, <1>4, PTL DEF Spec

\* RunsInOrder: over an undisturbed link every command is run as it was sent, once
\* and in its turn (loop, procRecChar, recIICData).
THEOREM LinkRunsInOrder ==
    ASSUME FittingCommands
    PROVE  Spec => []RunsInOrder
<1>1. TypeOK /\ BusInv /\ OrderInv => RunsInOrder
  <2> SUFFICES ASSUME TypeOK, BusInv, OrderInv, ~Overrun, NEW l \in Links, l \notin spoilt
               PROVE  IsPrefix(ran[l], sent[l])
    BY DEF RunsInOrder
  <2>1. l \in Port
    BY LinkAssumption
  <2>2. ran[l] \in Seq(Command) /\ sent[l] \in Seq(Command)
    BY <2>1 DEF TypeOK
  <2>3. CASE l = "iic"
    <3>1. ran[l] = sent[l]
      BY <2>3 DEF BusInv
    <3>2. Len(ran[l]) \in Nat
      BY <2>2
    <3> QED
      BY <3>1, <3>2 DEF IsPrefix
  <2>4. CASE l = "serial"
    <3> DEFINE R == ran[l]
               S == sent[l]
    <3>1. PICK cs, cut, h : InOrder(cs, cut, h, S, R, heard, rx, typed, pc)
      BY <2>4 DEF OrderInv
    <3>2. Len(R) <= Len(S) /\ \A i \in 1..Len(R) : R[i] = S[i]
      BY <3>1 DEF InOrder, Turn
    <3>3. R \in Seq(Command) /\ S \in Seq(Command)
      BY <2>2
    <3> HIDE DEF R, S
    <3>4. SubSeq(R, 1, Len(R)) = SubSeq(S, 1, Len(R))
      BY <3>2, <3>3
    <3>5. IsPrefix(R, S)
      BY <3>2, <3>4 DEF IsPrefix
    <3> QED
      BY <3>5 DEF R, S
  <2> QED
    BY <2>1, <2>3, <2>4 DEF Port
<1>2. Spec => []TypeOK
  BY LinkTypeCorrect
<1>3. Spec => []BusInv
  BY BusCorrect
<1>4. Spec => []OrderInv
  BY OrderCorrect
<1> QED
  BY <1>1, <1>2, <1>3, <1>4, PTL

-----------------------------------------------------------------------------
(* The byte behind the buffers.                                            *)

\* A character of a command that fits is stored before it.
LEMMA ParsedTop ==
    ASSUME fw \in DOMAIN Commands, NEW c \in Commands[fw], Fits(fw, c), NEW o \in Object, Base,
           NEW n \in 0..(Len(Body(c)) - 1), Parsed(c, n, o)
    PROVE  Put(o, Body(c)[n + 1]).mem[Top] = o.mem[Top]
<1> DEFINE A  == Len(c.args)
           ch == Body(c)[n + 1]
<1>1. A \in 0..3 /\ \A k \in 1..A : Len(c.args[k]) \in Nat
  BY FitsFacts
<1>2. CASE ch = SP
  <2>1. Put(o, ch) = [o EXCEPT !.argCnt = (@ + 1) % 256, !.argIndex = 0]
    BY <1>2 DEF Put, NextArg
  <2> HIDE DEF ch
  <2> QED
    BY <2>1 DEF Object, ch
<1>3. CASE ch # SP /\ o.argCnt = 0
  <2>1. Put(o, ch) = [o EXCEPT !.cmd_chr = ch]
    BY <1>3 DEF Put
  <2> HIDE DEF ch
  <2> QED
    BY <2>1 DEF Object, ch
<1>4. CASE ch # SP /\ o.argCnt # 0
  <2>1. n # 0
    BY <1>4 DEF Parsed, Clean
  <2>2. PICK k \in 0..A : \E i \in 0..Size(c, k) : n = Start(c, k) + i /\ Inside(c, k, i, o)
    BY <2>1 DEF Parsed
  <2>3. PICK i \in 0..Size(c, k) : n = Start(c, k) + i /\ Inside(c, k, i, o)
    BY <2>2
  <2>4. k \in 1..A /\ o.argCnt = k /\ o.argIndex = i /\ Size(c, k) = Len(c.args[k])
        /\ Size(c, k) \in Nat
    BY <1>1, <1>4, <2>3 DEF Inside, Size
  <2>5. ASSUME i = Size(c, k)
        PROVE  FALSE
    <3>1. CASE k = A
      <4>1. n = Len(Body(c))
        BY <2>3, <2>5, <3>1, BodyAt
      <4>2. Len(Body(c)) \in Nat
        BY TextType
      <4> QED
        BY <4>1, <4>2
    <3>2. CASE k # A
      <4>1. k \in 0..(A - 1) /\ k + 1 \in 1..A
        BY <1>1, <2>4, <3>2
      <4>2. Start(c, k + 1) = n + 1
        BY <2>3, <2>5, <4>1, StartNext
      <4>3. ch = SP
        BY <4>1, <4>2, BodyAt
      <4> QED
        BY <1>4, <4>3
    <3> QED
      BY <3>1, <3>2
  <2>6. i \in 0..(Len(c.args[k]) - 1)
    BY <2>3, <2>4, <2>5
  <2>7. k \in DOMAIN Buffer /\ Buffer[k] + i \in Memory \ {Top}
    BY <2>3, <2>4, <2>6, FilledChar DEF Inside, Object
  <2>8. Write(o, ch) = [o EXCEPT !.mem[Buffer[k] + i] = ch] /\ InArg(o)
    BY <2>4, <2>7 DEF Write, InArg, At
  <2>9. Put(o, ch) = [Write(o, ch) EXCEPT !.argIndex = NextIndex(@)]
    BY <1>4, <2>8 DEF Put
  <2> HIDE DEF ch
  <2>10. Write(o, ch).mem[Top] = o.mem[Top]
    BY <2>7, <2>8 DEF Object
  <2>11. Write(o, ch) = [o EXCEPT !.mem = [o.mem EXCEPT ![Buffer[k] + i] = ch]]
    BY <2>8
  <2>12. Put(o, ch).mem = Write(o, ch).mem
    BY <2>9, <2>11 DEF Object
  <2> QED
    BY <2>10, <2>12 DEF ch
<1> QED
  BY <1>2, <1>3, <1>4

\* So is a whole command, in clean buffers.
LEMMA TakenTop ==
    ASSUME fw \in DOMAIN Commands, NEW c \in Commands[fw], Fits(fw, c), NEW o \in Object, Base,
           Clean(o)
    PROVE  Taken(o, Body(c)).mem[Top] = o.mem[Top]
<1> DEFINE s == Body(c)
<1>1. s \in Seq(Char)
  BY TextType
<1> HIDE DEF s
<1>2. PICK t : /\ t[0] = o
               /\ \A n \in 1..Len(s) : t[n] = Put(t[n - 1], s[n])
               /\ Taken(o, s) = t[Len(s)]
  BY <1>1, TakenSteps
<1> DEFINE S == {n \in Nat : n <= Len(s) => /\ t[n] \in Object /\ Parsed(c, n, t[n])
                                           /\ t[n].mem[Top] = o.mem[Top]}
<1>3. 0 \in S
  BY <1>2 DEF Parsed
<1>4. ASSUME NEW n \in Nat, n \in S
      PROVE  n + 1 \in S
  <2> SUFFICES ASSUME n + 1 <= Len(s)
               PROVE  /\ t[n + 1] \in Object /\ Parsed(c, n + 1, t[n + 1])
                      /\ t[n + 1].mem[Top] = o.mem[Top]
    OBVIOUS
  <2>1. t[n] \in Object /\ Parsed(c, n, t[n]) /\ t[n].mem[Top] = o.mem[Top] /\ n \in 0..(Len(s) - 1)
    BY <1>1, <1>4
  <2>2. t[n + 1] = Put(t[n], s[n + 1]) /\ s[n + 1] \in Char
    BY <1>1, <1>2
  <2>3. Parsed(c, n + 1, Put(t[n], s[n + 1]))
    BY <2>1, ParsedStep DEF s
  <2>4. Put(t[n], s[n + 1]).mem[Top] = t[n].mem[Top]
    BY <2>1, ParsedTop DEF s
  <2> QED
    BY <2>1, <2>2, <2>3, <2>4, PutType
<1>5. Len(s) \in S
  <2> HIDE DEF S
  <2> QED
    BY <1>1, <1>3, <1>4, SetInduction
<1> QED
  BY <1>1, <1>2, <1>5 DEF s

\* Over an undisturbed serial line the character taken is the next of a command.
LEMMA ReadNext ==
    ASSUME TypeOK, FittingCommands, ParseInv, OrderInv, spoilt = {}, ~Overrun, Read, Head(rx) # CR
    PROVE  \E c \in Commands[fw] : /\ Len(heard) \in 0..(Len(Body(c)) - 1)
                                   /\ Head(rx) = Body(c)[Len(heard) + 1]
                                   /\ Parsed(c, Len(heard), obj)
<1> DEFINE n  == Len(heard)
           ch == Head(rx)
           so == Append(heard, ch)
           S  == sent["serial"]
           R  == ran["serial"]
<1>1. /\ S \in Seq(Command) /\ R \in Seq(Command) /\ fw \in DOMAIN Commands
      /\ typed \in Seq(Char) /\ rx \in Seq(Char) /\ heard \in Seq(Char)
      /\ pc = "loop" /\ rx # <<>> /\ ch \in Char
  BY DEF TypeOK, Port, Read
<1>2. PICK cs, cut, h : InOrder(cs, cut, h, S, R, heard, rx, typed, "loop")
  BY <1>1 DEF OrderInv
<1>3. \E c \in Commands[fw] : IsPrefix(so, Text(c))
  <2> HIDE DEF S, R
  <2> QED
    BY <1>1, <1>2, OrderRead
<1>4. PICK c \in Commands[fw] : IsPrefix(so, Text(c))
  BY <1>3
<1> DEFINE t == Text(c)
<1>5. /\ t \in Seq(Char) /\ Len(t) = Len(Body(c)) + 1 /\ Len(Body(c)) \in Nat
      /\ \A i \in 1..Len(Body(c)) : t[i] = Body(c)[i]
      /\ t[Len(t)] = CR
  BY <1>1, TextType, TextAt DEF FittingCommands
<1> HIDE DEF ch, t
<1>6. so \in Seq(Char) /\ Len(so) = n + 1 /\ n \in Nat /\ so[n + 1] = ch
      /\ \A i \in 1..n : so[i] = heard[i]
  BY <1>1
<1> HIDE DEF so, n
<1>7. n + 1 <= Len(t) /\ \A i \in 1..(n + 1) : so[i] = t[i]
  <2>1. Len(so) <= Len(t) /\ SubSeq(so, 1, Len(so)) = SubSeq(t, 1, Len(so))
    BY <1>4 DEF IsPrefix, t
  <2>2. \A i \in 1..Len(so) : SubSeq(so, 1, Len(so))[i] = so[i] /\ SubSeq(t, 1, Len(so))[i] = t[i]
    BY <1>5, <1>6, <2>1
  <2> QED
    BY <1>6, <2>1, <2>2
<1>8. ch = t[n + 1] /\ \A i \in 1..n : heard[i] = t[i]
  BY <1>6, <1>7
<1>9. n + 1 # Len(t)
  BY <1>5, <1>8 DEF ch
<1>10. n \in 0..(Len(Body(c)) - 1) /\ n < Len(t)
  BY <1>5, <1>6, <1>7, <1>9
<1>11. ch = Body(c)[n + 1]
  BY <1>5, <1>8, <1>10
<1>12. Begun(c)
  BY <1>8, <1>10 DEF Begun, n, t
<1>13. Parsed(c, n, obj)
  BY <1>1, <1>12 DEF ParseInv, n
<1> QED
  BY <1>10, <1>11, <1>13 DEF n, ch

\* No step stores anything there.
LEMMA RunOverStep ==
    ASSUME TypeOK, FittingCommands, ParseInv, OrderInv, NothingRunOver, [Next]_vars
    PROVE  NothingRunOver'
<1> SUFFICES ASSUME spoilt' = {} PROVE ~Overrun'
  BY DEF NothingRunOver
<1>1. spoilt = {} /\ fw' = fw /\ fw \in DOMAIN Commands /\ obj \in Object
  BY DEF Next, Main, SerialSend, BusSend, Arrive, BusRequest, Read, Args, Clear, Switch, Act,
         ResetParam, host, vars, Port, TypeOK
<1>2. ~Overrun
  BY <1>1 DEF NothingRunOver
<1> SUFFICES ASSUME Base PROVE obj'.mem[Top] = NUL
  BY <1>1, ParsePrimed
<1>3. obj.mem[Top] = NUL
  BY <1>2 DEF Overrun
<1>4. ASSUME NEW c \in Commands[fw], BusSend(c)
      PROVE  obj'.mem[Top] = NUL
  <2> DEFINE o == Taken(obj, Body(c))
             r == Reset(o)
             g == Converted(o)
  <2>1. heard = <<>> /\ pc = "loop"
    BY <1>4 DEF BusSend, Port
  <2>2. Clean(obj)
    BY <2>1 DEF TypeOK, Clean
  <2>3. o.mem[Top] = NUL
    BY <1>1, <1>3, <2>2, TakenTop DEF FittingCommands
  <2>4. o \in Object
    BY <1>1, TakenType, TextType
  <2>5. r \in Object /\ r.mem[Top] = NUL
    BY <1>1, <2>3, <2>4, ResetType
  <2>6. obj' = [r EXCEPT !.arg = g]
    BY <1>4 DEF BusSend
  <2> HIDE DEF r, g
  <2> QED
    BY <2>5, <2>6 DEF Object
<1>5. CASE Read
  <2>1. CASE Head(rx) = CR
    BY <1>1, <1>3, <1>5, <2>1, TerminateType DEF Read, Complete
  <2>2. CASE Head(rx) # CR
    <3>1. PICK c \in Commands[fw] : /\ Len(heard) \in 0..(Len(Body(c)) - 1)
                                    /\ Head(rx) = Body(c)[Len(heard) + 1]
                                    /\ Parsed(c, Len(heard), obj)
      BY <1>1, <1>2, <1>5, <2>2, ReadNext
    <3>2. obj' = Put(obj, Head(rx))
      BY <1>5, <2>2 DEF Read, Complete
    <3>3. Put(obj, Body(c)[Len(heard) + 1]).mem[Top] = obj.mem[Top]
      BY <1>1, <3>1, ParsedTop DEF FittingCommands
    <3> QED
      BY <1>3, <3>1, <3>2, <3>3
  <2> QED
    BY <2>1, <2>2
<1>6. CASE Args
  <2> DEFINE g == Converted(obj)
  <2>1. obj' = [obj EXCEPT !.arg = g]
    BY <1>6 DEF Args
  <2> HIDE DEF g
  <2> QED
    BY <1>1, <1>3, <2>1 DEF Object
<1>7. CASE ResetParam
  BY <1>1, <1>3, <1>7, ResetType DEF ResetParam
<1>8. ASSUME NEW c \in Commands[fw], SerialSend(c)
      PROVE  obj'.mem[Top] = NUL
  BY <1>3, <1>8 DEF SerialSend
<1>9. CASE Arrive \/ BusRequest \/ Clear \/ Switch \/ Act \/ UNCHANGED vars
  BY <1>3, <1>9 DEF Arrive, BusRequest, Clear, Switch, Act, vars
<1> QED
  BY <1>4, <1>5, <1>6, <1>7, <1>8, <1>9 DEF Next, Main

\* NothingRunOver: while nothing was lost or interrupted, the byte behind the
\* buffers is never written (procRecChar).
THEOREM LinkNothingRunOver ==
    ASSUME FittingCommands
    PROVE  Spec => []NothingRunOver
<1>1. Init => NothingRunOver
  <2> SUFFICES ASSUME Init PROVE ~Overrun
    BY DEF NothingRunOver
  <2>1. Top \in Memory /\ obj.mem = [a \in Memory |-> IF a = Top THEN NUL ELSE Fill]
    BY Layout DEF Init, Memory
  <2> QED
    BY <2>1 DEF Overrun
<1>2. TypeOK /\ ParseInv /\ OrderInv /\ NothingRunOver /\ [Next]_vars => NothingRunOver'
  BY RunOverStep
<1>3. Spec => []TypeOK
  BY LinkTypeCorrect
<1>4. Spec => []ParseInv
  BY ParseCorrect
<1>5. Spec => []OrderInv
  BY OrderCorrect
<1> QED
  BY <1>1, <1>2, <1>3, <1>4, <1>5, PTL DEF Spec

-----------------------------------------------------------------------------
(* The abstract specification.                                             *)

\* The bridge has no reply buffer; that of the base is empty while a serial command
\* is looked at and run, and holds the answer of the command run last otherwise,
\* unless a message met a serial command.  One that does spoils both links.
AnswerInv ==
    /\ ~Base => ack = <<>> /\ reply = <<>>
    /\ "iic" \notin spoilt /\ pc \in {"switch", "act"} => ack = <<>>
    /\ last = "none" => ack = <<>> /\ reply = <<>>
    /\ Base /\ "iic" \notin spoilt /\ pc \notin {"switch", "act"} /\ last # "none"
         => ack = <<Last(ran[last])>>
    /\ "iic" \in spoilt => spoilt = Port

\* No reply is ready at first.
LEMMA AnswerInit == Init => AnswerInv
  BY DEF Init, AnswerInv

\* Every step keeps it so.
LEMMA AnswerStep ==
    ASSUME TypeOK, AnswerInv, [Next]_vars
    PROVE  AnswerInv'
<1> DEFINE Goal == /\ ~Base => ack' = <<>> /\ reply' = <<>>
                   /\ "iic" \notin spoilt' /\ pc' \in {"switch", "act"} => ack' = <<>>
                   /\ last' = "none" => ack' = <<>> /\ reply' = <<>>
                   /\ Base /\ "iic" \notin spoilt' /\ pc' \notin {"switch", "act"}
                           /\ last' # "none" => ack' = <<Last(ran'[last'])>>
                   /\ "iic" \in spoilt' => spoilt' = Port
<1>1. fw' = fw
  BY DEF Next, Main, SerialSend, BusSend, Arrive, BusRequest, Read, Args, Clear, Switch, Act,
         ResetParam, host, vars
<1>2. /\ spoilt \subseteq Port /\ "serial" \in Port /\ "iic" \in Port /\ "iic" # "serial"
      /\ ran \in [Port -> Seq(Command)]
  BY DEF TypeOK, Port
<1>3. Base' = Base /\ Port' = Port
  BY <1>1, SameFirmware DEF Port
<1> SUFFICES Goal
  BY <1>3 DEF AnswerInv
<1>4. \A l \in Port : \A r : \A s : s = [ran EXCEPT ![l] = Append(@, r)] => Last(s[l]) = r
  BY <1>2 DEF Last
<1>5. ASSUME NEW c \in Commands[fw], BusSend(c)
      PROVE  Goal
  <2>1. /\ Base /\ pc' = pc /\ last' = "iic" /\ ack' = <<BusRun(c)>>
        /\ ran' = [ran EXCEPT !["iic"] = Append(@, BusRun(c))]
        /\ spoilt' = IF heard = <<>> /\ pc = "loop" THEN spoilt ELSE Port
    BY <1>5 DEF BusSend, BusRun, ResetI2CData
  <2>2. Last(ran'[last']) = BusRun(c)
    BY <1>2, <1>4, <2>1
  <2> QED
    BY <1>2, <2>1, <2>2 DEF AnswerInv
<1>6. ASSUME NEW c \in Commands[fw], SerialSend(c)
      PROVE  Goal
  BY <1>6 DEF SerialSend, AnswerInv
<1>7. CASE Arrive
  <2>1. UNCHANGED <<ack, reply, pc, last, ran>> /\ spoilt' \in {spoilt, spoilt \cup {"serial"}}
    BY <1>7 DEF Arrive, host
  <2> QED
    BY <1>2, <2>1 DEF AnswerInv
<1>8. CASE BusRequest
  <2>1. Base /\ reply' = ack /\ UNCHANGED <<ack, pc, last, ran, spoilt>>
    BY <1>8 DEF BusRequest
  <2> QED
    BY <2>1 DEF AnswerInv
<1>9. CASE Read \/ Args \/ Switch \/ ResetParam \/ UNCHANGED vars
  <2>1. UNCHANGED <<ack, reply, last, ran, spoilt>>
    BY <1>9 DEF Read, Args, Switch, ResetParam, host, vars
  <2>2. /\ pc' \in {"switch", "act"} /\ Base => pc \in {"switch", "act"}
        /\ pc' \notin {"switch", "act"} => pc \notin {"switch", "act"}
    BY <1>9 DEF Read, Args, Switch, ResetParam, vars
  <2> QED
    BY <2>1, <2>2 DEF AnswerInv
<1>10. CASE Clear
  <2>1. pc' = "switch" /\ ack' = <<>> /\ UNCHANGED <<reply, last, ran, spoilt>>
    BY <1>10 DEF Clear, ResetI2CData, host
  <2> QED
    BY <2>1 DEF AnswerInv
<1>11. CASE Act
  <2> DEFINE r == [link |-> "serial", cmd |-> sel, args |-> Arguments(sel, obj.mem, obj.arg)]
  <2>1. /\ pc = "act" /\ pc' = "reset" /\ last' = "serial" /\ UNCHANGED <<reply, spoilt>>
        /\ ack' = (IF Base THEN Append(ack, r) ELSE ack)
        /\ ran' = [ran EXCEPT !["serial"] = Append(@, r)]
    BY <1>11 DEF Act, AfterRun, host
  <2> HIDE DEF r
  <2>2. Last(ran'[last']) = r
    BY <1>2, <1>4, <2>1
  <2>3. Base /\ "iic" \notin spoilt => ack' = <<r>>
    <3>1. "iic" \notin spoilt => ack = <<>>
      BY <2>1 DEF AnswerInv
    <3>2. Append(<<>>, r) = <<r>>
      OBVIOUS
    <3> QED
      BY <2>1, <3>1, <3>2
  <2> QED
    BY <2>1, <2>2, <2>3 DEF AnswerInv
<1> HIDE DEF Goal
<1> QED
  BY <1>5, <1>6, <1>7, <1>8, <1>9, <1>10, <1>11 DEF Next, Main

\* So it is, always.
LEMMA AnswerCorrect == Spec => []AnswerInv
<1>1. Init => AnswerInv
  BY AnswerInit
<1>2. TypeOK /\ AnswerInv /\ [Next]_vars => AnswerInv'
  BY AnswerStep
<1> QED
  BY <1>1, <1>2, LinkTypeCorrect, PTL DEF Spec

\* ReplyIsLast: as long as no message met a serial command, the master reads the
\* answer of the command run last over either link, or, while a serial command is
\* under way, none (runCommand, recIICData, sendIICData).
THEOREM LinkReplyIsLast ==
    ASSUME FittingCommands
    PROVE  Spec => ReplyIsLast
<1> DEFINE IsLast == reply' # reply /\ "iic" \notin spoilt =>
                       \/ reply' = <<>> /\ pc \in {"switch", "act"}
                       \/ /\ reply' = <<Last(ran[last])>>
                          /\ last = "iic" /\ ~Overrun => Last(ran[last]) = Last(sent["iic"])
<1>1. BusInv /\ AnswerInv /\ [Next]_vars => [IsLast]_vars
  <2> SUFFICES ASSUME BusInv, AnswerInv, [Next]_vars, reply' # reply, "iic" \notin spoilt
               PROVE  IsLast
    OBVIOUS
  <2>1. reply' = ack /\ Base
    BY DEF Next, Main, SerialSend, BusSend, Arrive, BusRequest, Read, Args, Clear, Switch, Act,
           ResetParam, host, vars
  <2>2. CASE pc \in {"switch", "act"}
    BY <2>1, <2>2 DEF AnswerInv
  <2>3. CASE pc \notin {"switch", "act"}
    <3>1. last # "none"
      BY <2>1 DEF AnswerInv
    <3>2. reply' = <<Last(ran[last])>>
      BY <2>1, <2>3, <3>1 DEF AnswerInv
    <3> QED
      BY <3>2 DEF BusInv
  <2> QED
    BY <2>2, <2>3
<1>2. Spec => []BusInv /\ []AnswerInv
  BY BusCorrect, AnswerCorrect
<1>3. Spec => [][Next]_vars
  BY PTL DEF Spec
<1>4. Spec => [][IsLast]_vars
  BY <1>1, <1>2, <1>3, PTL
<1> QED
  BY <1>4, PTL DEF ReplyIsLast

\* A sequence is a prefix of itself, and of what is longer by one.
LEMMA PrefixLonger ==
    ASSUME NEW S, NEW s \in Seq(S), NEW x
    PROVE  IsPrefix(s, s) /\ IsPrefix(s, Append(s, x))
<1>1. Len(s) \in Nat /\ Len(Append(s, x)) = Len(s) + 1
  OBVIOUS
<1>2. SubSeq(s, 1, Len(s)) = SubSeq(Append(s, x), 1, Len(s))
  OBVIOUS
<1> QED
  BY <1>1, <1>2 DEF IsPrefix

\* What was sent and run is never taken back.
LEMMA PastKept ==
    ASSUME TypeOK, [Next]_vars
    PROVE  /\ \A p \in Port : IsPrefix(sent[p], sent'[p]) /\ IsPrefix(ran[p], ran'[p])
           /\ reply' \in {reply, ack}
<1>1. sent \in [Port -> Seq(Command)] /\ ran \in [Port -> Seq(Command)]
  BY DEF TypeOK
<1>2. \A p \in Port : \A x :
         /\ IsPrefix(sent[p], sent[p]) /\ IsPrefix(sent[p], Append(sent[p], x))
         /\ IsPrefix(ran[p], ran[p]) /\ IsPrefix(ran[p], Append(ran[p], x))
  BY <1>1, PrefixLonger
<1>3. ASSUME NEW c \in Commands[fw], BusSend(c)
      PROVE  /\ \A p \in Port : IsPrefix(sent[p], sent'[p]) /\ IsPrefix(ran[p], ran'[p])
             /\ reply' = reply
  <2>1. PICK x, y : /\ sent' = [sent EXCEPT !["iic"] = Append(@, x)]
                    /\ ran' = [ran EXCEPT !["iic"] = Append(@, y)] /\ reply' = reply
    BY <1>3 DEF BusSend
  <2> QED
    BY <1>1, <1>2, <2>1
<1>4. ASSUME NEW c \in Commands[fw], SerialSend(c)
      PROVE  /\ \A p \in Port : IsPrefix(sent[p], sent'[p]) /\ IsPrefix(ran[p], ran'[p])
             /\ reply' = reply
  <2>1. PICK x : sent' = [sent EXCEPT !["serial"] = Append(@, x)] /\ UNCHANGED <<ran, reply>>
    BY <1>4 DEF SerialSend
  <2> QED
    BY <1>1, <1>2, <2>1
<1>5. CASE Act
  <2>1. PICK x : ran' = [ran EXCEPT !["serial"] = Append(@, x)] /\ UNCHANGED <<sent, reply>>
    BY <1>5 DEF Act, host
  <2> QED
    BY <1>1, <1>2, <2>1
<1>6. CASE BusRequest \/ Arrive \/ Read \/ Args \/ Clear \/ Switch \/ ResetParam \/ UNCHANGED vars
  <2>1. UNCHANGED <<sent, ran>> /\ reply' \in {reply, ack}
    BY <1>6 DEF BusRequest, Arrive, Read, Args, Clear, Switch, ResetParam, host, vars
  <2> QED
    BY <1>2, <2>1
<1> QED
  BY <1>3, <1>4, <1>5, <1>6 DEF Next, Main

\* A serial command that is under way was sent.
LEMMA UnderWay ==
    ASSUME OrderInv, "serial" \notin spoilt, ~Overrun, pc \in {"args", "clear", "switch", "act"}
    PROVE  Len(ran["serial"]) < Len(sent["serial"])
  BY DEF OrderInv, InOrder, Turn

\* The command that is run next is the one sent next.
LEMMA RunNext ==
    ASSUME TypeOK, OrderInv', "serial" \notin spoilt', ~Overrun', Act
    PROVE  /\ Last(ran'["serial"]) = sent["serial"][Len(ran["serial"]) + 1]
           /\ Len(ran["serial"]) < Len(sent["serial"])
<1> DEFINE R == ran["serial"]
           Q == ran'["serial"]
           S == sent["serial"]
<1>1. R \in Seq(Command) /\ S \in Seq(Command)
  BY DEF TypeOK, Port
<1>2. PICK r : Q = Append(R, r)
  BY DEF TypeOK, Act, Port
<1>3. S = sent'["serial"]
  BY DEF Act, host
<1>4. Len(Q) <= Len(S) /\ \A i \in 1..Len(Q) : Q[i] = S[i]
  BY <1>3 DEF OrderInv, InOrder, Turn
<1> HIDE DEF R, Q, S
<1>5. Len(Q) = Len(R) + 1 /\ Q[Len(R) + 1] = r /\ Last(Q) = r
  BY <1>1, <1>2 DEF Last
<1>6. Last(Q) = S[Len(R) + 1] /\ Len(R) < Len(S)
  BY <1>1, <1>4, <1>5
<1> QED
  BY <1>6 DEF R, Q, S

\* Every step is one of the abstract specification, or none.
LEMMA DeliveryStep ==
    ASSUME TypeOK, FittingCommands, BusInv, AnswerInv, OrderInv, OrderInv', [Next]_vars
    PROVE  [Delivery!Next]_(Delivery!vars)
<1> DEFINE disturbed == IF Overrun THEN Port ELSE spoilt
<1>1. /\ sent \in [Port -> Seq(Command)] /\ ran \in [Port -> Seq(Command)]
      /\ "serial" \in Port /\ "iic" \in Port /\ "serial" # "iic" /\ Port' = Port
      /\ fw \in DOMAIN Commands
  BY DEF TypeOK, Port
<1>2. ASSUME disturbed' = Port
      PROVE  Delivery!Next
  BY <1>1, <1>2, PastKept DEF Delivery!Next, Delivery!Mix, Delivery!IsPrefix, IsPrefix
<1>3. CASE Overrun'
  BY <1>1, <1>2, <1>3
<1>4. CASE ~Overrun'
  <2>1. ~Overrun /\ disturbed = spoilt /\ disturbed' = spoilt'
    BY <1>4, OverrunStays
  <2> HIDE DEF disturbed
  <2> USE DEF Delivery!vars
  <2>2. ASSUME NEW l \in Port, NEW c \in Commands[fw]
        PROVE  Meaning(l, c) \in Message
    <3>1. c \in UNION {Commands[f] : f \in DOMAIN Commands}
      BY <1>1
    <3> QED
      BY <3>1 DEF Message
  <2>3. ASSUME NEW c \in Commands[fw], BusSend(c)
        PROVE  Delivery!Next
    <3>1. CASE spoilt' = Port
      BY <1>2, <2>1, <3>1
    <3>2. CASE spoilt' # Port
      <4>1. spoilt' = spoilt /\ "iic" \notin spoilt /\ heard = <<>> /\ pc = "loop"
        BY <2>3, <3>2 DEF BusSend, AnswerInv
      <4>2. ran["iic"] = sent["iic"]
        BY <2>1, <4>1 DEF BusInv
      <4> DEFINE m == Meaning("iic", c)
      <4>3. BusRun(c) = m
        BY <1>4, <2>3, <4>1, BusRunIs
      <4>4. m \in Message
        BY <1>1, <2>2
      <4>5. /\ sent' = [sent EXCEPT !["iic"] = Append(@, m)]
            /\ ran' = [ran EXCEPT !["iic"] = Append(@, m)]
            /\ ack' = Append(<<>>, m) /\ reply' = reply
        BY <2>3, <4>3 DEF BusSend, BusRun, ResetI2CData
      <4> HIDE DEF m
      <4>6. Delivery!Call("iic", m)
        BY <2>1, <4>1, <4>2, <4>5 DEF Delivery!Call, Delivery!Ran, disturbed
      <4> QED
        BY <1>1, <4>4, <4>6 DEF Delivery!Next
    <3> QED
      BY <3>1, <3>2
  <2>4. ASSUME NEW c \in Commands[fw], SerialSend(c)
        PROVE  Delivery!Next
    <3> DEFINE m == Meaning("serial", c)
    <3>1. m \in Message
      BY <1>1, <2>2
    <3> HIDE DEF m
    <3>2. /\ sent' = [sent EXCEPT !["serial"] = Append(@, m)]
          /\ UNCHANGED <<ran, ack, reply, spoilt>>
      BY <2>4 DEF SerialSend, m
    <3>3. Delivery!Send("serial", m)
      BY <2>1, <3>2 DEF Delivery!Send, disturbed
    <3> QED
      BY <1>1, <3>1, <3>3 DEF Delivery!Next
  <2>5. CASE Arrive
    <3>1. UNCHANGED <<sent, ran, ack, reply>> /\ spoilt' \in {spoilt, spoilt \cup {"serial"}}
      BY <2>5 DEF Arrive, host
    <3>2. CASE spoilt' = spoilt
      BY <2>1, <3>1, <3>2 DEF disturbed
    <3>3. CASE spoilt' = spoilt \cup {"serial"}
      <4>1. Delivery!Lose("serial")
        BY <2>1, <3>1, <3>3 DEF Delivery!Lose, disturbed
      <4> QED
        BY <1>1, <4>1 DEF Delivery!Next
    <3> QED
      BY <3>1, <3>2, <3>3
  <2>6. CASE BusRequest
    <3>1. Delivery!Request
      BY <2>1, <2>6 DEF BusRequest, Delivery!Request, disturbed
    <3> QED
      BY <3>1 DEF Delivery!Next
  <2>7. CASE Clear
    <3>1. UNCHANGED <<sent, ran, reply, spoilt>> /\ ack' = <<>> /\ pc = "clear"
      BY <2>7 DEF Clear, ResetI2CData, host
    <3>2. Delivery!Waiting("serial")
      BY <2>1, <3>1, UnderWay DEF Delivery!Waiting, disturbed
    <3>3. Delivery!Withdraw
      BY <1>1, <2>1, <3>1, <3>2 DEF Delivery!Withdraw, disturbed
    <3> QED
      BY <3>3 DEF Delivery!Next
  <2>8. CASE Act
    <3> DEFINE r == [link |-> "serial", cmd |-> sel,
                     args |-> Arguments(sel, obj.mem, obj.arg)]
    <3>1. /\ ran' = [ran EXCEPT !["serial"] = Append(@, r)]
          /\ ack' = (IF Base THEN Append(ack, r) ELSE ack)
          /\ UNCHANGED <<sent, reply, spoilt>> /\ pc = "act"
      BY <2>8 DEF Act, host
    <3>2. CASE "iic" \in spoilt
      BY <1>2, <2>1, <3>1, <3>2 DEF AnswerInv
    <3>3. CASE "iic" \notin spoilt
      <4>1. ack' \in {<<r>>, <<>>}
        BY <3>1, <3>3 DEF AnswerInv
      <4> HIDE DEF r
      <4>2. ran'["serial"] = Append(ran["serial"], r) /\ ran["serial"] \in Seq(Command)
        BY <1>1, <3>1
      <4>3. Last(ran'["serial"]) = r /\ Len(ran'["serial"]) > Len(ran["serial"])
        BY <4>2 DEF Last
      <4>4. Delivery!Ran("serial", r)
        BY <2>1, <3>1, <4>1 DEF Delivery!Ran, disturbed
      <4>5. CASE "serial" \in spoilt
        <5>1. Delivery!RunAnything("serial")
          BY <2>1, <3>1, <4>3, <4>4, <4>5 DEF Delivery!RunAnything, Delivery!Last, Last, disturbed
        <5> QED
          BY <1>1, <5>1 DEF Delivery!Next
      <4>6. CASE "serial" \notin spoilt
        <5>1. /\ r = sent["serial"][Len(ran["serial"]) + 1]
              /\ Len(ran["serial"]) < Len(sent["serial"])
          BY <1>4, <2>8, <3>1, <4>3, <4>6, RunNext
        <5>2. Delivery!Run("serial")
          BY <2>1, <3>1, <4>4, <4>6, <5>1 DEF Delivery!Run, Delivery!Waiting, disturbed
        <5> QED
          BY <1>1, <5>2 DEF Delivery!Next
      <4> QED
        BY <4>5, <4>6
    <3> QED
      BY <3>2, <3>3
  <2>9. CASE Read \/ Args \/ Switch \/ ResetParam \/ UNCHANGED vars
    <3>1. UNCHANGED <<sent, ran, ack, reply, spoilt>>
      BY <2>9 DEF Read, Args, Switch, ResetParam, host, vars
    <3> QED
      BY <2>1, <3>1 DEF disturbed
  <2> QED
    BY <2>3, <2>4, <2>5, <2>6, <2>7, <2>8, <2>9 DEF Next, Main
<1> QED
  BY <1>3, <1>4

\* ImplementsCommandDelivery: the link of either firmware delivers commands as the
\* abstract specification says (runCommand, recIICData, sendIICData).
THEOREM LinkImplementsCommandDelivery ==
    ASSUME FittingCommands
    PROVE  Spec => ImplementsCommandDelivery
<1>1. Init => Delivery!Init
  <2> SUFFICES ASSUME Init PROVE ~Overrun
    BY DEF Init, Delivery!Init
  <2>1. Top \in Memory /\ obj.mem = [a \in Memory |-> IF a = Top THEN NUL ELSE Fill]
    BY Layout DEF Init, Memory
  <2> QED
    BY <2>1 DEF Overrun
<1>2. Spec => []AnswerInv
  BY AnswerCorrect
<1>3. /\ TypeOK /\ BusInv /\ AnswerInv /\ OrderInv /\ OrderInv' /\ [Next]_vars
         => [Delivery!Next]_(Delivery!vars)
  BY DeliveryStep
<1>4. Spec => []TypeOK /\ []BusInv /\ []OrderInv
  BY LinkTypeCorrect, BusCorrect, OrderCorrect
<1> QED
  BY <1>1, <1>2, <1>3, <1>4, PTL DEF Spec, ImplementsCommandDelivery, Delivery!Spec
=============================================================================
