----------------------------- MODULE CommandLink -----------------------------
(***************************************************************************)
(* How a command reaches runCommand, in both firmwares.  The base          *)
(* (mobileBase.ino: loop, procRecChar, recIICData; serialI2CData) takes    *)
(* characters from the serial line and messages from the I2C bus apart in  *)
(* the one object cmdDataObj; the bridge (ROSArduinoBridge.ino: loop) has  *)
(* the serial line alone and buffers that end with NUL.                    *)
(*                                                                         *)
(* The arguments lie one behind the other in memory and atoi knows no      *)
(* buffer ends, so they are modelled as one memory.  A number is the       *)
(* sequence of its characters: atoi is what it stops at, not the value.    *)
(* The gains of 'u' are the text they are cut out of, up to its last       *)
(* character but the filling.                                              *)
(***************************************************************************)
EXTENDS Integers, Sequences, SequencesExt

CONSTANTS
    Char,        \* the characters but NUL; those without a glyph have names here
    Links,       \* the links of the base in use, a subset of {"serial", "iic"}
    Commands,    \* for each firmware, the commands the hosts may send
    Len1,        \* base: size of argv1, 36 in the code
    Len2,        \* base: size of argv2 and of argv3, 4 in the code
    BridgeLen,   \* bridge: size of argv1 and of argv2, 16 in the code
    RxSize,      \* characters the ring buffer of the serial port holds
    MaxSent      \* bound: commands sent, over both links

CR   == "CR"
SP   == " "
NUL  == "NUL"
Byte == Char \cup {NUL}
Port == {"serial", "iic"}
Digit == {"0", "1", "2", "3", "4", "5", "6", "7", "8", "9"}

\* The command that takes gains, joined by colons, for an argument.
UPDATE_PID == "u"

ASSUME LinkAssumption ==
    /\ Digit \cup {CR, SP, "-", "?"} \subseteq Char /\ NUL \notin Char
    /\ Links \subseteq Port
    /\ DOMAIN Commands \subseteq {"base", "bridge"}
    /\ \A f \in DOMAIN Commands : Commands[f] \subseteq [cmd : Char, args : Seq(Seq(Char))]
    /\ Len1 \in 1..256 /\ Len2 \in 1..256    \* argIndex is a byte
    /\ BridgeLen \in Nat \ {0} /\ RxSize \in Nat /\ MaxSent \in Nat

VARIABLES
    fw,        \* the firmware, "base" or "bridge"
    typed,     \* serial host: what is left of the command being written
    rx,        \* the ring buffer of the serial port
    obj,       \* cmdDataObj: argCnt, argIndex, cmd_chr, mem (argv), arg
    pc,        \* where the main program is in procRecChar and runCommand
    sel,       \* the case runCommand switched to
    ack,       \* ackMsgStr: the commands the reply in it answers
    sent,      \* history: for each link, the commands sent
    ran,       \* history: for each link, the commands run
    last,      \* history: the link of the command run last
    heard,     \* history: what the main program took from rx since the last CR,
               \* as long as it may become a command
    reply,     \* history: the reply the I2C master read last
    spoilt     \* history: links on which a character was lost, or a message
               \* met a serial command half read or half run

vars == <<fw, typed, rx, obj, pc, sel, ack, sent, ran, last, heard, reply, spoilt>>
host == <<fw, sent, reply>>

\* A command is its character and up to three arguments; an argument is a
\* sequence of characters.  It is written with an end character behind.
Arg(c, n)     == IF n \in DOMAIN c.args THEN <<SP>> \o c.args[n] ELSE <<>>
Body(c)       == <<c.cmd>> \o Arg(c, 1) \o Arg(c, 2) \o Arg(c, 3)
Text(c)       == Append(Body(c), CR)
Meaning(l, c) == [link |-> l, cmd |-> c.cmd,
                  args |-> [n \in 1..3 |-> IF n \in DOMAIN c.args THEN c.args[n]
                                                                  ELSE <<>>]]
Garbled       == <<"?">>
NoArgs        == [n \in 1..3 |-> <<>>]

-----------------------------------------------------------------------------
(* The object and what runCommand reads in it.                             *)

Base   == fw = "base"
Fill   == IF Base THEN CR ELSE NUL
Buffer == IF Base THEN <<0, Len1, Len1 + Len2>> ELSE <<0, BridgeLen>>
Top    == IF Base THEN Len1 + 2 * Len2 ELSE 2 * BridgeLen
Memory == 0..Top    \* with the byte behind: in the base it aligns arg1

\* Mistake: only the counters are reset.
Reset_Counters(o) == [o EXCEPT !.argCnt = 0, !.argIndex = 0]

\* resetCmdParam and resetCommand; the byte behind is no part of any buffer.
Reset(o) == [argCnt |-> 0, argIndex |-> 0, cmd_chr |-> Fill,
             arg |-> IF Base THEN o.arg ELSE NoArgs,
             mem |-> [a \in Memory |-> IF a = Top THEN o.mem[a] ELSE Fill]]

\* Where the run of characters of C from a on ends.
Ends(mem, a, C) == CHOOSE b \in a..(Top + 1) : /\ b = Top + 1 \/ mem[b] \notin C
                                              /\ \A j \in a..(b - 1) : mem[j] \in C

\* atoi at p: skip white space, which the filling '\r' is, take a sign and
\* the digits, and stop at anything else wherever it lies.  Bound: it is taken
\* to stop behind the last byte, where arg1 follows.
Atoi(mem, p) ==
    LET from == Ends(mem, p, {CR})
        sign == IF from <= Top /\ mem[from] = "-" THEN from + 1 ELSE from
        to   == Ends(mem, sign, Digit)
    IN  SubSeq([n \in 1..Top + 1 |-> mem[n - 1]], from + 1, to)

Numbers(o) == [n \in 1..3 |-> IF n \in DOMAIN Buffer THEN Atoi(o.mem, Buffer[n]) ELSE <<>>]

\* The conversion at the head of runCommand, which the base leaves out for 'u'.
Converted(o) == IF Base /\ o.cmd_chr = UPDATE_PID THEN o.arg ELSE Numbers(o)

\* What strtok_r and atoi find gains in: argv1 and all behind it up to NUL, of
\* which the filling at the end holds none.
Gains(mem) ==
    LET nul == Ends(mem, 0, Char)
        to  == CHOOSE b \in 0..nul : /\ b = 0 \/ mem[b - 1] # CR
                                     /\ \A j \in b..(nul - 1) : mem[j] = CR
    IN  SubSeq([n \in 1..Top + 1 |-> mem[n - 1]], 1, to)

\* What the case of command ch works on.
Arguments(ch, mem, arg) == IF ch = UPDATE_PID THEN <<Gains(mem), <<>>, <<>>>> ELSE arg

\* Mistake: every character is stored in the same place.
NextIndex_Same(n) == n
NextIndex(n) == IF Base THEN (n + 1) % 256 ELSE n + 1

\* The place of the next character.  What would be written behind the memory
\* is arg1 to arg3, which runCommand computes before it reads them.
At(o) == Buffer[o.argCnt] + o.argIndex
InArg(o) == o.argCnt \in DOMAIN Buffer
Write(o, c) == IF InArg(o) /\ At(o) \in Memory THEN [o EXCEPT !.mem[At(o)] = c] ELSE o

\* The bridge ends an argument with NUL; the base relies on the filling.
Terminate(o) == IF Base THEN o ELSE Write(o, NUL)

\* Mistake: the next argument goes on where the last one ended.
NextArg_KeepIndex(o) == [o EXCEPT !.argCnt = (@ + 1) % 256]

\* A space: the next argument.  The bridge stays in its second.
NextArg(o) ==
    IF Base THEN [o EXCEPT !.argCnt = (@ + 1) % 256, !.argIndex = 0]
    ELSE IF o.argCnt = 2 THEN o
    ELSE [Terminate(o) EXCEPT !.argCnt = @ + 1, !.argIndex = 0]

\* Any character but '\r'; behind the last argument it is dropped.
Put(o, c) ==
    IF c = SP THEN NextArg(o)
    ELSE IF o.argCnt = 0 THEN [o EXCEPT !.cmd_chr = c]
    ELSE IF InArg(o) THEN [Write(o, c) EXCEPT !.argIndex = NextIndex(@)]
    ELSE o

\* Mistake: the last character of a message is not read.
Taken_ButLast(o, s) ==
    LET taken[n \in 0..Len(s)] == IF n = 0 THEN o ELSE Put(taken[n - 1], s[n])
    IN  taken[Len(s) - 1]

\* The object after the characters of s.
Taken(o, s) ==
    LET taken[n \in 0..Len(s)] == IF n = 0 THEN o ELSE Put(taken[n - 1], s[n])
    IN  taken[Len(s)]

Init ==
    /\ fw \in DOMAIN Commands
    /\ typed = <<>> /\ rx = <<>>
    /\ obj = [argCnt |-> 0, argIndex |-> 0, cmd_chr |-> Fill,
              mem |-> [a \in Memory |-> IF a = Top THEN NUL ELSE Fill],
              arg |-> NoArgs]
    /\ pc = "loop" /\ sel = Fill
    /\ ack = <<>>
    /\ sent = [l \in Port |-> <<>>] /\ ran = [l \in Port |-> <<>>]
    /\ last = "none" /\ heard = <<>> /\ reply = <<>>
    /\ spoilt = {}

-----------------------------------------------------------------------------
(* The hosts, the serial port and the bus.                                 *)

MaySend(l) == l \in Links /\ Len(sent["serial"]) + Len(sent["iic"]) < MaxSent

\* The serial host begins the next command.
SerialSend(c) ==
    /\ MaySend("serial") /\ typed = <<>>
    /\ typed' = Text(c)
    /\ sent' = [sent EXCEPT !["serial"] = Append(@, Meaning("serial", c))]
    /\ UNCHANGED <<fw, rx, obj, pc, sel, ack, ran, last, heard, reply, spoilt>>

\* A character arrives; a full ring buffer drops it.
Arrive ==
    /\ typed # <<>>
    /\ typed' = Tail(typed)
    /\ IF Len(rx) < RxSize
       THEN rx' = Append(rx, Head(typed)) /\ UNCHANGED spoilt
       ELSE spoilt' = spoilt \cup {"serial"} /\ UNCHANGED rx
    /\ UNCHANGED <<host, obj, pc, sel, ack, ran, last, heard>>

\* Mistake: the reply to an earlier command is kept in front.
ResetI2CData_Kept(a) == a
ResetI2CData(a) == <<>>

\* recIICData: the interrupt takes a whole message, runs it and resets, at any
\* point of what the main program does.
BusSend(c) ==
    LET o   == Taken(obj, Body(c))
        run == [link |-> "iic", cmd |-> o.cmd_chr,
                args |-> Arguments(o.cmd_chr, o.mem, Converted(o))]
    IN  /\ Base /\ MaySend("iic")
        /\ sent' = [sent EXCEPT !["iic"] = Append(@, Meaning("iic", c))]
        /\ ran' = [ran EXCEPT !["iic"] = Append(@, run)] /\ last' = "iic"
        /\ ack' = Append(ResetI2CData(ack), run)
        /\ obj' = [Reset(o) EXCEPT !.arg = Converted(o)]
        /\ IF heard = <<>> /\ pc = "loop"
           THEN UNCHANGED <<heard, spoilt>>
           ELSE /\ spoilt' = Port
                /\ heard' = IF heard = <<>> THEN heard ELSE Garbled
        /\ UNCHANGED <<fw, typed, rx, pc, sel, reply>>

\* sendIICData: the master reads the reply.
BusRequest ==
    /\ Base /\ "iic" \in Links
    /\ reply' = ack
    /\ UNCHANGED <<fw, typed, rx, obj, pc, sel, ack, sent, ran, last, heard, spoilt>>

-----------------------------------------------------------------------------
(* The main program.                                                       *)

\* Mistake: a command is complete only with an argument.
Complete_WithArg(ch) == ch = CR /\ obj.argCnt > 0
Complete(ch) == ch = CR

\* loop: read a character and take it in, unless it ends the command.
Read ==
    LET ch == Head(rx)
        so == Append(heard, ch)
    IN  /\ pc = "loop" /\ rx # <<>>
        /\ rx' = Tail(rx)
        /\ heard' = IF \E c \in Commands[fw] : IsPrefix(so, Text(c)) THEN so ELSE Garbled
        /\ IF Complete(ch) THEN pc' = "args" /\ obj' = Terminate(obj)
                           ELSE UNCHANGED pc /\ obj' = Put(obj, ch)
        /\ UNCHANGED <<host, typed, sel, ack, ran, last, spoilt>>

\* runCommand of a serial command, in the steps an interrupt may come between:
\* the arguments are converted ...
Args ==
    /\ pc = "args"
    /\ obj' = [obj EXCEPT !.arg = Converted(obj)]
    /\ pc' = IF Base THEN "clear" ELSE "switch"
    /\ UNCHANGED <<host, typed, rx, sel, ack, ran, last, heard, spoilt>>

\* ... the last reply is cleared (the base only) ...
Clear ==
    /\ pc = "clear"
    /\ ack' = ResetI2CData(ack)
    /\ pc' = "switch"
    /\ UNCHANGED <<host, typed, rx, obj, sel, ran, last, heard, spoilt>>

\* ... the command is looked at ...
Switch ==
    /\ pc = "switch"
    /\ sel' = obj.cmd_chr
    /\ pc' = "act"
    /\ UNCHANGED <<host, typed, rx, obj, ack, ran, last, heard, spoilt>>

\* Mistake: the buffers are not reset after a command.
AfterRun_NoReset == "loop"
AfterRun         == "reset"

\* ... and run with the arguments, or the gains, that stand there now, and
\* answered.
Act ==
    LET run == [link |-> "serial", cmd |-> sel,
                args |-> Arguments(sel, obj.mem, obj.arg)]
    IN  /\ pc = "act"
        /\ ran' = [ran EXCEPT !["serial"] = Append(@, run)] /\ last' = "serial"
        /\ ack' = IF Base THEN Append(ack, run) ELSE ack
        /\ heard' = <<>>
        /\ pc' = AfterRun
        /\ UNCHANGED <<host, typed, rx, obj, sel, spoilt>>

ResetParam ==
    /\ pc = "reset"
    /\ obj' = Reset(obj)
    /\ pc' = "loop"
    /\ UNCHANGED <<host, typed, rx, sel, ack, ran, last, heard, spoilt>>

Main == Read \/ Args \/ Clear \/ Switch \/ Act \/ ResetParam

Next ==
    \/ \E c \in Commands[fw] : SerialSend(c) \/ BusSend(c)
    \/ Arrive \/ BusRequest \/ Main

\* The loop keeps turning and the line keeps carrying.
Spec == Init /\ [][Next]_vars /\ WF_vars(Main) /\ WF_vars(Arrive)

-----------------------------------------------------------------------------
(* Properties.                                                             *)

\* The text of a command that the buffers have room for, with an end behind
\* each argument, and whose arguments are numbers or, of 'u', gains for which
\* pid_args has room.
Room(f) == IF f = "base" THEN <<Len1, Len2, Len2>> ELSE <<BridgeLen, BridgeLen>>
PidArgs(f) == IF f = "base" THEN 12 ELSE 4
IsNumber(s) == \A i \in DOMAIN s : s[i] \in Digit \/ (i = 1 /\ s[i] = "-")
AreGains(f, s) ==
    /\ \A i \in DOMAIN s : s[i] \in Digit \cup {"-", ":"}
    /\ Cardinality({i \in DOMAIN s : s[i] = ":"}) < PidArgs(f)
Fits(f, c) ==
    /\ c.cmd \notin {SP, CR, "?"}
    /\ DOMAIN c.args \subseteq DOMAIN Room(f)
    /\ c.cmd = UPDATE_PID => DOMAIN c.args \subseteq {1}
    /\ \A n \in DOMAIN c.args :
          /\ Len(c.args[n]) \in 1..(Room(f)[n] - 1)
          /\ IF c.cmd = UPDATE_PID THEN AreGains(f, c.args[n]) ELSE IsNumber(c.args[n])
FittingCommands == \A f \in DOMAIN Commands : \A c \in Commands[f] : Fits(f, c)

\* A character was stored in the byte behind the buffers of the base; nothing
\* clears it, and a command without a third argument reads it from then on.
Overrun == Base /\ obj.mem[Top] # NUL

Object  == {o \in [argCnt : 0..255, argIndex : Nat, cmd_chr : Byte,
                    mem : [Memory -> Byte], arg : [1..3 -> Seq(Byte)]] :
              IF Base THEN o.argIndex \in 0..255 ELSE o.argCnt \in 0..2}
Command == [link : Port, cmd : Byte, args : [1..3 -> Seq(Byte)]]

\* The counters of the base stay bytes, the bridge knows two arguments and the
\* ring buffer is never overrun; between two commands the buffers are clean,
\* whatever was lost or interrupted (procRecChar, resetCmdParam, resetCommand).
TypeOK ==
    /\ fw \in DOMAIN Commands
    /\ typed \in Seq(Char) /\ rx \in Seq(Char) /\ Len(rx) <= RxSize
    /\ obj \in Object
    /\ pc \in {"loop", "args", "clear", "switch", "act", "reset"} /\ sel \in Byte
    /\ ack \in Seq(Command) /\ reply \in Seq(Command)
    /\ sent \in [Port -> Seq(Command)] /\ ran \in [Port -> Seq(Command)]
    /\ last \in Port \cup {"none"}
    /\ heard \in Seq(Char) /\ spoilt \subseteq Port
    /\ heard = <<>> /\ pc = "loop" =>
          obj.argCnt = 0 /\ \A a \in Memory \ {Top} : obj.mem[a] = Fill

\* While no character was lost and no message met a serial command, nothing is
\* stored behind the buffers, however the characters of the two links mix
\* (procRecChar and recIICData, which share argCnt and argIndex).
NothingRunOver == spoilt = {} => ~Overrun

\* The commands run for a link are the commands sent over it, with their
\* arguments, each once and in their order, as long as none of its characters
\* was lost and no message met a half-read or half-run serial command; that
\* characters of the other link are on their way does no harm (procRecChar,
\* mobileBase.ino:336-375; ROSArduinoBridge.ino:287-327).
RunsInOrder == ~Overrun => \A l \in Links \ spoilt : IsPrefix(ran[l], sent[l])

\* Whatever was lost or interrupted before, unless it ran over the buffers, a
\* serial command that arrives whole after an end character, and is not
\* interrupted itself, is run as it was sent: nothing of an earlier command is
\* left in the buffers (resetCmdParam, resetCommand).
IntactIsRun ==
    [][\A c \in Commands[fw] :
         heard = Text(c) /\ heard' = <<>> /\ ~Overrun =>
           Last(ran'["serial"]) = Meaning("serial", c)]_vars

\* The two links answer through one reply buffer.  As long as no message met a
\* serial command, the I2C master reads the answer of the one command run last,
\* over whichever link it came, and never an older one or two together, or finds
\* the buffer empty while a serial command is under way; if it was the master's
\* own message that was run last, it reads the answer to what it sent last
\* (runCommand, recIICData, sendIICData).
ReplyIsLast ==
    [][reply' # reply /\ "iic" \notin spoilt =>
         \/ reply' = <<>> /\ pc \in {"switch", "act"}
         \/ /\ reply' = <<Last(ran[last])>>
            /\ last = "iic" /\ ~Overrun => Last(ran[last]) = Last(sent["iic"])]_vars

\* The commands there are.
Message == {Meaning(l, c) : l \in Port, c \in UNION {Commands[f] : f \in DOMAIN Commands}}

\* The link implements CommandDelivery: the commands run for a port are those
\* sent to it, and a reply is that of the command run last, or nothing once the
\* next is taken up (runCommand, recIICData, sendIICData).
Delivery == INSTANCE CommandDelivery
            WITH answer <- ack, disturbed <- IF Overrun THEN Port ELSE spoilt
ImplementsCommandDelivery == Delivery!Spec

\* Every command sent over an undisturbed link is run.
EveryCommandRuns ==
    \A l \in Links, n \in 1..MaxSent :
        (Len(sent[l]) >= n) ~> (l \in spoilt \/ Len(ran[l]) >= n)
=============================================================================
