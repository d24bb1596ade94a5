--------------------------- MODULE DeadManSwitch ---------------------------
(***************************************************************************)
(* What the base promises its host, without clocks, wheels or interrupts:  *)
(* a drive command enables the motors, an enabled base may power them or   *)
(* not as its controller likes, and unpowered motors are the only ones     *)
(* whose last command may grow older than Limit, unless the host makes the *)
(* base wait.                                                              *)
(* The ages are such that StopAge <= Limit < MaxAge.                       *)
(***************************************************************************)
EXTENDS Naturals

CONSTANTS
    StopAge,  \* a command this old or younger is never given up by the base
    Limit,    \* no motor is powered by a command older than this
    MaxAge    \* ages are counted up to here

VARIABLES
    enabled,  \* the base is trying to follow a drive command
    powered,  \* some motor is being driven
    age,      \* time since that command
    stalled   \* the host has made the base wait since that command

vars == <<enabled, powered, age, stalled>>

TypeOK ==
    /\ enabled \in BOOLEAN
    /\ powered \in BOOLEAN
    /\ age \in 0..MaxAge
    /\ stalled \in BOOLEAN

Init ==
    /\ enabled = FALSE
    /\ powered = FALSE
    /\ age = MaxAge
    /\ stalled = FALSE

\* A drive command: nothing turns before the controller says so.
Drive ==
    /\ enabled' = TRUE
    /\ age' = 0 /\ stalled' = FALSE
    /\ UNCHANGED powered

\* A stop command: the motors are off when it has been executed.
Halt ==
    /\ enabled' = FALSE
    /\ powered' = FALSE
    /\ age' = 0 /\ stalled' = FALSE

\* The controller of an enabled base powers the motors, or stops doing so.
Control ==
    /\ enabled
    /\ powered' \in BOOLEAN
    /\ UNCHANGED <<enabled, age, stalled>>

\* The base gives a command up, but only an old one.
Expire ==
    /\ enabled
    /\ age > StopAge
    /\ enabled' = FALSE
    /\ powered' \in {powered, FALSE}
    /\ UNCHANGED <<age, stalled>>

\* Motors left on by an expired command are released.
Release ==
    /\ ~enabled
    /\ powered' = FALSE
    /\ UNCHANGED <<enabled, age, stalled>>

\* Time passes, and never carries a powered motor over the limit.
Grow ==
    /\ age' = IF age < MaxAge THEN age + 1 ELSE age
    /\ powered /\ ~stalled => age' <= Limit
    /\ UNCHANGED <<enabled, powered, stalled>>

\* The base waits, as the host has asked it to.
Stall ==
    /\ age' \in age..MaxAge
    /\ stalled' = TRUE
    /\ UNCHANGED <<enabled, powered>>

Next == Drive \/ Halt \/ Control \/ Expire \/ Release \/ Grow \/ Stall

Spec == Init /\ [][Next]_vars
=============================================================================
