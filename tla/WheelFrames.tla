----------------------------- MODULE WheelFrames -----------------------------
(***************************************************************************)
(* What the main loop of the base relies on in its wheel controllers,      *)
(* without counters, arithmetic or time: which of their values are zero.   *)
(* A wheel gets power in a frame of a moving base only, and only if the    *)
(* last command asked it to turn; a frame that is over has come to every   *)
(* wheel, and nothing else happens to the controllers while it is under    *)
(* way; a base that stands forgets its last run, unless no wheel counted   *)
(* in its last frame.                                                      *)
(***************************************************************************)
CONSTANT Wheel

VARIABLES
    moving,    \* the base has been told to move
    target,    \* wheels that are asked to turn
    power,     \* wheels whose controller gives them power
    counted,   \* wheels that counted in their last frame
    todo       \* wheels to which the frame under way is still to come

wheels == <<target, power, counted>>
vars == <<moving, wheels, todo>>

TypeOK ==
    /\ moving \in BOOLEAN
    /\ target \subseteq Wheel /\ power \subseteq Wheel /\ counted \subseteq Wheel
    /\ todo \subseteq Wheel

Init ==
    /\ moving = FALSE
    /\ target = {} /\ power = {} /\ counted = {}
    /\ todo = {}

\* No frame is under way, before and after a step.
BetweenFrames == todo = {} /\ todo' = {}

Forget == target' = {} /\ power' = {} /\ counted' = {}

\* The host asks some wheels to turn, and the others to stand.
Move ==
    /\ BetweenFrames
    /\ moving' = TRUE
    /\ target' \in (SUBSET Wheel) \ {{}}
    /\ UNCHANGED <<power, counted>>

\* The host stops the base ...
Halt == BetweenFrames /\ moving' = FALSE /\ Forget

\* ... or resets the controllers, whether it moves or stands.
Reset == BetweenFrames /\ moving' = moving /\ Forget

\* The base stops on its own, and leaves the controllers as they are.
Expire ==
    /\ BetweenFrames
    /\ moving /\ moving' = FALSE
    /\ UNCHANGED wheels

\* The wheels a frame has to come to, from now on.
Due == IF todo = {} THEN Wheel ELSE todo

\* The controllers of some wheels run: one with a target gives any power and
\* counts anything, one without gives none.
Run ==
    /\ moving
    /\ UNCHANGED <<moving, target>>
    /\ \E W \in (SUBSET Due) \ {{}} :
          /\ todo' = Due \ W
          /\ power' \cap W \subseteq target
          /\ power' \ W = power \ W
          /\ counted' \ (W \cap target) = counted \ (W \cap target)

\* The controllers of a base that stands.
Idle ==
    /\ BetweenFrames
    /\ ~moving /\ counted # {}
    /\ moving' = moving /\ Forget

Next ==
    \/ Move \/ Halt \/ Reset \/ Expire
    \/ Run \/ Idle

Spec == Init /\ [][Next]_vars
=============================================================================
