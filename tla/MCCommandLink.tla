---------------------------- MODULE MCCommandLink ----------------------------
(* Small command sets of CommandLink for model checking, which fit.        *)
EXTENDS CommandLink

SomeChars == Digit \cup {CR, SP, "-", ":", "?", "e", "m", "u"}

Argless == [cmd |-> "e", args |-> <<>>]

TwoGains == [cmd |-> "u", args |-> <<<<"1", ":", "2">>>>]

\* No argument, as many as there may be, of which one has a sign, and gains.
SomeCommands ==
    [base   |-> {Argless, TwoGains,
                 [cmd |-> "m", args |-> <<<<"1">>, <<"-", "2">>, <<"3">>>>]},
     bridge |-> {Argless, TwoGains,
                 [cmd |-> "m", args |-> <<<<"1", "0">>, <<"-", "2">>>>]}]

ASSUME CommandsFit == FittingCommands
=============================================================================
