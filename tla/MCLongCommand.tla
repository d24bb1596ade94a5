---------------------------- MODULE MCLongCommand ----------------------------
(* A command whose second argument has four characters and fills its       *)
(* buffer.                                                                 *)
EXTENDS CommandLink

SomeChars == Digit \cup {CR, SP, "-", "?", "m"}

LongSecond ==
    [base |-> {[cmd |-> "m", args |-> <<<<"1", "0">>, <<"-", "1", "0", "0">>, <<"2", "0">>>>]}]
=============================================================================
