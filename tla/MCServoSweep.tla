---------------------------- MODULE MCServoSweep -----------------------------
(* Small parameters of ServoSweep for model checking.                      *)
EXTENDS ServoSweep

\* The ends of the scale, and an angle beyond it.
EndAngles == {0, 3, 5}
TwoDelays == {0, 2}
OneServo  == <<1>>
=============================================================================
