----------------------------- MODULE MCWheelPID -----------------------------
(* Small parameter sets of WheelPID for model checking.                    *)
EXTENDS WheelPID

\* Both directions and a wheel at rest.
SmallTargets == {-1, 0, 1}

\* Forward, and a wheel at rest; the power is of both signs all the same.
ForwardTargets == {0, 1}

\* Parameters with an integral whose sum is divided, and what 'u' with too few
\* values leaves, a divisor of zero.
ZeroGains == {[kp |-> 3, kd |-> 2, ki |-> 1, ko |-> 2],
              [kp |-> 2, kd |-> 1, ki |-> 1, ko |-> 0]}

\* The proportions of the default parameters but for an integral.
DefaultGains == {[kp |-> 2, kd |-> 1, ki |-> 1, ko |-> 1]}
=============================================================================
