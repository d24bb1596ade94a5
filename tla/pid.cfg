CONSTANTS
    NW = 2
    MAX_PWM = 2
    HalfRange = 2
    MaxTicks = 1
    Targets <- ForwardTargets
    Gains <- ZeroGains
    MaxITerm = 1
SPECIFICATION Spec
INVARIANTS TypeOK TrackedTicks OutputInRange
PROPERTIES NoWindup
