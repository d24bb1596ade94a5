CONSTANTS
    NW = 1
    MAX_PWM = 4
    HalfRange = 4
    MaxTicks = 2
    Targets <- SmallTargets
    Gains <- DefaultGains
    MaxITerm = 4
SPECIFICATION Spec
INVARIANTS NoSpike
