CONSTANTS
    Firmwares = {"base", "bridge"}
    Servos = 1
    Byte = 4
    IntMod = 10
    ClockMod = 10
    Angles <- EndAngles
    Delays <- TwoDelays
    StepDelay = 2
    InitAngle <- OneServo
    MaxLoop = 1
    MaxSince = 4
    Link = "iic"
SPECIFICATION Spec
INVARIANTS TypeOK
PROPERTIES OneDegree Paced Arrives
