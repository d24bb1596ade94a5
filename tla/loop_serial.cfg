CONSTANTS
    NW = 2
    ClockMod = 10
    PID_INTERVAL = 2
    AUTO_STOP_INTERVAL = 2
    ENERGE_MODE_TIME = 4
    MaxLoop = 1
    WaitTicks = 3
    Link = "serial"
SPECIFICATION Spec
INVARIANTS TypeOK StopIsFinal AwakeWhileMoving TargetIsAsked OnlyAskedTurn DeadMan
PROPERTIES OnlyStaleHalts ImplementsDeadManSwitch ImplementsWheelFrames
