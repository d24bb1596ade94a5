CONSTANTS
    NW = 1
    ClockMod = 9
    PID_INTERVAL = 2
    AUTO_STOP_INTERVAL = 2
    ENERGE_MODE_TIME = 4
    MaxLoop = 1
    WaitTicks = 0
    Link = "iic"
SPECIFICATION Spec
INVARIANTS StopIsFinal
