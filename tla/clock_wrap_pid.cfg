CONSTANTS
    NW = 1
    ClockMod = 11
    PID_INTERVAL = 2
    AUTO_STOP_INTERVAL = 2
    ENERGE_MODE_TIME = 5
    MaxLoop = 1
    WaitTicks = 0
    Link = "serial"
SPECIFICATION Spec
PROPERTIES ControllersRecur
