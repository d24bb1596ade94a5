CONSTANTS
    NW = 1
    ClockMod = 7
    PID_INTERVAL = 2
    AUTO_STOP_INTERVAL = 1
    ENERGE_MODE_TIME = 2
    MaxLoop = 1
    WaitTicks = 2
    Link = "iic"
SPECIFICATION Spec
INVARIANTS EnergyDeadMan
PROPERTIES SilenceQuiesces BurstsEnd
