CONSTANTS
    NW = 1
    Encoders = "counter"
    LongMod = 6
    IntMod = 3
    Splits = {2, 3}
    ClockMod = 4
    AUTO_STOP_INTERVAL = 1
    MaxTicks = 1
    MaxLoop = 1
SPECIFICATION Spec
INVARIANTS TypeOK StoppedIsStill MeasuresFrame DeadMan
PROPERTIES SilenceRests ImplementsDeadManSwitch
