CONSTANTS
    Speed = 10
    Turn = 10
    SpeedStep = 5
    TurnStep = 4
    MaxVel = 11
SPECIFICATION Spec
PROPERTIES Ramped WithinSelected ReleaseStops
CHECK_DEADLOCK FALSE
