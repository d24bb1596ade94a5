CONSTANTS
    NW = 2
SPECIFICATION Spec
INVARIANTS TypeOK CountsItsDirection StopBrakes
PROPERTIES DeadTime
