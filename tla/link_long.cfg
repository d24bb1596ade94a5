CONSTANTS
    Char <- SomeChars
    Links = {"serial"}
    Commands <- LongSecond
    Len1 = 36
    Len2 = 4
    BridgeLen = 16
    RxSize = 64
    MaxSent = 1
SPECIFICATION Spec
INVARIANTS RunsInOrder
CHECK_DEADLOCK FALSE
