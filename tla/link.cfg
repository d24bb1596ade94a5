CONSTANTS
    Char <- SomeChars
    Links = {"serial", "iic"}
    Commands <- SomeCommands
    Len1 = 36
    Len2 = 3
    BridgeLen = 16
    RxSize = 2
    MaxSent = 2
SPECIFICATION Spec
INVARIANTS TypeOK NothingRunOver RunsInOrder
PROPERTIES IntactIsRun ReplyIsLast EveryCommandRuns ImplementsCommandDelivery
CHECK_DEADLOCK FALSE
