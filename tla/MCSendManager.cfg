\* Two processes or more, four messages, two of which may have one time.
SPECIFICATION SendSpec
CONSTANTS
    Torn = Torn
    NoFile = NoFile
    MaxMessages = 4
    Clock <- MCTwin
CHECK_DEADLOCK FALSE
INVARIANTS
    SendTypeOK
    AnsweredIsOver
    OnePlace
    InOrder
    LossNeedsTwin
PROPERTIES
    ShutdownSaves
    Drains
