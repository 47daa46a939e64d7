\* A server that answers, and a machine without the directory of spilled messages.
SPECIFICATION Spec
CONSTANTS
    Torn = Torn
    NoFile = NoFile
    MaxMessages = 2
    Clock <- MCOneReading
CHECK_DEADLOCK FALSE
INVARIANTS
    PopSucceeds
