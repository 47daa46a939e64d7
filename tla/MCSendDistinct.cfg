\* Three processes, messages of distinct times.
SPECIFICATION Spec
CONSTANTS
    Torn = Torn
    NoFile = NoFile
    MaxMessages = 4
    Clock <- MCDistinct
CHECK_DEADLOCK FALSE
INVARIANTS
    NecessaryKept
