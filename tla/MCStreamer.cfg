\* One program that keeps running, one on demand and a pid of no program.
SPECIFICATION StreamSpec
CONSTANTS
    keep = keep
    one = one
    two = two
    Programs <- MCOne
    Pids <- MCPids
    KeepRun <- MCKeep
    HasIpc <- MCNone
    NameMatches <- MCNone
    ClearCntMax = 1
    MaxRunRequests = 8
    Before <- MCBefore
    Asked <- MCAsked
    Stopped <- MCStopped
INVARIANTS
    StreamTypeOK
    NoRequestLeft
PROPERTIES
    NoLateStart
    OneProcessForStream
    ImplementsExecm
    StreamConnects
    StreamEnds
