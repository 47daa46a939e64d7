\* Two programs on demand.
SPECIFICATION StreamSpec
CONSTANTS
    keep = keep
    one = one
    two = two
    Programs <- MCTwo
    Pids <- MCPids
    KeepRun <- MCNone
    HasIpc <- MCNone
    NameMatches <- MCNone
    ClearCntMax = 0
    MaxRunRequests = 8
    Before <- MCBefore
    Asked <- MCAsked
    Stopped <- MCNone
PROPERTY StreamConnects
