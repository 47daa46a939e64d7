\* Every update ends, and its program comes back.
SPECIFICATION UpdSpec
CONSTANTS
    p1 = p1
    other = other
    s1 = s1
    s2 = s2
    Broken = Broken
    NoTask = NoTask
    Programs <- MCOne
    Pids <- MCPids
    KeepRun <- MCOne
    HasIpc <- MCOne
    NameMatches <- MCNone
    Custom <- MCOne
    ClearCntMax = 2
    MaxRunRequests = 1
    Before <- MCOneHandleOrder
    Offers <- MCOffersEnd
    Versions <- MCOneVersion
    Slots <- MCOneSlot
    WaitMax = 0
PROPERTIES
    TaskEnds
    ComesBack
