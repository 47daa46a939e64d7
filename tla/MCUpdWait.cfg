\* One update after another of one program: requests to terminate.
SPECIFICATION UpdSafety
CONSTANTS
    p1 = p1
    other = other
    s1 = s1
    s2 = s2
    Broken = Broken
    NoTask = NoTask
    Programs <- MCOne
    Pids <- MCOne
    KeepRun <- MCOne
    HasIpc <- MCOne
    NameMatches <- MCNone
    Custom <- MCOne
    ClearCntMax = 5
    MaxRunRequests = 0
    Before <- MCOneHandleOrder
    Offers <- MCOffersBuild
    Versions <- MCOneVersion
    Slots <- MCOneSlot
    WaitMax = 8
INVARIANTS
    HeldWhileWaiting
    SafeApply
PROPERTIES
    ImplementsExecm
