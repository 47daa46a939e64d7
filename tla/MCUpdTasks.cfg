\* Two updates at a time, every type.
SPECIFICATION UpdSafety
CONSTANTS
    p1 = p1
    other = other
    s1 = s1
    s2 = s2
    Broken = Broken
    NoTask = NoTask
    Programs <- MCOne
    Pids <- MCOne
    KeepRun <- MCNone
    HasIpc <- MCOne
    NameMatches <- MCNone
    Custom <- MCOne
    ClearCntMax = 0
    MaxRunRequests = 0
    Before <- MCOneRequestOrder
    Offers <- MCOffersFiles
    Versions <- MCOneVersion
    Slots <- MCSlots
    WaitMax = 0
SYMMETRY MCSymmetry
INVARIANTS
    UpdTypeOK
    NoDuplicateTask
    OwnDownload
    HashIsInstalled
    HashSaved
PROPERTY ImplementsInstaller
