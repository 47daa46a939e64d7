\* Two programs, one order of the independent groups of systems.
SPECIFICATION Spec
CONSTANTS
    p1 = p1
    p2 = p2
    Programs <- MCPrograms
    Pids <- MCPrograms
    KeepRun <- MCKeepRun
    HasIpc <- MCHasIpc
    NameMatches <- MCNameMatches
    ClearCntMax = 1
    MaxRunRequests = 1
    Before <- MCBefore
INVARIANTS
    TypeOK
    OneProcess
    StoppedIsStopped
    ReportsMatch
PROPERTIES
    NoProcessAbandoned
    TerminateExpires
