\* Two connections to one listener, one to the other.
SPECIFICATION IpcSpec
CONSTANTS
    a = a
    b = b
    c = c
    Conns <- MCConns
    Sockets <- MCSockets
    SocketOf <- MCSocketOf
    Unknown <- MCUnknown
INVARIANTS
    IpcTypeOK
    HandedOnce
PROPERTIES
    DroppedForCause
    Served
    AcceptedIfOthersCome
