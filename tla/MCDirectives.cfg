CONSTANTS
    s1 = s1
    s2 = s2
    Sockets = {s1, s2}
    None = None
    DefaultLadder <- MCLadder
    IdleDelay = 300
    Errors <- AllErrors
    ReconnectCodes <- MCCodes
    Faults = {"lost", "refused", "ticketless", "error", "malformed", "crash", "rejected"}
    MaxFaults = 3
    MaxExpired = 1
SPECIFICATION Spec
CHECK_DEADLOCK FALSE
INVARIANTS
    TypeOK
    OneSocket
    ConnectedIsRead
    NothingLeftBehind
PROPERTIES
    BacksOff
    DialsOutsideWindow
