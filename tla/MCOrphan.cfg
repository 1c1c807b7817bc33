CONSTANTS
    s1 = s1
    s2 = s2
    Sockets = {s1, s2}
    None = None
    DefaultLadder <- MCLadder
    IdleDelay = 300
    Errors <- AllErrors
    ReconnectCodes <- MCCodes
    Faults = {"lost"}
    MaxFaults = 1
    MaxExpired = 0
SPECIFICATION Spec
CHECK_DEADLOCK FALSE
INVARIANTS
    NoCallbackLeft
