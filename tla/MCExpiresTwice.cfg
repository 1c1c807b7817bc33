CONSTANTS
    s1 = s1
    s2 = s2
    Sockets = {s1, s2}
    None = None
    DefaultLadder <- MCLadder
    IdleDelay = 300
    Errors <- AllErrors
    ReconnectCodes <- MCCodes
    Faults = {"refused"}
    MaxFaults = 1
    MaxExpired = 2
SPECIFICATION Spec
CHECK_DEADLOCK FALSE
PROPERTIES
    Recovers
