SPECIFICATION Spec
CONSTANTS
    None = None
    Sessions = {s1, s2}
    Home = Home
    Other = Other
    Bridge = Bridge
    A = A
    B = B
    Items <- ThreeItems
    FirstItems <- FirstA
    Acts = {"item", "kept", "seek", "pause", "device", "empty", "settle", "select", "stop",
            "own seek", "unlink", "error", "slot", "failed stop", "bridge", "radio", "next"}
    MaxActs = 3
SYMMETRY AnySession
CHECK_DEADLOCK FALSE
INVARIANTS
    TypeOK
    FollowsYnison
    PausedIsSilent
    ClaimHeld
