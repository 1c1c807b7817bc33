SPECIFICATION FairSpec
CONSTANTS
    None = None
    Sessions = {s1, s2}
    Home = Home
    Other = Other
    Bridge = Bridge
    A = A
    B = B
    Items <- TwoItems
    FirstItems <- FirstA
    Acts = {"device", "slot"}
    MaxActs = 2
CHECK_DEADLOCK FALSE
INVARIANT PlaysWhenAsked
