SPECIFICATION FairSpec
CONSTANTS
    None = None
    Sessions = {s1, s2}
    Home = Home
    Other = Other
    Bridge = Bridge
    A = A
    B = B
    Items <- TwoItems
    FirstItems <- FirstA
    Acts = {"device", "select", "empty", "item"}
    MaxActs = 3
CHECK_DEADLOCK FALSE
INVARIANTS
    PlaysWhenAsked
PROPERTIES
    SupersededEnds
