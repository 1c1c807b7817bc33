CONSTANTS
    Self = Self
    Peer = Peer
    Nobody = Nobody
    Sentinel = Sentinel
    None = None
    Absent = Absent
    c1 = c1
    c2 = c2
    Callers = {c1, c2}
    Ops <- PauseAndRepeat
    PeerQueues <- OneQueue
    NewItem = "n"
    Modes = {"NONE", "ALL"}
    Acts = {"play"}
    Window = 3
    End = 2
    MaxVersion = 2
    MaxReports = 1
    MaxForeign = 1
    MaxDrops = 2
    MaxEvents = 3
    MaxInbox = 2
SPECIFICATION Spec
CHECK_DEADLOCK FALSE
INVARIANTS
    GenerationsAgree
PROPERTIES
    EditsAreConditional
