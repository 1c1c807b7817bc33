CONSTANTS
    Self = Self
    Peer = Peer
    Nobody = Nobody
    Sentinel = Sentinel
    None = None
    Absent = Absent
    c1 = c1
    c2 = c2
    Callers = {c1, c2}
    Ops <- AllButPause
    PeerQueues <- AllQueues
    NewItem = "n"
    Modes = {"NONE", "ALL"}
    Acts = {}
    Window = 3
    End = 2
    MaxVersion = 3
    MaxReports = 0
    MaxForeign = 0
    MaxDrops = 0
    MaxEvents = 3
    MaxInbox = 3
SPECIFICATION Spec
CHECK_DEADLOCK FALSE
PROPERTIES
    SkipAlwaysStands
