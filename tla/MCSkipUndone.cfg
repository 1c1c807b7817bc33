CONSTANTS
    Self = Self
    Peer = Peer
    Nobody = Nobody
    Sentinel = Sentinel
    None = None
    Absent = Absent
    c1 = c1
    c2 = c2
    Callers = {c1, c2}
    Ops <- NextAndRepeat
    PeerQueues <- TwoQueues
    NewItem = "n"
    Modes = {"NONE", "ALL"}
    Acts = {"options"}
    Window = 3
    End = 2
    MaxVersion = 2
    MaxReports = 0
    MaxForeign = 1
    MaxDrops = 0
    MaxEvents = 3
    MaxInbox = 2
SPECIFICATION Spec
CHECK_DEADLOCK FALSE
PROPERTIES
    SkipAlwaysStands
