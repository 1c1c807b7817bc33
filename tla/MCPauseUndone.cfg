CONSTANTS
    Self = Self
    Peer = Peer
    Nobody = Nobody
    Sentinel = Sentinel
    None = None
    Absent = Absent
    c1 = c1
    c2 = c2
    Callers = {c1, c2}
    Ops <- PauseAndRepeat
    PeerQueues <- TwoQueues
    NewItem = "n"
    Modes = {"NONE", "ALL"}
    Acts = {}
    Window = 3
    End = 2
    MaxVersion = 3
    MaxReports = 1
    MaxForeign = 0
    MaxDrops = 0
    MaxEvents = 4
    MaxInbox = 2
SPECIFICATION Spec
CHECK_DEADLOCK FALSE
PROPERTIES
    PauseNotUndone
