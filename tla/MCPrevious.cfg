CONSTANTS
    Self = Self
    Peer = Peer
    Nobody = Nobody
    Sentinel = Sentinel
    None = None
    Absent = Absent
    c1 = c1
    c2 = c2
    Callers = {c1, c2}
    Ops <- AppendAndPrevious
    PeerQueues <- RadioQueue
    NewItem = "n"
    Modes = {"NONE", "ALL"}
    Acts = {}
    Window = 3
    End = 2
    MaxVersion = 2
    MaxReports = 0
    MaxForeign = 0
    MaxDrops = 0
    MaxEvents = 2
    MaxInbox = 2
SPECIFICATION Spec
CHECK_DEADLOCK FALSE
PROPERTIES
    PreviousMeansPrevious
