CONSTANTS
    Self = Self
    Peer = Peer
    Nobody = Nobody
    Sentinel = Sentinel
    None = None
    Absent = Absent
    c1 = c1
    c2 = c2
    Callers = {c1, c2}
    Ops <- NextAndRepeat
    PeerQueues <- TwoQueues
    NewItem = "n"
    Modes = {"NONE", "ALL"}
    Acts = {"play", "options", "command", "take over", "hand back", "relay"}
    Window = 3
    End = 2
    MaxVersion = 2
    MaxReports = 0
    MaxForeign = 2
    MaxDrops = 0
    MaxEvents = 3
    MaxInbox = 2
SPECIFICATION Spec
CHECK_DEADLOCK FALSE
INVARIANTS
    TypeOK
    NoOvertakenAdvance
    NobodyLeftWaiting
    AdoptedConverges
PROPERTIES
    AnnouncedOnce
