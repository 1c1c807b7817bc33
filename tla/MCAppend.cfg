SPECIFICATION Spec
CONSTANTS
    None = None
    stream1 = stream1
    player = player
    Callers = {stream1, player}
    Ops <- StreamAndPlayer
    Starts <- RadioStarts
    Window = 2
    End = 1
    BatchSizes = {1}
    MaxFetched = 2
    MaxCalls = 2
    MaxPeers = 0
    MaxDrops = 0
    MaxRelays = 1
    MaxEvents = 2
    MaxInbox = 2
CHECK_DEADLOCK FALSE
PROPERTY AppendsWithoutMoving
