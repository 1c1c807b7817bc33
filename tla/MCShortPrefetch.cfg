SPECIFICATION Spec
CONSTANTS
    None = None
    stream1 = stream1
    player = player
    Callers = {stream1, player}
    Ops <- StreamAndPlayer
    Starts <- RadioStarts
    Window = 5
    End = 1
    BatchSizes = {1}
    MaxFetched = 5
    MaxCalls = 3
    MaxPeers = 0
    MaxDrops = 0
    MaxRelays = 1
    MaxEvents = 1
    MaxInbox = 4
CHECK_DEADLOCK FALSE
INVARIANT RadioContinues
