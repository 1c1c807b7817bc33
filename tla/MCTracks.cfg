SPECIFICATION FairSpec
CONSTANTS
    None = None
    fine = fine
    Tracks = {fine}
    Format <- OddFormats
    Players <- TwoPlayers
    Valid <- Rates
    Floor = 44
    ConfiguredRates = {None}
    MaxAttempts = 2
    MaxLoads = 2
    Lossless = {2}
    MaxChecks = 1
CHECK_DEADLOCK FALSE
INVARIANTS
    TypeOK
    LinkedAccountOnly
PROPERTIES
    OpensOnLinked
    ReleasesTheSlot
    ActivationNotStalled
