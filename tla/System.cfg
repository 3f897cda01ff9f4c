SPECIFICATION SysFairSpec
CONSTANTS
    FlagSets <- Configurations
    MaxUpsets <- Upsets
    Key = {k1}
    MaxAlerts = 2
    CriticalTries = 2
    TripAfter = 2
    MaxAuth = 2
    PhaseOne = 1
    MaxBucket = 3
    MaxTicks <- Ticks
    MaxDay <- Dates
    Holiday = {3}
    Quote <- TwoQuotes
    JumpPct = 50
    MaxMoves <- Moves
    Caller <- Callers
    Burst = 2
    Cost = 2
INVARIANTS
    SystemTypeOK
    ImportantKept
    RepeatsNeedUpsets
    NothingUnregistered
    
    DailyBarsOnce
    NothingPulledAway
    WebPauseKept
    GrantsWithinRate
    TokenIssuedOnce
    RefreshGuarded
    CommandsKept
    DigestsOnce
PROPERTIES
    RowStampsRise
    AlertsDelivered
    StreamComesBack
    MissedHaltsFound
    PauseEnds
CHECK_DEADLOCK FALSE
