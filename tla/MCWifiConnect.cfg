SPECIFICATION FairSpec
CONSTANTS
    home = home
    typo = typo
    Networks <- AllNetworks
    Reachable <- Good
    Home = home
    NoNetwork = NoNetwork
    Attempts = 2
    MinTicks = 1
    MaxTicks = 1
    GiveUpTicks = 3
    MaxTokens = 4
    Leavable = TRUE
CHECK_DEADLOCK FALSE
INVARIANTS
    RunningHasWorker
PROPERTIES
    CheckEnds
