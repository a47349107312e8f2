SPECIFICATION FairSpec
CONSTANTS
    home = home
    typo = typo
    Networks <- AllNetworks
    Reachable <- Good
    Home = home
    NoNetwork = NoNetwork
    Attempts = 3
    MinTicks = 1
    MaxTicks = 2
    GiveUpTicks = 4
    MaxTokens = 2
    Leavable = FALSE
CHECK_DEADLOCK FALSE
PROPERTY
    DialogEnds
