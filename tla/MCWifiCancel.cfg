SPECIFICATION Spec
CONSTANTS
    home = home
    typo = typo
    Networks <- AllNetworks
    Reachable <- Good
    Home = home
    NoNetwork = NoNetwork
    Attempts = 2
    MinTicks = 1
    MaxTicks = 2
    GiveUpTicks = 4
    MaxTokens = 4
    Leavable = TRUE
CHECK_DEADLOCK FALSE
PROPERTY
    NotConfused
