SPECIFICATION FairSpec
CONSTANTS
    None = None
    Keep = Keep
    main = main
    savings = savings
    timer = timer
    admin = admin
    key = key
    twin = twin
    Accounts = {main, savings}
    Contexts = {timer, admin}
    Timer = timer
    Keys = {}
    KeyPrefix <- SamePrefix
    Environment = {"reject", "spend"}
    HOURS <- MCOneWindow
    MaxTime = 0
    AddArgs <- ProgressAdds
    UpdateArgs <- ProgressUpdates
    Policies <- ProgressPolicies
    TopupAmounts = {}
    MaxReserves = 2
    MaxBlocks = 2
PROPERTIES
    LocksAreReleased
    ReserveRefilled
