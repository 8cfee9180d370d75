SPECIFICATION Spec
CONSTANTS
    None = None
    Keep = Keep
    main = main
    savings = savings
    timer = timer
    admin = admin
    key = key
    twin = twin
    Accounts = {main, savings}
    Contexts = {timer, admin}
    Timer = timer
    Keys = {}
    KeyPrefix <- SamePrefix
    Environment = {"reject", "spend"}
    HOURS <- MCTwoWindows
    MaxTime = 4
    AddArgs <- WindowAdds
    UpdateArgs <- WindowUpdates
    Policies <- WindowPolicies
    TopupAmounts = {1, 2}
    MaxReserves = 1
    MaxBlocks = 4
INVARIANTS
    WindowCeiling
    RateUsageIsExact
