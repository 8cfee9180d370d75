SPECIFICATION Spec
CONSTANTS
    None = None
    Keep = Keep
    main = main
    savings = savings
    timer = timer
    admin = admin
    key = key
    twin = twin
    Accounts = {main, savings}
    Contexts = {timer, admin}
    Timer = timer
    Keys = {key}
    KeyPrefix <- SamePrefix
    Environment = {"lost_reply"}
    HOURS <- MCOneWindow
    MaxTime = 0
    AddArgs <- DocAdds
    UpdateArgs <- DocUpdates
    Policies <- DocPolicies
    TopupAmounts = {1}
    MaxReserves = 1
    MaxBlocks = 4
INVARIANT
    KeyMintedOnce
