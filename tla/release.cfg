SPECIFICATION Spec
CONSTANTS
    None = None
    Keep = Keep
    main = main
    savings = savings
    timer = timer
    admin = admin
    key = key
    twin = twin
    Accounts = {main, savings}
    Contexts = {timer, admin}
    Timer = timer
    Keys = {key}
    KeyPrefix <- SamePrefix
    Environment = {"reject", "spend", "live_release"}
    HOURS <- MCOneWindow
    MaxTime = 0
    AddArgs <- ReleaseAdds
    UpdateArgs <- ReleaseUpdates
    Policies <- ReleasePolicies
    TopupAmounts = {1}
    MaxReserves = 2
    MaxBlocks = 2
INVARIANTS
    NothingLeaks
    LedgerAgreement
