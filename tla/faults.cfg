SPECIFICATION Spec
CONSTANTS
    None = None
    Keep = Keep
    main = main
    savings = savings
    timer = timer
    admin = admin
    key = key
    twin = twin
    Accounts = {main, savings}
    Contexts = {timer, admin}
    Timer = timer
    Keys = {key, twin}
    KeyPrefix <- OnePrefix
    Environment = {"spend", "lost_reply", "trap", "live_upgrade", "same_instant"}
    HOURS <- MCOneWindow
    MaxTime = 0
    AddArgs <- FaultAdds
    UpdateArgs <- FaultUpdates
    Policies <- FaultPolicies
    TopupAmounts = {1}
    MaxReserves = 2
    MaxBlocks = 2
INVARIANTS
    MintExclusion
    HandlerReserveExists
    SnapshotIsCurrent
    LifetimeCeiling
    CompletedPointsAtBlock
PROPERTIES
    RebalanceWithinMax
    CompletedIsFinal
    ImplementsAtomicMint
