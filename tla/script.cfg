SPECIFICATION ScriptSpec
CONSTANTS
    None = None
    Keep = Keep
    main = main
    savings = savings
    timer = timer
    admin = admin
    key = key
    twin = twin
    alice = alice
    bob = bob
    Accounts = {main, savings}
    Contexts = {timer, admin}
    Timer = timer
    Keys = {}
    KeyPrefix <- SamePrefix
    Environment = {"reject"}
    HOURS <- MCDayYear
    MaxTime = 0
    AddArgs <- ScriptedConfigs
    UpdateArgs = {}
    Policies = {}
    TopupAmounts = {1}
    MaxReserves = 3
    MaxBlocks = 2
    Operators = {alice, bob}
    Buckets <- TwoBuckets
    Principals <- SamePrincipals
INVARIANTS
    CommitmentKept
    DoneMeansRegistered
    MintedWithinCaps
