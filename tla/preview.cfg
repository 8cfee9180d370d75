SPECIFICATION PreviewSpec
CONSTANTS
    None = None
    Keep = Keep
    main = main
    savings = savings
    timer = timer
    admin = admin
    key = key
    twin = twin
    previewer = previewer
    Accounts = {main, savings}
    Contexts = {timer, admin}
    Timer = timer
    Previewers = {previewer}
    Keys = {}
    KeyPrefix <- SamePrefix
    Environment = {"reject"}
    HOURS <- MCOneWindow
    MaxTime = 0
    AddArgs <- PreviewAdds
    UpdateArgs <- PreviewUpdates
    Policies <- PreviewPolicies
    TopupAmounts = {1}
    MaxReserves = 2
    MaxBlocks = 2
INVARIANTS
    PreviewTypeOK
    OverstatesByMintsOnly
PROPERTY
    AnnouncedIsMinted
