SPECIFICATION Spec
\* A call ends with its answer.
CHECK_DEADLOCK FALSE
CONSTANTS
    None = None
    Accounts = {}
    HOURS <- MCThreeWindows
    MaxTime = 5
    MaxAmount = 3
    MaxLimit = 5
    Histories <- MCHistories
INVARIANTS
    MintIsLargestAllowed
    BudgetIsLargestAccepted
    LargerWindowsAreStricter
