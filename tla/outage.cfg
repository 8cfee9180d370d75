SPECIFICATION Spec
CONSTANTS
    None = None
    fresh = fresh
    full = full
    spilled = spilled
    long = long
    huge = huge
    alice = alice
    bob = bob
    States = {fresh, full, spilled, long, huge}
    Length <- MCLength
    PAGE = 8
    MaxPages = 3
    Deployers = {alice}
    Fresh = fresh
    Incidents = {"outage"}
PROPERTY
    StateSurvives
