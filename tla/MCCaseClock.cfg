CONSTANTS
    Peds = {p1}
    NoPed = NoPed
    Slots = {c1, c2}
    NoCase = NoCase
    Places <- MCPlace
    MAX_CONCURRENT_CASES = 1
    MAX_REINFORCEMENTS = 1
    MaxUnits = 2
    MaxWanted = 1
    MaxNewDeaths = 1
    DispatchDelay = 1
    ReinforceDelay = 1
    SceneTimeout = 1
    PendingTimeout = 2
    ArrivedTimeout = 3
    MaxAge = 4
SPECIFICATION FairSpec
INVARIANTS TypeOK SceneClockRuns
PROPERTY CaseEndsOrStrands

