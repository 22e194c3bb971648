CONSTANTS
    Peds = {p1, p2}
    NoPed = NoPed
    Slots = {c1, c2}
    NoCase = NoCase
    Places <- MCPlace
    MAX_CONCURRENT_CASES = 1
    MAX_REINFORCEMENTS = 0
    MaxUnits = 1
    MaxWanted = 1
    MaxNewDeaths = 0
    DispatchDelay = 0
    ReinforceDelay = 0
    SceneTimeout = 0
    PendingTimeout = 0
    ArrivedTimeout = 0
    MaxAge = 1
SPECIFICATION Spec
INVARIANT PrimaryIsSuspect
PROPERTY FugitiveIsKept
SYMMETRY Symmetry
