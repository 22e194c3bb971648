CONSTANTS
    Peds = {p1}
    NoPed = NoPed
    Slots = {c1, c2, c3}
    NoCase = NoCase
    Places <- MCPlaces
    MAX_CONCURRENT_CASES = 2
    MAX_REINFORCEMENTS = 0
    MaxUnits = 1
    MaxWanted = 0
    MaxNewDeaths = 0
    DispatchDelay = 0
    ReinforceDelay = 0
    SceneTimeout = 0
    PendingTimeout = 0
    ArrivedTimeout = 0
    MaxAge = 1
SPECIFICATION Spec
INVARIANTS CasesAreCapped EveryClosureHasItsCase LoadEndsEveryCase
SYMMETRY Symmetry
