SPECIFICATION Spec
CONSTANTS
    c1 = c1
    c2 = c2
    Cases = {c1, c2}
    NoCase = NoCase
    v1 = v1
    v2 = v2
    Vehicles = {v1}
    VEHICLE_IDENTIFY_MAX_ATTEMPTS = 2
    MAX_NEAR_PLAYER <- OneEach
    Sends = {"firetruck", "heli"}
    MaxUnits = 2
    MaxWaves = 0
    MaxDelay = 0
SYMMETRY AnyCase
INVARIANTS RecordNamesLiveCase OrdersEndWithTheCases
CHECK_DEADLOCK FALSE
