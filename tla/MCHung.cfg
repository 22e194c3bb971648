SPECIFICATION Spec
CONSTANTS
    c1 = c1
    c2 = c2
    Cases = {c1}
    NoCase = NoCase
    v1 = v1
    v2 = v2
    Vehicles = {v1}
    VEHICLE_IDENTIFY_MAX_ATTEMPTS = 2
    MAX_NEAR_PLAYER <- OneEach
    Sends = {"firetruck"}
    MaxUnits = 2
    MaxWaves = 1
    MaxDelay = 0
INVARIANTS TickReturns
CHECK_DEADLOCK FALSE
