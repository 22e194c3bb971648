SPECIFICATION Spec
CONSTANTS
    cop1 = cop1
    cop2 = cop2
    suspect = suspect
    car1 = car1
    Cops = {cop1, cop2}
    Others = {suspect}
    Cars = {car1}
    Nobody = Nobody
    Foot = Foot
    NoOrder = NoOrder
    MaxLost = 1
INVARIANT OneDriverCommanded
