SPECIFICATION FairSpec
CONSTANTS
    Cases = {c1, c2}
    Criminals = {p1, p2}
    Vehicles = {v1}
    MaxPrisoners = 1
    MaxPauses = 1
    Removable = {p1}
    None = None
INVARIANT TypeOK
INVARIANT TransportHasRoom
INVARIANT TransportIsOffDuty
INVARIANT PrisonersAreHeld
PROPERTY CustodyIsLeftAlone
PROPERTY TransportIsGivenBack
