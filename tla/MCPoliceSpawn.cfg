SPECIFICATION FairSpec
CONSTANTS
    left = left
    middle = middle
    right = right
    Place <- MCRow
    Near <- MCNear
    Cases = {c1}
    MaxCriminals = 1
    MaxUnits = 2
    MaxTopUps = 1
    Staggers = {2}
    ReleaseTimeout = 6
    TopUpDelay = 2
    Gaps = {2, 6}
INVARIANT CordonsMatchHolds
INVARIANT PendingIsServed
INVARIANT NoStaleVehicle
PROPERTY EveryBatchIsReleased
PROPERTY SpawnWaitEnds
