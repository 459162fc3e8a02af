SPECIFICATION FairSpec
CONSTANTS
    r1 = r1  r2 = r2
    Routers = {r1, r2}
    MaxConns = 2
    MaxFrames = 3
    MaxResolved = 2
    HighWater = 0
    RxCap = 1
INVARIANTS DisplacedOnlyByOverlap FailedAddressGone
PROPERTIES NothingLeftBehind OrphanCollected
CHECK_DEADLOCK FALSE
