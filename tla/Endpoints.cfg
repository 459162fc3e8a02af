SPECIFICATION FairSpec
CONSTANTS
    N = 3
    Workers = {w1, w2}
    Ramp <- SmallRamp
    RateFloor = 1
    HardFloor = 2
INVARIANT BlacklistWithinBackoff
PROPERTIES FailureNeverShortens EveryEndpointTried
