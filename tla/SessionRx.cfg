SPECIFICATION FairSpec
CONSTANTS
    Workers = {w1, w2}
    FinSeq = 2
    FirstData = 0
    RxInboxCap = 1
    RxChanCap = 1
    ForcedClose = "idle"
    StopsEarly = TRUE
    Collects = TRUE
INVARIANTS PrefixDelivered GoneMeansClosed CleanEofIsComplete
PROPERTIES WorkersReturn StopEndsLoop FinLeadsToGone
CHECK_DEADLOCK FALSE
