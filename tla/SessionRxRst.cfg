SPECIFICATION Spec
CONSTANTS
    Workers = {w1, w2}
    FinSeq = 3
    FirstData = 0
    RxInboxCap = 1
    RxChanCap = 1
    ForcedClose = "rst"
    StopsEarly = FALSE
    Collects = TRUE
SYMMETRY WorkerSymmetry
INVARIANT NeverPanics
CHECK_DEADLOCK FALSE
