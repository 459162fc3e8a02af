SPECIFICATION FairSpec
CONSTANTS
    a = a  w1 = w1  w2 = w2
    Sessions = {a}
    Workers = {w1, w2}
    MaxData = 2
    PerSession = 1
    BatchCap = 1
    BatchCapBusy = 1
    BusySessions = 2
    IdleSlots = 1
    IdleFloor = 1
    MaxAttempts = 1
    MaxReply = 1
    Coalesce = TRUE
INVARIANT IdlePollsCounted
PROPERTIES CollectedHasNothingPending PendingIsSent StaleReadyCleaned ClosedLeaves
