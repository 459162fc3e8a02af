SPECIFICATION Spec
CONSTANTS
    a = a  b = b  w1 = w1  w2 = w2
    Sessions = {a, b}
    Workers = {w1, w2}
    MaxData = 1
    PerSession = 2
    BatchCap = 1
    BatchCapBusy = 2
    BusySessions = 2
    IdleSlots = 1
    IdleFloor = 2
    MaxAttempts = 2
    MaxReply = 0
    Coalesce = FALSE
SYMMETRY WorkerSymmetry
INVARIANTS NoStrandedSession InFlightExclusive
