SPECIFICATION Spec
CONSTANTS
    Base = 3
    IDLen = 1
    SeqBytes = 2
    LenBytes = 3
    CountBytes = 1
    MaxTargetLen = 2
    MaxPayload = 2
    CompressMin = 10
    Day = 3
    DayHours <- Days
    MaxCount = 3
    ProbedHosts = 4
    Times = {0, 1, 3, 4}
    Timers = {t1, t2, t3}
    NoTimer = NoTimer
    Step = 2
    Burst = 4
INVARIANTS BatchRoundTrip ProbeKeepsGoodHosts CountsToday KickWithinBurst
CHECK_DEADLOCK FALSE
