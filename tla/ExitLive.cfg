SPECIFICATION FairSpec
CONSTANTS
    a = a  b = b  c1 = c1  c2 = c2  h1 = h1  h2 = h2
    NoClient = NoClient
    Clients = {c1}
    Sessions = {a, b}
    Owner <- SameOwner
    Handlers = {h1}
    MaxData = 2
    MaxCtrl = 0
    MaxOut = 4
    PerSession = 1
    BatchCap = 1
    BatchCapBusy = 1
    BusySessions = 2
    Budget = 2
    CoalesceMin = 0
INVARIANT NoStrandedSession
PROPERTY PendingIsServed
