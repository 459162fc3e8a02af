SPECIFICATION Spec
CONSTANTS
    a = a  b = b  c1 = c1  c2 = c2  h1 = h1  h2 = h2
    NoClient = NoClient
    Clients = {c1, c2}
    Sessions = {a}
    Owner <- OneOwner
    Handlers = {h1, h2}
    MaxData = 2
    MaxCtrl = 1
    MaxOut = 3
    PerSession = 2
    BatchCap = 1
    BatchCapBusy = 2
    BusySessions = 1
    Budget = 2
    CoalesceMin = 0
SYMMETRY HandlerSymmetry
INVARIANTS ClientIsolation RstFlushedAtOnce ResponseBytesBounded
PROPERTIES CollectedHasNothingPending
