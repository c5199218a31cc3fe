SPECIFICATION Spec
CONSTANTS
    c1 = c1
    c2 = c2
    c3 = c3
    f1 = f1
    f2 = f2
    Client = {c1, c2, c3}
    Fd = {f1, f2}
    NumLoops = 2
    None = None
    Hb = Hb
    MaxConnections = 2
    Timeouts = FALSE
    SendMayBlock = TRUE
    SpuriousWritable = FALSE
SYMMETRY Symmetry
INVARIANTS
    EpollCallsSucceed
    RegisteredInPool
    OneHandlerPerConnection
    HandlerUsesOwnSocket
    FiredIsOwned
