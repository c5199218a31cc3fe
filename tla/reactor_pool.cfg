SPECIFICATION Spec
CONSTANTS
    c1 = c1
    c2 = c2
    f1 = f1
    f2 = f2
    Client = {c1, c2}
    Fd = {f1, f2}
    NumLoops = 2
    None = None
    Hb = Hb
    MaxConnections = 1
    Timeouts = TRUE
    SendMayBlock = FALSE
    SpuriousWritable = FALSE
SYMMETRY Symmetry
INVARIANTS
    TypeOK
    PoolEntriesLive
    PoolBounded
    LivePeerKept
PROPERTIES
    ClosesOwnSocket
    ImplementsRegistry
