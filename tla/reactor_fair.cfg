SPECIFICATION FairSpec
CONSTANTS
    c1 = c1
    c2 = c2
    f1 = f1
    Client = {c1, c2}
    Fd = {f1}
    NumLoops = 1
    None = None
    Hb = Hb
    MaxConnections = 1
    Timeouts = TRUE
    SendMayBlock = FALSE
    SpuriousWritable = FALSE
PROPERTIES
    BacklogServed
    IdleRemoved
    ReadableServed
    DeadPeerRemoved
