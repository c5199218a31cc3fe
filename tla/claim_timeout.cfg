SPECIFICATION Spec
CONSTANTS
    c1 = c1
    f1 = f1
    Client = {c1}
    Fd = {f1}
    NumLoops = 1
    None = None
    Hb = Hb
    MaxConnections = 1
    Timeouts = TRUE
    SendMayBlock = FALSE
    SpuriousWritable = FALSE
INVARIANT
    TimeoutKeepsServing
