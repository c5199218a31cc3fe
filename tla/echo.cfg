SPECIFICATION FairSpec
CONSTANTS
    MaxBytes = 7
    RcvBuf = 4
    SndBuf = 2
    Headroom = 1
    Growth = 2
    SpuriousWritable = FALSE
CHECK_DEADLOCK FALSE
INVARIANTS
    Conservation
    BuffersFit
    PendingIsArmed
PROPERTIES
    PipeSpec
    EchoComplete
