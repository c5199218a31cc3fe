SPECIFICATION FairSpec
CONSTANTS
    NumLoops = 2
    MaxSignals = 2
INVARIANTS
    PoolClosedAfterThreads
    HeartbeatEndsFirst
    HeartbeatNotified
    HandlerWritesToEventfd
PROPERTIES
    SignalEndsMainLoop
    
