SPECIFICATION Spec
CONSTANTS
    NumLoops = 1
    MaxSignals = 1
INVARIANT
    NoUseAfterDestruction
