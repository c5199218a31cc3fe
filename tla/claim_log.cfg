SPECIFICATION Spec
CONSTANTS
    w1 = w1
    Writer = {w1}
    MaxLines = 1
    Capacity = 2
    MaxFileSize = 2
    MaxDay = 1
    None = None
INVARIANT
    RemainingIsWritten
