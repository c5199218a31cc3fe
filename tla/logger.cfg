SPECIFICATION FairSpec
CONSTANTS
    w1 = w1
    w2 = w2
    Writer = {w1, w2}
    MaxLines = 3
    Capacity = 1
    MaxFileSize = 1
    MaxDay = 2
    None = None
INVARIANTS
    RoomIsKept
    NothingLost
    WrittenInOrder
    FileOfTheDay
PROPERTIES
    LineIsWritten
    ShutdownReturns
