SPECIFICATION FairSpec
CONSTANTS
    SliceSize = 2
    HighWater = 0
    MaxQueue = 1
    BufferSize = 1
    Tls = TRUE
    MaxWork = 3
    MaxFaults = 1
    DownRoom = 3
    UpRoom = 1
INVARIANTS
    CloseIsLast
    OpeningSettled
PROPERTIES
    
    UpIsAPipe
    TornDown
    WriteReturns
CHECK_DEADLOCK FALSE
