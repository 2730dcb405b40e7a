SPECIFICATION Spec
CONSTANTS
    MaxFrameSize = 20
    HeaderTableSize = 70
    MaxHeaderListBytes = 70
    MaxHeaderCount = 2
    Headers <- SampleHeaders
    TableSizes = {0, 40}
    Others <- SampleFrames
    Garbage <- WrongFrames
    MaxHeaderBlockSize = 6
    MaxBlocks = 3
    MaxFields = 2
    MaxOthers = 1
    MaxInFlight = 2
    MaxCuts = 1
    Early = 1
INVARIANTS
    FramesInOrder
    
    
CHECK_DEADLOCK FALSE
