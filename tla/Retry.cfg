SPECIFICATION FairSpec
CONSTANTS
    Call = {c1}
    N = 3
    Size <- Sizes
    PerRpcBuffer = 4
    Buffer = 4
    MaxAttempts = 3
    MaxTokens = 8
    TokenRatio = 1
    MaxUnsent = 2
INVARIANTS
    ReplayIsExact
    ExecutionsBounded

    
CHECK_DEADLOCK FALSE
