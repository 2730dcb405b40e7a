SPECIFICATION Spec
CONSTANTS
    Call = {c1, c2}
    N = 2
    Size <- Sizes
    PerRpcBuffer = 3
    Buffer = 4
    MaxAttempts = 2
    MaxTokens = 0
    TokenRatio = 1
    MaxUnsent = 0
SYMMETRY Symmetry
INVARIANTS
    BudgetAccounted
CHECK_DEADLOCK FALSE
