SPECIFICATION Spec
CONSTANTS
    Request = {r1, r2}
    Limits = {1, 2}
    StreamWindow = 2
    ConnWindow = 2
SYMMETRY Symmetry
INVARIANTS
    ReceiveCredit
    NoForgottenWaiter
    NobodyHangs
    CleanEnd
    DrainedCloses
CHECK_DEADLOCK FALSE
