SPECIFICATION FairSpec
CONSTANTS
    Session = {s1, s2, s3}
    Call = {c1}
    Listeners = 2
    Reentrant = TRUE
    none = none
INVARIANTS
    OneConnector
    NoOrphanChannel
    NoForgottenCall

    
CHECK_DEADLOCK FALSE
