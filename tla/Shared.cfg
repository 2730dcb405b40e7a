SPECIFICATION FairSpec
CONSTANTS
    User = {u1, u2, u3}
    Connection = {k1, k2, k3}
    none = none
INVARIANTS
    OnlyEntryIsOpen
    LeaseIsOpen
CHECK_DEADLOCK FALSE
