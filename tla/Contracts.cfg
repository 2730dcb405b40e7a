SPECIFICATION Spec
CONSTANTS
    m1 = m1
    m2 = m2
    m3 = m3
    e1 = e1
    e2 = e2
    p = p
    q = q
    r = r
    Message = {m1, m2, m3}
    Enum = {e1, e2}
    Own = {p}
    Foreign = {q}
    Forged = {r}
    Service = Service
    Heaps <- HeapSet
    Names = {"A", "B", "C"}
    Defaults = {"none", "0", "-0", "NaN"}
    Timeouts = {0, 2}
    MaxTime = 2
    MaxChanges = 2
INVARIANTS
    ContractExact
    StampedIsOwn
    
CHECK_DEADLOCK FALSE
