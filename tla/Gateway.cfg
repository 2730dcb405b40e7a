SPECIFICATION Spec
CONSTANTS
    Handler = {h1, h2}
    Subject = {s1}
    UseAdmission = TRUE
    MaxConnections = 2
    MaxPerPrincipal = 1
SYMMETRY Symmetry
INVARIANTS
    
    DrainedIsQuiet
    AttemptAccounting
    ExpirationAccounting
CHECK_DEADLOCK FALSE
