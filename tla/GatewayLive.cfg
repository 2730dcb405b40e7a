SPECIFICATION FairSpec
CONSTANTS
    Handler = {h1}
    Subject = {s1}
    UseAdmission = FALSE
    MaxConnections = 1
    MaxPerPrincipal = 1
PROPERTIES
    
    ExpiredTunnelEnds
    DrainIsNoticed
CHECK_DEADLOCK FALSE
