\* Two threads compete for one connection; no symmetry, liveness is checked.
CONSTANTS
    Client = {t1, t2}
    Conn = {c1, c2}
    Nobody = Nobody
    MinSize = 1
    MaxSize = 1
    SizeMax = 1
    AcquireTimeout = 2
    CallTimeouts = {0, 1}
    IdleMaxAge = 1
    AssumeStale = 1
    AgeCap = 1
    HealthCheck = TRUE
    RollbackOnReturn = TRUE
SPECIFICATION FairSpec
PROPERTIES
    AcquireEnds
    DestructorEnds
