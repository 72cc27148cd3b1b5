\* One failed creation is enough for the counter to leave the truth.
CONSTANTS
    Client = {t1, t2}
    Conn = {c1, c2, c3}
    Nobody = Nobody
    MinSize = 1
    MaxSize = 2
    SizeMax = 3
    AcquireTimeout = 1
    CallTimeouts = {0}
    IdleMaxAge = 1
    AssumeStale = 2
    AgeCap = 2
    HealthCheck = TRUE
    RollbackOnReturn = TRUE
SPECIFICATION Spec
INVARIANT TotalCountsConnections
