\* Two threads, one connection, nothing but its loss.
CONSTANTS
    Client = {t1, t2}
    Conn = {c1, c2, c3}
    Nobody = Nobody
    MinSize = 1
    MaxSize = 1
    SizeMax = 1
    AcquireTimeout = 2
    CallTimeouts = {0}
    IdleMaxAge = 1
    AssumeStale = 0
    AgeCap = 2
    HealthCheck = TRUE
    RollbackOnReturn = TRUE
SPECIFICATION Spec
INVARIANT ReturnWakesWaiter
