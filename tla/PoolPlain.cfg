\* The bare pool: no health check, no rollback, no staleness heuristic; two
\* threads, one connection warmed up, two more on demand.
CONSTANTS
    Client = {t1, t2}
    Conn = {c1, c2, c3, c4}
    Nobody = Nobody
    MinSize = 1
    MaxSize = 3
    SizeMax = 3
    AcquireTimeout = 1
    CallTimeouts = {0}
    IdleMaxAge = 1
    AssumeStale = 0
    AgeCap = 1
    HealthCheck = FALSE
    RollbackOnReturn = FALSE
SPECIFICATION Spec
SYMMETRY Symmetry
INVARIANTS
    LedgerMatchesHeap
    MinimumKept
PROPERTIES
    CleanupIsComplete
