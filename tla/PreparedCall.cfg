\* Three statements compete for a cache of two; every call, every loss, and the
\* arguments of the calls.
CONSTANTS
    q1 = q1
    q2 = q2
    q3 = q3
    a = a
    b = b
    Sql = {q1, q2, q3}
    Stmt = {s1, s2, s3}
    Result = {r1}
    None = None
    Capacity = 2
    Value = {a, b}
    Null = Null
    Emptied = Emptied
    Garbage = Garbage
    Params <- MCParams
    Arguments <- MCArguments
SPECIFICATION FairCallSpec
INVARIANTS
    TypeOK
    CacheIsAMap
    StatementsAccounted
    CacheOfThisSession
    RetriedOnce
    BindTypeOK
PROPERTIES
    SuccessIsReal
    ArgumentsArrive
    CallEnds
    ImplementsCache
    OnlyRetryEscapes
    CallsAdvance
