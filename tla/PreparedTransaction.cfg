\* A session lost inside a transaction.
CONSTANTS
    Sql = {q1, q2}
    Stmt = {s1, s2}
    Result = {r1}
    None = None
    Capacity = 2
SPECIFICATION Spec
SYMMETRY Symmetry
INVARIANT TransactionIsWhole
