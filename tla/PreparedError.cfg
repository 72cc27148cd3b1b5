\* What a failed recovery reports.
CONSTANTS
    Sql = {q1}
    Stmt = {s1, s2}
    Result = {r1}
    None = None
    Capacity = 1
SPECIFICATION Spec
SYMMETRY Symmetry
PROPERTY ErrorIsOriginal
