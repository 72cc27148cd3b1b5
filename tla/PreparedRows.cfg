\* Two ResultSets of one statement.
CONSTANTS
    Sql = {q1, q2}
    Stmt = {s1, s2, s3}
    Result = {r1, r2}
    None = None
    Capacity = 2
SPECIFICATION Spec
SYMMETRY Symmetry
PROPERTY RowsStayReadable
