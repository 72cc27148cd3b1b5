\* Two ResultSets on a handle, or on none.
CONSTANTS
    Result = {r1, r2}
    Stmt = {s1}
    None = None
    Columns = {1, 2}
    Declared <- MCDeclared
    Row <- MCRow
    MaxRows = 3
    Max32 = 1
    Max64 = 3
SPECIFICATION FetchSpec
SYMMETRY Symmetry
INVARIANTS
    FetchTypeOK
    RowIsCurrent
    RowsReachTheirOwner
    EndMeansEnd
    IntegersExact
