\* One statement, an rvalue string among its arguments, and a retry.
CONSTANTS
    q1 = q1
    q2 = q2
    q3 = q3
    a = a
    b = b
    Sql = {q3}
    Stmt = {s1, s2}
    Result = {r1}
    None = None
    Capacity = 1
    Value = {a, b}
    Null = Null
    Emptied = Emptied
    Garbage = Garbage
    Params <- MCParams
    Arguments <- MCArguments
SPECIFICATION CallSpec
PROPERTY EveryAttemptSendsTheSame
