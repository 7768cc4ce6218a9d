SPECIFICATION Spec
SYMMETRY Symmetry
CONSTANTS
    Tree = {t1, t2}
    Owner = {o1, o2}
    Node = {n1, n2}
    Cursor = {}
    Query = {q1}
    QueryCursor = {x1, x2}
    Thread = {th1, th2}
    Null = Null
INVARIANTS
    NoDanglingBorrow
    QueryOutlivesCursor
