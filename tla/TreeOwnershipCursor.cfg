SPECIFICATION Spec
SYMMETRY Symmetry
CONSTANTS
    Tree = {t1, t2}
    Owner = {o1, o2}
    Node = {n1, n2}
    Cursor = {c1, c2}
    Query = {}
    QueryCursor = {}
    Thread = {th1, th2}
    Null = Null
INVARIANTS
    TypeOK
    CountsExact
    NoDanglingBorrow
    OwnerMatchesBorrow
    NoLeak
PROPERTY KeepsTreesAlive
