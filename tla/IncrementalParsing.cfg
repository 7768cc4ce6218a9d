SPECIFICATION Spec
CONSTANTS
    Thread = {th1, th2}
    Parser = {p1, p2}
    Source <- MCSource
    Ranges = {all, some, unordered}
    Everything = all
    Ordered = {all, some}
    Letter = {a, b}
    Tree = {t1, t2}
    Edit <- MCEdit
    MaxLength = 2
    Changed = Changed
    Null = Null
    a = a
    b = b
INVARIANTS
    TypeOK
    RangesHoldForAParse
    IncrementalIsFresh
    NodesReadTheirText
PROPERTY CallsReturn
