SPECIFICATION Spec
CONSTANTS
    a = a
    b = b
    x = x
    y = y
    good = good
    bad = bad
    local = local
    empty = empty
    n1 = n1
    n2 = n2
    n3 = n3
    r1 = r1
    r2 = r2
    Thread = {th1, th2}
    Capture = {a, b}
    Text = {x, y, good, bad, local, empty}
    Empty = empty
    True = true
    Pattern = {good, bad, x, local}
    Invalid = {bad}
    Found <- MCFound
    Node = {n1, n2, n3}
    TextOf <- MCTextOf
    ByteRange = {r1, r2}
    RangeOf <- MCRangeOf
    Matches <- MCMatches
    Metadata <- MCMetadata
    Patterns <- MCPatterns
INVARIANTS
    TypeOK
    VerdictIsConjunction
    DirectivesAsWritten
    CompiledOnce
PROPERTY EvaluationsEnd
