SPECIFICATION Spec
CONSTANTS
    n1 = n1
    n2 = n2
    m1 = m1
    m2 = m2
    m3 = m3
    Thread = {th1, th2}
    Node = {n1, n2}
    Match = {m1, m2, m3}
    Stream <- MCStream
    Passes = {m1}
    Limits <- MCLimits
    Everywhere <- MCEverywhere
    Interval = 2
    Null = Null
INVARIANTS
    TypeOK
    ReturnedOnce
    EvaluatedInOwnSource
    CancellationSeen
PROPERTY IterationsEnd
