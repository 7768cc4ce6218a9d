SPECIFICATION Spec
CONSTANTS
    n1 = n1
    n2 = n2
    m1 = m1
    m2 = m2
    m3 = m3
    Thread = {th1, th2}
    Node = {n1, n2}
    Match = {m1, m2, m3}
    Stream <- MCStream
    Passes = {m1, m3}
    DepthOf <- MCDepthOf
    Depths = {1, 2}
    Deepest = 3
    Unwanted = {m1}
    Requests <- MCRequests
    Interval = 2
    Null = Null
INVARIANTS
    TypeOK
    CompleteResults
    DepthWasRequested
PROPERTY LastSettingApplies

