SPECIFICATION Spec
CONSTANTS
    js = js
    javascript = javascript
    locals = locals
    unknown = unknown
    r1 = r1
    r2 = r2
    f1 = f1
    f2 = f2
    c1 = c1
    c2 = c2
    Name = {js, javascript, locals, unknown}
    Request = {r1, r2}
    File = {f1, f2}
    Version = {v1, v2}
    Caller = {c1, c2}
    Null = Null
    Canonical <- MCCanonical
    Allowed <- MCAllowed
INVARIANTS
    TypeOK
    CachedForItsFile
PROPERTIES
    OneTextPerFile
    PolicyOnEveryCall
    HitsNeverWaitForReads
