SPECIFICATION Spec
CONSTANTS
    Name = {"x", "y"}
    Size = 3
    MaxScopes = 3
INVARIANTS
    TypeOK
    ScopesKnowTheirOwn
    LexicalScoping
CHECK_DEADLOCK FALSE
