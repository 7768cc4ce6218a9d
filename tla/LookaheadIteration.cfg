SPECIFICATION Spec
CONSTANTS
    Thread = {th1, th2}
    Name = {python, markdown, md, unknown}
    LanguageOf <- MCLanguageOf
    ScriptState <- MCScriptState
    Width = 4
    StateCount <- MCStateCount
    Expected <- MCExpected
    Null = Null
    python = python
    markdown = markdown
    md = md
    unknown = unknown
    py = py
    mark = mark
    a = a
    b = b
    c = c
INVARIANTS
    TypeOK
    TableNotShared
    LookupsAgree
    StateFitsLanguage
    EachSymbolOnce
