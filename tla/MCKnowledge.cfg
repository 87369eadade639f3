SPECIFICATION SpecAll
CONSTANTS
    p1 = p1
    p2 = p2
    d1 = d1
    d2 = d2
    x = x
    y = y
    NoText = none
    Procs = {p1, p2}
    Docs = {d1, d2}
    Contents = {x, y}
    Parts <- OneOrTwo
    MaxEdits = 2
    MaxStops = 1
    Size = 4
    Near = 3
    Candidates = 2
    TitleMax = 2
    PageMax = 3
    FileCount = 2
    FileTexts <- TwoFiles
    Unread = Unread
    BlockLines = 2
    PageItems = 1
    MaxPaths = 2
    ListScopes = 1
    MaxChanges = 1
INVARIANTS
    ChunksAreOneContent
    NothingIsSkipped
    NoResultIsPassed
    SearchesAreWhole
PROPERTY
    EveryDocumentIsSplit
CHECK_DEADLOCK FALSE
