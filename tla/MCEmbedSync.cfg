SPECIFICATION Spec
CONSTANTS
    p1 = p1
    p2 = p2
    r1 = r1
    r2 = r2
    r3 = r3
    x = x
    y = y
    NoText = none
    NoRow = norow
    NoProc = noproc
    Procs = {p1, p2}
    Rows = {r1}
    Tables = 1
    TableOf <- OneTable
    Contents = {x, y}
    Batch = 2
    Down = 2
    MaxEdits = 2
    MaxFaults = 1
INVARIANTS
    VectorsAreOfTheirHash
    OneSyncAtATime
CHECK_DEADLOCK FALSE
