SPECIFICATION FairSpec
CONSTANTS
    p1 = p1
    p2 = p2
    r1 = r1
    r2 = r2
    r3 = r3
    x = x
    y = y
    NoText = none
    NoRow = norow
    NoProc = noproc
    Procs = {p1}
    Rows = {r1, r2, r3}
    Tables = 2
    TableOf <- TwoTables
    Contents = {x, y}
    Batch = 2
    Down = 1
    MaxEdits = 1
    MaxFaults = 1
PROPERTY
    EveryRowSettles
CHECK_DEADLOCK FALSE
