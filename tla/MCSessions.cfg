SPECIFICATION Spec
CONSTANTS
    a = a
    b = b
    c = c
    none = none
    Ids = {a, b, c}
    NoId = none
    OneShot = {c}
    MaxRuns = 3
    MaxSessions = 1
    IdleTime = 1
    Window = 1
    MaxTime = 0
    MaxRestarts = 0
SYMMETRY Tabs
PROPERTIES
    KeepsClaims
CHECK_DEADLOCK FALSE
