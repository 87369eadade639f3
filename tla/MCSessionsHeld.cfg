SPECIFICATION Spec
CONSTANTS
    a = a
    b = b
    c = c
    none = none
    Ids = {a, c}
    NoId = none
    OneShot = {}
    MaxRuns = 3
    MaxSessions = 1
    IdleTime = 1
    Window = 3
    MaxTime = 1
    MaxRestarts = 0
INVARIANT
    RunInProgressKeepsItsConversation
CHECK_DEADLOCK FALSE
