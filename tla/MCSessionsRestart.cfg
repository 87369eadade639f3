SPECIFICATION FairSpec
CONSTANTS
    a = a
    b = b
    c = c
    none = none
    Ids = {a}
    NoId = none
    OneShot = {}
    MaxRuns = 3
    MaxSessions = 1
    IdleTime = 1
    Window = 3
    MaxTime = 1
    MaxRestarts = 1
INVARIANTS
    ClaimsAreRuns
    ContextIsWhatWasSaid
PROPERTY
    EveryQuestionSettles
CHECK_DEADLOCK FALSE
