SPECIFICATION FairSpec
CONSTANTS
    a = a
    b = b
    s1 = s1
    NoSession = nosession
    NoRun = norun
    Sessions = {s1}
    Calls <- FourCalls
    Sig <- SomeSigs
    Routines = {1, 4}
    Responses <- SomeResponses
    Batches = 2
    Permits = 1
    Http = TRUE
    Conns = 1
INVARIANTS
    EffectIsSaid
    PooledSessionsAreFree
    BatchLeavesNothingOpen
    QueriesRunOnce
PROPERTY BatchEnds
CHECK_DEADLOCK FALSE
