SPECIFICATION Spec
CONSTANTS
    HistoryBytes = 1
    Continuations = 1
    Retries = 0
    Waits = 0
    MaxRestored = 1
    MaxQuestions = 2
    MaxWords = 1
    MaxCalls = 2
    MaxExcess = 2
INVARIANTS
    ContextIsWhole
    PruningIsSafe
PROPERTIES
    WhatWasDoneStays
    NothingInContextIsLost
CHECK_DEADLOCK FALSE
