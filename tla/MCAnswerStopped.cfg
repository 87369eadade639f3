SPECIFICATION Spec
CONSTANTS
    HistoryBytes = 3
    Continuations = 1
    Retries = 0
    Waits = 1
    MaxRestored = 0
    MaxQuestions = 1
    MaxWords = 1
    MaxCalls = 1
    MaxExcess = 0
INVARIANT
    StoppedTextStays
CHECK_DEADLOCK FALSE
