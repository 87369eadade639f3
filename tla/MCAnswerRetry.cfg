SPECIFICATION FairSpec
CONSTANTS
    HistoryBytes = 9
    Continuations = 2
    Retries = 1
    Waits = 1
    MaxRestored = 0
    MaxQuestions = 1
    MaxWords = 1
    MaxCalls = 1
    MaxExcess = 0
INVARIANTS
    ScreenIsTheAnswer
    PiecesAreOneMessage
PROPERTY
    EveryQuestionEnds
CHECK_DEADLOCK FALSE
