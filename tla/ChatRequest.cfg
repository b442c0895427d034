SPECIFICATION FairSpec
CONSTANTS
    MaxAttempts = 3
    MaxChunks = 2
CHECK_DEADLOCK FALSE
INVARIANTS AnswerWhole EndTellsOutcome AccountedOnce OneUpstream
PROPERTIES LeaverCostsNothing LeaverReleased
