SPECIFICATION Spec
CONSTANTS
    MaxAttempts = 2
    MaxChunks = 1
CHECK_DEADLOCK FALSE
INVARIANT LoggingNeverCrashes
