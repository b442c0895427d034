SPECIFICATION Spec
CONSTANTS
    MaxRows = 3
    MaxPrompt = 2
    Rates = {1, 2}
CHECK_DEADLOCK FALSE
PROPERTY CachedChargedOnce
