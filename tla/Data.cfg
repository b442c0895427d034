SPECIFICATION MCSpec
CHECK_DEADLOCK FALSE
CONSTANTS
    NULL = NULL
    ToolKeys = {0, 1}
    MaxChunks = 3
    MaxBlocks = 3
    MaxTurns = 5
    MaxCalls = 2
    Models = {a, b}
    DayLength = 2
    MaxTime = 2
    MaxLogged = 2
    MaxEdits = 3
    LogIds = {r1, r2}
    Old = old
    KeyNames = {k1, k2}
    MaxDay = 1
    MaxActs = 2
    MaxBilled = 3
    MaxPrompt = 1
    Rates = {1, 2}
    Filters = {f1, f2}
    Limit = 1
    MaxListed = 3
    MaxLoads = 3
    MaxMessages = 3
    MaxChats = 2
    KeptChats = 1
    KeptMessages = 1
    MaxOps = 2
    MaxSlots = 3
    MaxCount = 2
    MaxOperations = 4
    MaxFrames = 4
    MaxLines = 1
    Autos = {a1, a2}
    MaxCeiling = 2
    Values = {x, y}
    MaxEndpoints = 2
    Names = {m1}
    Versions = {v1}
    Backends = {b1, b2}
    MaxTests = 4
    MaxSaves = 1
INVARIANTS StreamWhole CallsApart ToolTurnsKept RollupsMatch StatsFresh ReferencesWhole
    RegistryCurrent ReportsAgree CeilingHeld ListsTrue TurnsOwnTheirPlace EditorsTrue
PROPERTIES HistoryKept ImagesKept
