SPECIFICATION Spec
CONSTANTS
    r1 = r1
    r2 = r2
    v1 = v1
    N = 2
    Requests <- MCRequests
    Viewers <- NoViewers
    Cooldown = 1
    MaxKeyAttempts = 2
    KeyHealth = TRUE
    Rotation = "roundrobin"
    Answers = {401, 429}
INVARIANT RowsAndReadersFit
PROPERTY BenchStands
VIEW HealthOnly
SYMMETRY Interchangeable
