SPECIFICATION FairSpec
CONSTANTS
    r1 = r1
    r2 = r2
    v1 = v1
    N = 1
    Requests <- MCRequests
    Viewers <- MCViewers
    Cooldown = 1
    MaxKeyAttempts = 2
    KeyHealth = TRUE
    Rotation = "roundrobin"
    Answers = {400, 429}
INVARIANT StatsConserved
PROPERTIES KeyComesBack RequestEnds
