SPECIFICATION MCSpec
CHECK_DEADLOCK FALSE
CONSTANTS
    MessageAttempts = 2
    MessageEvents = 2
    UnaryAttempts = 3
    Requests = {r1, r2}
    Window = 2
    Limits = {1, 2}
    Cookies = {s1, s2}
    Visits = {v1}
    MaxLogins = 2
    Lifetime = 1
    Callers = {c1, c2, c3}
    MaxCalls = 4
    Models = {m1}
    MaxBucket = 2
    MaxHot = 2
    MaxSamples = 3
    Retention = 1
    UptimeWindow = 1
    LostAcks = FALSE
INVARIANTS AccountedOnce AnsweredAsLogged UsageTrue AllOrNothing
PROPERTIES LeaverCostsNothing AnswerCloses ServedWithinLimits LockoutEnds TurnComes
    CountsLikeLedger AnswerTrue
