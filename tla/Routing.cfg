SPECIFICATION FairSpec
CONSTANTS
    Models <- MCModels
    Endpoints <- MCEndpoints
    EndpointOf <- MCEndpointOf
    KeysOf <- MCKeysOf
    MaxTargets = 3
    MaxKeyAttempts = 3
    RetriesOf <- MCRetriesOf
    MaxRetries = 1
    RecordCap = 4
CHECK_DEADLOCK FALSE
INVARIANT WaysOutTrue
PROPERTIES OutputFinal ImplementsFailover Answered
