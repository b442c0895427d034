SPECIFICATION Spec
CONSTANTS
    Models <- MCModels
    Endpoints <- MCEndpoints
    EndpointOf <- MCEndpointOf
    KeysOf <- MCKeysOf
    MaxTargets = 2
    MaxKeyAttempts = 2
    RetriesOf <- MCRetriesOf
    MaxRetries = 1
    RecordCap = 4
CHECK_DEADLOCK FALSE
INVARIANT NoKeyReuse
