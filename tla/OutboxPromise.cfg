CONSTANTS
    Keys = {k1}
    Workers = {w1, w2}
    NoKey = NoKey
    MaxAttempts = 2
    Batch = 1
    Lease = 1
    TaskLimit = 1
    Retention = 5
    Backoff <- MCBackoff
    MaxNow = 5
    MaxRetries = 1
    MaxCrashes = 1
SPECIFICATION Spec
INVARIANTS
    TypeOK
    OneWorkerPerRow
PROPERTY KeepsPromise
