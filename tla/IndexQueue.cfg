SPECIFICATION Spec
CONSTANTS
    Jobs = {j1}
    Workers = {w1, w2}
    NoWorker = NoWorker
    NoJob = NoJob
    MaxAttempts = 2
    JobTimeout = 1
    Lease = 2
    RetryDelay = 1
    OutageDelay = 1
    PausedDelay = 1
    OutageReported = 1
    MaxEnqueues = 2
    MaxFaults = 2
INVARIANTS HealthyRunOwnsItsJob BudgetAccounting
PROPERTY SettledByLeaseHolder
