SPECIFICATION FairSpec
CONSTANTS
    Jobs = {j1}
    Workers = {w1}
    NoWorker = NoWorker
    NoJob = NoJob
    MaxAttempts = 2
    JobTimeout = 1
    Lease = 2
    RetryDelay = 1
    OutageDelay = 1
    PausedDelay = 1
    OutageReported = 1
    MaxEnqueues = 2
    MaxFaults = 2
PROPERTIES EveryJobSettles RetriedJobIsReported
