SPECIFICATION Spec
CONSTANTS
    Refs = {main}
    Default = main
    IdKinds = {"request", "event", "hash"}
    Workers = {w1}
    MaxRequests = 2
    Commits = {1, 2}
    MaxPushes = 2
    MaxAttempts = 2
    MaxFaults = 1
INVARIANTS PushIsQueuedOnce QueuedPushIsIndexed
PROPERTY DefaultBranchCatchesUp
CHECK_DEADLOCK FALSE
