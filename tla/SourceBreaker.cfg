SPECIFICATION BreakerFairSpec
CONSTANTS
    LiveSearches = {s1, s2}
    IndexWorkers = {w1}
    Threshold = 2
    OpenDuration = 1
    ProbeTimeout = 2
PROPERTIES BreakerIsACircuit HarmlessIsNotCounted ClosesOnItsOwn
