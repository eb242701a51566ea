SPECIFICATION RuntimeSpec
CONSTANTS
    Searchers = {s1, s2}
    Indexers = {i1}
    Texts = {t1, t2}
    FailureThreshold = 2
    CacheEntries = 1
    MaxEvents = 3
INVARIANTS OpenForCause WaitersHaveFlight HalfOpenHasProbe
PROPERTIES RuntimeIsACircuit Recovers
CHECK_DEADLOCK FALSE
