SPECIFICATION Spec
CONSTANTS
    Pages = {1, 2, 3}
    Limit = 2
    MaxClock = 4
    MaxFaults = 1
INVARIANT ConfluenceEditIsNoticed
CHECK_DEADLOCK FALSE
