CONSTANTS
    j1 = j1
    j2 = j2
    c1 = c1
    c2 = c2
    None = None
    Jobs = {j1}
    Calls = {c1, c2}
    Copies = 2
    MaxRetries = 1
    MaxConfirms = 2
SPECIFICATION FairSpec
INVARIANTS PagesBounded AutoConfirmedOnce
PROPERTIES QueuedJobEnds
CHECK_DEADLOCK FALSE
