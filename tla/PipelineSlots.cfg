CONSTANTS
    t1 = t1
    t2 = t2
    t3 = t3
    t4 = t4
    t5 = t5
    Tasks <- MCTasks
    MaxConcurrency = 2
SPECIFICATION FairSpec
INVARIANTS TypeOK SlotsAccounted WorkConserving NoTaskTwice QuietWhenClosed
PROPERTIES StartsInOrder KeepsPoolPromise ShutdownTerminates AcceptedRuns
CHECK_DEADLOCK FALSE
