CONSTANTS
    j1 = j1
    j2 = j2
    c1 = c1
    c2 = c2
    None = None
    Jobs = {j1, j2}
    Calls = {c1}
    Copies = 1
    MaxRetries = 0
    MaxConfirms = 1
    Pids = {1, 2, 3}
    LocalJobs = {1, 2}
    CloudJobs = {1, 2}
    Buffer = 1
    MaxMessages = 3
SPECIFICATION DaemonSpec
INVARIANTS TypeOK NothingPrintsUnconfirmed TicketsAccounted OwnVoiceOwnPicture
SYMMETRY JobSymmetry
CHECK_DEADLOCK FALSE
