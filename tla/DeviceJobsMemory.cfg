CONSTANTS
    j1 = j1
    good = good
    bad = bad
    k1 = k1
    p1 = p1
    p2 = p2
    r1 = r1
    r2 = r2
    w1 = w1
    w2 = w2
    None = None
    Jobs = {j1}
    Texts <- MCTexts
    Safe <- MCSafe
    Keys = {k1}
    Replicas = {p1}
    Requests = {r1, r2}
    Workers = {w1, w2}
    ReplicaOf <- OneReplica
    o1 = o1
    Spare = {o1}
    SharedRecords = TRUE
    SharedQueue = FALSE
    S3Preview = TRUE
    MaxCrashes <- OneCrash
SPECIFICATION FairSpec
INVARIANTS TypeOK ReadyShowsApproved StagesOwnRecord
PROPERTIES JobResolves
CHECK_DEADLOCK FALSE
