CONSTANTS
    c1 = c1
    c2 = c2
    c3 = c3
    u1 = u1
    u2 = u2
    s1 = s1
    s2 = s2
    None = None
    Creates = {c1, c2, c3}
    Uploads = {u1, u2}
    Final = 2
    Setups <- AllSetups
    Patient = TRUE
    MaxLosses = 2
    Calls = {s1, s2}
    Tokens = 2
    AsrEnvs <- SomeAsrEnvs
    Lengths = {1, 2, 3, 4, 5}
    FRAME_SIZE = 2
    ImageEnvs <- AllImageEnvs
    MaxRetries = 2
    Backoff = 1
    TextLimit = 2
    ImageLimit = 2
    TokenLimit = 1
    CreateLimit = 2
    SyncLimit = 3
    PollLimit = 2
    FetchLimit = 1
    Interval = 1
    Deadline = 4
    MaxPolls = 3
    Margin = 2
    TokenLife = 4
SPECIFICATION Spec
INVARIANTS TypeOK RetriesShareOneJob NoOrphanJobs UploadWhole ToldMeansHeard RefusedTokenForgotten StreamWhole OnlyModeratedShown BoundedTime
PROPERTIES UploadArrives VendorCallsEnd
CHECK_DEADLOCK FALSE
