CONSTANTS
    p1 = p1
    p2 = p2
    p3 = p3
    d1 = d1
    d2 = d2
    j1 = j1
    m1 = m1
    k1 = k1
    Apps = {p1, p2, p3}
    Devices = {d1, d2}
    Jobs = {j1}
    Homes <- SomeHomes
    MaxPatches = 5
    MaxMisses = 2
    DeviceClients = {k1}
    ParentClients = {m1}
    Deployments <- SomeDeployments
    DeviceAccess = 1
    DeviceRefresh = 2
    ParentAccess = 1
    ParentRefresh = 3
    CookieLife = 2
    MaxTime = 4
    MaxTokens = 3
    MaxFlows = 2
SPECIFICATION Spec
INVARIANTS NoPatchOverwrites
CHECK_DEADLOCK FALSE
