CONSTANTS
    j1 = j1
    j2 = j2
    c1 = c1
    c2 = c2
    None = None
    Jobs = {j1}
    Calls = {c1}
    Copies = 1
    MaxRetries = 0
    MaxConfirms = 1
SPECIFICATION Spec
PROPERTIES CancelledNotBegun
CHECK_DEADLOCK FALSE
