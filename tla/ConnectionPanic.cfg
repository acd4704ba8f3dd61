\* One request whose goroutine starts late.
SPECIFICATION Spec
CONSTANTS
    r1 = r1
    r2 = r2
    i1 = i1
    none = none
    Requests <- OneRequest
    Internals <- OneInternal
    None <- none
    MaxRequests = 1
    MaxCalls = 1
INVARIANT NeverPanics
CHECK_DEADLOCK FALSE
