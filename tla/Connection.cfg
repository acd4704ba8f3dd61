\* Two requests of the browser for one slot, and one goroutine beside them.
SPECIFICATION FairSpec
CONSTANTS
    r1 = r1
    r2 = r2
    i1 = i1
    none = none
    Requests <- TwoRequests
    Internals <- OneInternal
    None <- none
    MaxRequests = 1
    MaxCalls = 2
INVARIANTS TypeOK SlotsAreOpenRequests ResponseMatches ReaderNeverStrands HandlersAreCalls
PROPERTIES RequestFinishes AnswerArrives
CHECK_DEADLOCK FALSE
