\* Two streams of one frame each follow two changes, with fresh order IDs.
SPECIFICATION ViewSpec
CONSTANTS
    o1 = o1
    o2 = o2
    s1 = s1
    s2 = s2
    none = none
    OrderIDs <- TwoIDs
    Streams <- TwoStreams
    None <- none
    BufferSize = 1
    MaxSequence = 2
    FreshIDs = TRUE
INVARIANTS TypeOK CountIsActiveOrders NoSendOnClosed AtMostOnce ContiguousViewIsBook
SYMMETRY Symmetry
