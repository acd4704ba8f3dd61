\* A change between Snapshot and Subscribe never reaches the stream.
SPECIFICATION Spec
CONSTANTS
    o1 = o1
    o2 = o2
    s1 = s1
    none = none
    OrderIDs <- OneID
    Streams <- OneStream
    None <- none
    BufferSize = 2
    MaxSequence = 2
    FreshIDs = TRUE
INVARIANT NothingMissed
