\* Two changes and one stream: frames out of sequence.
SPECIFICATION Spec
CONSTANTS
    o1 = o1
    o2 = o2
    s1 = s1
    none = none
    OrderIDs <- TwoIDs
    Streams <- OneStream
    None <- none
    BufferSize = 2
    MaxSequence = 2
    FreshIDs = TRUE
INVARIANT StreamInSequenceOrder
