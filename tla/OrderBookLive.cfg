\* Scheduling: one stream and three changes, an order ID used again at will.
SPECIFICATION FairSpec
CONSTANTS
    o1 = o1
    o2 = o2
    s1 = s1
    none = none
    OrderIDs <- OneID
    Streams <- OneStream
    None <- none
    BufferSize = 1
    MaxSequence = 3
    FreshIDs = FALSE
INVARIANT CountCoversOrders
PROPERTIES ImplementsFeed BroadcastEnds FailedStreamLeaves
