\* Two sessions with one Ethereum address, and a lookup of it.
SPECIFICATION FairSpec
CONSTANTS
    s1 = s1
    s2 = s2
    g1 = g1
    e1 = e1
    a1 = a1
    a2 = a2
    none = none
    Sessions <- TwoSessions
    Getters <- OneGetter
    Addresses <- TheAddresses
    Eth <- SameEth
    Sol <- OtherSol
    Wanted <- WantsEth
    None <- none
INVARIANTS TypeOK OneClientPerAddress RunningIsRegistered RemovedIsForgotten RegisteredIsOpen
PROPERTIES GetIsAccurate ClosedIsRemoved
CHECK_DEADLOCK FALSE
