\* A lookup while a session registers.
SPECIFICATION FairSpec
CONSTANTS
    s1 = s1
    s2 = s2
    g1 = g1
    e1 = e1
    a1 = a1
    a2 = a2
    none = none
    Sessions <- OneSession
    Getters <- OneGetter
    Addresses <- TheAddresses
    Eth <- SameEth
    Sol <- OtherSol
    Wanted <- WantsEth
    None <- none
PROPERTY GetReturns
CHECK_DEADLOCK FALSE
