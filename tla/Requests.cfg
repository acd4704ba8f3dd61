\* One request of every kind, two of them at a time.
SPECIFICATION FairSpec
CONSTANTS
    h1 = h1
    h2 = h2
    key = key
    key2 = key2
    stranger = stranger
    alice = alice
    bob = bob
    hub = hub
    chID = chID
    Bad = Bad
    Null = Null
    ZeroKey = ZeroKey
    NoMint = NoMint
    None = None
    EthFile <- TwoEthChains
    SolFile <- TwoSolChains
    Calls = {c1, c2}
    Frames <- AllFrames
    Channels <- OneChannel
    Hubs <- OneHub
    Quotes <- TwoQuotes
    Books <- OneBook
INVARIANTS TypeOK MessagesSurvive ListedIsAccepted AnswerIsTheHubs SignedBeforeSent
PROPERTIES EveryRequestIsAnswered
CHECK_DEADLOCK FALSE
