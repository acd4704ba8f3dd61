\* Two orders, accepted twice in all, one answer on its way to each browser.
SPECIFICATION FairSpec
CONSTANTS
    eth = eth
    sol = sol
    None = None
    Assets <- EthAndSol
    Orders <- BidAndAsk
    Initial <- TwoEach
    MaxClicks = 2
    MaxAnswers = 1
INVARIANTS TypeOK ShownWasAgreed
PROPERTIES ChangesAreSwaps AcceptedDisappears
CHECK_DEADLOCK FALSE
