\* Two clients, a channel of up to two versions after the first.
SPECIFICATION FairSpec
CONSTANTS
    alice = alice
    bob = bob
    None = None
    Clients <- AliceAndBob
    Opener = alice
    MaxVersion = 2
    MaxSent = 1
    CloseAgain = FALSE
INVARIANTS TypeOK CreatedMeansBothHold CooperativeCloseIsFinal ClosedMeansPaid
PROPERTIES ImplementsAgreement OpenIsAnswered BothAreTold
CHECK_DEADLOCK FALSE
