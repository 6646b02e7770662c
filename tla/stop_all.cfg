SPECIFICATION FairSpec
CONSTANTS
    Clients = {a, b}
    MaxFailures = 3
INVARIANTS LockMeansServing FarewellAfterWithdrawal StageInv
PROPERTIES ImplementsLife ImplementsFairLife ReasonEndsProcess
CHECK_DEADLOCK FALSE
