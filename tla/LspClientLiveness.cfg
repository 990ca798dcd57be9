CONSTANTS
    Requests = {"call"}
    Cancellable = {"call"}
    Asks = {"configuration"}
    InCap = 2
    OutCap = 1
    None = None
SPECIFICATION FairSpec
PROPERTIES DeathUnblocks EveryCallReturns
CHECK_DEADLOCK FALSE
