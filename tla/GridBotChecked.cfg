SPECIFICATION FairSpec
CONSTANTS
    h1 = h1
    h2 = h2
    job = job
    Handlers = {h1}
    Checkers = {job}
    Ops = {"start", "stop", "delete"}
    Grids = 2
    StartPrices = {2, 3}
    MaxRequests = 2
    MaxSettled = 2
    MaxFaults = 1
\* The user may send no request and the market may fill no order any more.
CHECK_DEADLOCK FALSE
INVARIANTS
    Inv
    StopCancelsGrid
    FillsCountedOnce
PROPERTY FillsNoticed
