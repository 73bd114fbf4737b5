SPECIFICATION FairSpec
CONSTANTS
    b1 = b1
    b2 = b2
    h1 = h1
    h2 = h2
    job = job
    None = None
    Bots = {b1, b2}
    Handlers = {h1, h2}
    Checkers = {job}
    Interval = 1
    MaxStarts = 2
    MaxStops = 1
    MaxTime = 3
    MaxFaults = 1
\* The clock stops at its bound and no request need come.
CHECK_DEADLOCK FALSE
INVARIANTS
    TypeOK
    InvestedIsSpent
    BuysPaced
PROPERTY DueIsServed
