SPECIFICATION FairSpec
CONSTANTS
    btc = btc
    eth = eth
    timer = timer
    nats = nats
    Checkers = {timer}
    Ids = {1, 2}
    Symbols = {btc, eth}
    Requests <- AllRequests
    Prices = {7, 10}
    LostReplies = FALSE
    MaxFaults = 1
    MaxMoves = 2
\* Nothing is left to do once every order is settled and prices rest.
CHECK_DEADLOCK FALSE
INVARIANT TypeOK
PROPERTIES
    KeepsPromise
    PeakIsExtreme
    CrossedIsServed
