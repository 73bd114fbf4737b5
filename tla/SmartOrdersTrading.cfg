SPECIFICATION Spec
CONSTANTS
    btc = btc
    eth = eth
    timer = timer
    nats = nats
    Checkers = {timer, nats}
    Ids = {1}
    Symbols = {btc}
    Requests <- OneStop
    Prices = {7}
    LostReplies = TRUE
    MaxFaults = 2
    MaxMoves = 2
\* Nothing is left to do once every order is settled and prices rest.
CHECK_DEADLOCK FALSE
SYMMETRY CheckerSymmetry
INVARIANTS
    AtMostOncePerChecker
    
    EveryExecutionHasRow
PROPERTY CancelIsFinal
