SPECIFICATION Spec
CONSTANTS
    btc = btc
    eth = eth
    timer = timer
    nats = nats
    Checkers = {timer, nats}
    Ids = {1}
    Symbols = {btc}
    Requests <- OneStop
    Prices = {7, 10}
    LostReplies = FALSE
    MaxFaults = 0
    MaxMoves = 1
\* Nothing is left to do once every order is settled and prices rest.
CHECK_DEADLOCK FALSE
INVARIANT ExecutedOnce
