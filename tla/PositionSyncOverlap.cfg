SPECIFICATION Spec
CONSTANTS
    btc = btc
    eth = eth
    long = long
    short = short
    live = live
    other = other
    None = None
    Symbols = {btc}
    Long = long
    Short = short
    CategoryOf <- Settles
    LeverKnown = TRUE
    PageSize = 1
    MaxPages = 2
    Used = {"okx", "bybit", "binance"}
    Traded <- LongKeys
    LiveSyncs = {live}
    OtherSyncs = {other}
    Commented <- Firsts
    Edited <- Seconds
    Losing <- Firsts
    SameSecond = FALSE
    FaultKinds = {"error", "crash"}
    MaxFaults = 1
    MaxOpens = 2
INVARIANT TypeOK
PROPERTIES
    
    HistoryCommentsStay
    KeepsComments
