SPECIFICATION FairSpec
CONSTANTS
    btc = btc
    eth = eth
    long = long
    short = short
    live = live
    other = other
    None = None
    Symbols = {btc}
    Long = long
    Short = short
    CategoryOf <- Settles
    LeverKnown = TRUE
    PageSize = 1
    MaxPages = 1
    Used = {"kraken"}
    Traded <- LongKeys
    LiveSyncs = {live}
    OtherSyncs = {other}
    Commented <- NoTrades
    Edited <- NoTrades
    Losing <- NoTrades
    SameSecond = FALSE
    FaultKinds = {"limit", "refused"}
    MaxFaults = 1
    MaxOpens = 2
PROPERTIES
    
    HistoryFollows
