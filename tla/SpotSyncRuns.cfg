SPECIFICATION FairSpec
CONSTANTS
    btc = btc
    eth = eth
    live = live
    full = full
    Coins = {btc}
    Used = {"okx", "bybit", "binance", "gate", "kraken", "kucoin"}
    FullSyncs = {full}
    LiveSyncs = {live}
    FaultKinds = {"error", "limit", "write", "move", "crash"}
    MaxFaults = 1
    MaxFills = 2
INVARIANT TypeOK

    
    
    
