SPECIFICATION Spec
CONSTANTS
    job = job
    reader = reader
    Sources = {"binance", "bybit"}
    Job = job
    Readers = {reader}
    TTL = 2
    Interval = 2
    Timeout = 2
    Watched = "bybit"
    MaxAge = 11
    MaxCalm = 10
INVARIANTS
    Inv
    AssetIsRecent
