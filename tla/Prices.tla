------------------------------- MODULE Prices -------------------------------
(***************************************************************************)
(* PriceService and the cache of prices that the services share (Redis):   *)
(* the prices job of market-data, which writes assets.current_price and    *)
(* publishes what trading checks its smart orders with, and the readers of *)
(* live prices, among them the hub's broadcasts and trading's bots.        *)
(*                                                                         *)
(* The module is about one coin, and about how old its prices are.  A      *)
(* price is the number of ticks since its exchange quoted it; time passes  *)
(* in ticks, and not past a call that has timed out, a job that is due or  *)
(* a step that waits for nothing.                                          *)
(***************************************************************************)
EXTENDS Integers, FiniteSets

CONSTANTS
    Sources,    \* exchanges with a price of the coin
    Job,        \* the prices job
    Readers,    \* callers of GetLivePrices
    TTL,        \* priceTTL
    Interval,   \* of the prices job
    Timeout,    \* ticks an exchange's call takes at most, with its retries
    Watched,    \* the exchange AssetIsRecent is about
    MaxAge,     \* ages are told apart up to here
    MaxCalm     \* and ticks without a missing answer up to here

Adapters == {"binance", "okx", "bybit", "gate", "kraken", "kucoin"}

ASSUME SourcesAssumption ==
    Sources \subseteq Adapters /\ Watched \in Sources /\ Job \notin Readers
ASSUME TimesAssumption ==
    /\ TTL \in Nat \ {0} /\ Interval \in Nat \ {0} /\ Timeout \in Nat
    /\ MaxAge \in Nat /\ MaxCalm \in Nat

Callers == Readers \cup {Job}
NoPrice == -1
Ages    == 0..MaxAge
Prices  == Ages \cup {NoPrice}
Calls   == Callers \X Sources

VARIABLES
    up,        \* whether the cache is there at all
    entry,     \* what it has; no price is an empty map, left 0 no entry
    at,        \* what each caller is fetching prices for
    elapsed,   \* ticks its calls have taken
    stage,     \* its call to each exchange
    price,     \* what that has brought
    asset,     \* assets.current_price
    due,       \* a tick of the job's ticker is waiting
    next,      \* ticks until the next one
    calm       \* ticks since Watched last brought no price

cache == <<up, entry>>
local == <<at, elapsed, stage, price>>
timer == <<due, next>>
vars  == <<cache, local, asset, timer, calm>>

NoEntry == [price |-> NoPrice, left |-> 0]

TypeOK ==
    /\ up \in BOOLEAN
    /\ entry \in [Sources -> [price : Prices, left : 0..TTL]]
    /\ \A e \in Sources : entry[e].left = 0 => entry[e] = NoEntry
    /\ at \in [Callers -> {"idle", "update", "live"}]
    /\ \A r \in Readers : at[r] # "update"
    /\ elapsed \in [Callers -> 0..Timeout]
    /\ stage \in [Calls -> {"none", "asked", "held", "done"}]
    /\ price \in [Calls -> Prices]
    /\ \A c \in Calls : /\ stage[c] = "none" <=> at[c[1]] = "idle"
                        /\ stage[c] \in {"none", "asked"} => price[c] = NoPrice
    /\ asset \in Prices
    /\ due \in BOOLEAN /\ next \in 1..Interval
    /\ calm \in 0..MaxCalm

Init ==
    /\ up \in BOOLEAN
    /\ entry = [e \in Sources |-> NoEntry]
    /\ at = [f \in Callers |-> "idle"]
    /\ elapsed = [f \in Callers |-> 0]
    /\ stage = [c \in Calls |-> "none"]
    /\ price = [c \in Calls |-> NoPrice]
    /\ asset = NoPrice
    /\ due = FALSE
    /\ next = Interval
    /\ calm = 0

-----------------------------------------------------------------------------
(***************************************************************************)
(* GetPrices of the adapters: hit is the set of requests that fail.  A     *)
(* failure is an empty map in the end, whether or not it is an error.      *)
(***************************************************************************)
BinancePrices(hit) == IF hit = {} THEN 0 ELSE NoPrice
OkxPrices(hit)     == IF hit = {} THEN 0 ELSE NoPrice
GatePrices(hit)    == IF hit = {} THEN 0 ELSE NoPrice
KucoinPrices(hit)  == IF hit = {} THEN 0 ELSE NoPrice
KrakenPrices       == NoPrice

\* The price of the perpetual replaces that of the coin, or stands in for it.
BybitPrices(hit) == IF hit # {"spot", "linear"} THEN 0 ELSE NoPrice

Requests(e) == IF e = "bybit" THEN {"spot", "linear"} ELSE {"tickers"}

GetPrices(e, hit) ==
    CASE e = "binance" -> BinancePrices(hit)
      [] e = "okx"     -> OkxPrices(hit)
      [] e = "bybit"   -> BybitPrices(hit)
      [] e = "gate"    -> GatePrices(hit)
      [] e = "kucoin"  -> KucoinPrices(hit)
      [] e = "kraken"  -> KrakenPrices

-----------------------------------------------------------------------------
(***************************************************************************)
(* fetchAllPrices: first what is cached, then a goroutine for each of the  *)
(* others.  A cache that is not there has nothing and keeps nothing.       *)
(***************************************************************************)
Cached(e) == entry[e].left > 0

FetchAllPrices(f, why) ==
    /\ at' = [at EXCEPT ![f] = why]
    /\ elapsed' = [elapsed EXCEPT ![f] = 0]
    /\ stage' = [c \in Calls |->
            IF c[1] # f THEN stage[c] ELSE IF Cached(c[2]) THEN "done" ELSE "asked"]
    /\ price' = [c \in Calls |->
            IF c[1] # f THEN price[c] ELSE IF Cached(c[2]) THEN entry[c[2]].price ELSE NoPrice]

\* A goroutine has its answer.
Answer(f, e, hit) ==
    /\ stage[<<f, e>>] = "asked" /\ hit \subseteq Requests(e)
    /\ stage' = [stage EXCEPT ![<<f, e>>] = "held"]
    /\ price' = [price EXCEPT ![<<f, e>>] = GetPrices(e, hit)]
    /\ calm' = IF e = Watched /\ GetPrices(e, hit) = NoPrice THEN 0 ELSE calm
    /\ UNCHANGED <<cache, at, elapsed, asset, timer>>

\* A failed call is cached as an empty map, over a price another has stored.
Store(f, e) ==
    /\ stage[<<f, e>>] = "held"
    /\ stage' = [stage EXCEPT ![<<f, e>>] = "done"]
    /\ entry' = IF up THEN [entry EXCEPT ![e] = [price |-> price[<<f, e>>], left |-> TTL]] ELSE entry
    /\ UNCHANGED <<up, at, elapsed, price, asset, timer, calm>>

Fetched(f) == at[f] # "idle" /\ \A e \in Sources : stage[<<f, e>>] = "done"

Have(f, e) == e \in Sources /\ price[<<f, e>>] # NoPrice

\* Faulty variant: without Binance there is no price.
ResolveBinance(f) == IF Have(f, "binance") THEN price[<<f, "binance">>] ELSE NoPrice

\* resolvePrice.
Resolve(f) ==
    CASE Have(f, "binance") -> price[<<f, "binance">>]
      [] ~Have(f, "binance") /\ Have(f, "okx") -> price[<<f, "okx">>]
      [] ~Have(f, "binance") /\ ~Have(f, "okx") /\ Have(f, "bybit") -> price[<<f, "bybit">>]
      [] OTHER -> NoPrice

-----------------------------------------------------------------------------
(***************************************************************************)
(* The job, the readers, and time.                                         *)
(***************************************************************************)
StartJob ==
    /\ due /\ at[Job] = "idle"
    /\ due' = FALSE
    /\ FetchAllPrices(Job, "update")
    /\ UNCHANGED <<cache, asset, next, calm>>

\* UpdatePrices: without a price the column stays as it is, and the job goes on
\* to GetLivePrices.
UpdatePrices ==
    /\ Fetched(Job) /\ at[Job] = "update"
    /\ asset' = IF Resolve(Job) # NoPrice THEN Resolve(Job) ELSE asset
    /\ FetchAllPrices(Job, "live")
    /\ UNCHANGED <<cache, timer, calm>>

StartReader(r) ==
    /\ at[r] = "idle"
    /\ FetchAllPrices(r, "live")
    /\ UNCHANGED <<cache, asset, timer, calm>>

\* What GetLivePrices(nil) returns, the price of whichever exchange comes last,
\* is published by the job and shown by a reader.
Live(f) == {price[<<f, e>>] : e \in {e \in Sources : Have(f, e)}}

\* Faulty variant: what is handed out goes back to the cache for another TTL.
GetLivePricesRenewing(f) ==
    /\ Fetched(f) /\ at[f] = "live"
    /\ at' = [at EXCEPT ![f] = "idle"]
    /\ elapsed' = [elapsed EXCEPT ![f] = 0]
    /\ stage' = [c \in Calls |-> IF c[1] = f THEN "none" ELSE stage[c]]
    /\ price' = [c \in Calls |-> IF c[1] = f THEN NoPrice ELSE price[c]]
    /\ entry' = IF up THEN [e \in Sources |-> [price |-> price[<<f, e>>], left |-> TTL]] ELSE entry
    /\ UNCHANGED <<up, asset, timer, calm>>

GetLivePrices(f) ==
    /\ Fetched(f) /\ at[f] = "live"
    /\ at' = [at EXCEPT ![f] = "idle"]
    /\ elapsed' = [elapsed EXCEPT ![f] = 0]
    /\ stage' = [c \in Calls |-> IF c[1] = f THEN "none" ELSE stage[c]]
    /\ price' = [c \in Calls |-> IF c[1] = f THEN NoPrice ELSE price[c]]
    /\ UNCHANGED <<cache, asset, timer, calm>>

Older(p) == IF p = NoPrice \/ p = MaxAge THEN p ELSE p + 1

Waits(f) ==
    \/ at[f] = "idle" /\ ~(f = Job /\ due)
    \/ \E e \in Sources : stage[<<f, e>>] = "asked"

\* Calls that have timed out are not waited for.
Tick ==
    /\ \A f \in Callers : Waits(f) /\ (at[f] # "idle" => elapsed[f] < Timeout)
    /\ \A c \in Calls : stage[c] # "held"
    /\ entry' = [e \in Sources |->
            IF entry[e].left <= 1 THEN NoEntry
            ELSE [price |-> Older(entry[e].price), left |-> entry[e].left - 1]]
    /\ elapsed' = [f \in Callers |-> IF at[f] = "idle" THEN 0 ELSE elapsed[f] + 1]
    /\ price' = [c \in Calls |-> Older(price[c])]
    /\ asset' = Older(asset)
    /\ due' = (due \/ next = 1)
    /\ next' = IF next = 1 THEN Interval ELSE next - 1
    /\ calm' = IF calm = MaxCalm THEN MaxCalm ELSE calm + 1
    /\ UNCHANGED <<up, at, stage>>

\* market-data starts anew; the cache stays.
Restart ==
    /\ at' = [at EXCEPT ![Job] = "idle"]
    /\ elapsed' = [elapsed EXCEPT ![Job] = 0]
    /\ stage' = [c \in Calls |-> IF c[1] = Job THEN "none" ELSE stage[c]]
    /\ price' = [c \in Calls |-> IF c[1] = Job THEN NoPrice ELSE price[c]]
    /\ due' = FALSE /\ next' = Interval
    /\ calm' = 0
    /\ UNCHANGED <<cache, asset>>

Next ==
    \/ StartJob \/ UpdatePrices
    \/ \E r \in Readers : StartReader(r)
    \/ \E f \in Callers, e \in Sources :
        Store(f, e) \/ \E hit \in SUBSET Requests(e) : Answer(f, e, hit)
    \/ \E f \in Callers : GetLivePrices(f)
    \/ Tick \/ Restart

Spec == Init /\ [][Next]_vars

-----------------------------------------------------------------------------
(***************************************************************************)
(* Properties.                                                             *)
(***************************************************************************)

\* No price that is handed out is older than the cache keeps one and a call of
\* another exchange, which had to be waited for, may take.
HandedIsRecent ==
    \A f \in Callers : Fetched(f) /\ at[f] = "live" => \A p \in Live(f) : p <= TTL + Timeout

\* Typed, and no reader of live prices is shown an old one.
Inv == TypeOK /\ HandedIsRecent

\* The price was this old when it was handed out, then the job went on to
\* GetLivePrices, waited for its ticker and fetched again.
Recent == (TTL + Timeout) + Timeout + Interval + Timeout

\* As long as one of the three exchanges that resolvePrice knows has answered
\* for a while, the price in assets is never older than Recent, whatever the
\* others do, and although a failed call is cached as an empty answer.
AssetIsRecent ==
    Watched \in {"binance", "okx", "bybit"} /\ calm = MaxCalm => asset # NoPrice /\ asset <= Recent
=============================================================================
