---------------------------- MODULE PricesProofs ----------------------------
(***************************************************************************)
(* Proofs about Prices, for any exchanges, callers and times.              *)
(***************************************************************************)
EXTENDS Prices, TLAPS

(***************************************************************************)
(* How old a price is where it is: it is new in the hands of the goroutine *)
(* that fetched it, has an entry of the cache for TTL ticks, and waits for *)
(* the calls to the other exchanges.                                       *)
(***************************************************************************)
AgesInv ==
    /\ \A c \in Calls : stage[c] = "held" => price[c] \in {0, NoPrice}
    /\ \A e \in Sources : entry[e].price + entry[e].left <= TTL
    /\ \A c \in Calls : price[c] <= TTL + elapsed[c[1]]

(***************************************************************************)
(* Where Watched has no price, it has not answered a while ago.            *)
(***************************************************************************)
MissingInv ==
    /\ \A c \in Calls : stage[c] = "held" /\ c[2] = Watched /\ price[c] = NoPrice => calm = 0
    /\ entry[Watched].left > 0 /\ entry[Watched].price = NoPrice =>
            calm + entry[Watched].left <= TTL
    /\ \A c \in Calls : stage[c] = "done" /\ c[2] = Watched /\ price[c] = NoPrice =>
            calm < TTL + elapsed[c[1]]

\* The column is that recent, or Watched was missing that recently.
Fresh(bound) == (asset # NoPrice /\ asset <= bound) \/ calm < bound

(***************************************************************************)
(* What has passed since the column was written, by what the job does.     *)
(***************************************************************************)
AssetInv ==
    /\ at[Job] = "live" => Fresh(TTL + Timeout + elapsed[Job])
    /\ at[Job] = "idle" /\ ~due => Fresh(TTL + Timeout + Timeout + Interval - next)
    /\ at[Job] = "idle" /\ due => Fresh(TTL + Timeout + Timeout + Interval)
    /\ at[Job] = "update" => Fresh(TTL + Timeout + Timeout + Interval + elapsed[Job])

\* The exchanges that resolvePrice knows.
Resolved == {"binance", "okx", "bybit"}

(***************************************************************************)
(* The inductive invariant: Facts by itself, and with it AssetInv.         *)
(***************************************************************************)
Facts == TypeOK /\ AgesInv /\ MissingInv
IInv  == Facts /\ (Watched \in Resolved => AssetInv)

-----------------------------------------------------------------------------
LEMMA Numbers ==
    /\ TTL \in Nat /\ TTL >= 1 /\ Interval \in Nat /\ Interval >= 1 /\ Timeout \in Nat
    /\ MaxAge \in Nat /\ MaxCalm \in Nat /\ NoPrice = -1
    /\ Prices \subseteq Int /\ NoPrice \in Prices /\ 0 \in Prices
    /\ \A p \in Prices : p = NoPrice \/ p >= 0
BY TimesAssumption DEF NoPrice, Prices, Ages

\* An adapter has a new price or none.
LEMMA Answers == ASSUME NEW e \in Sources, NEW hit PROVE GetPrices(e, hit) \in {0, NoPrice}
<1>1. e \in Adapters
  BY SourcesAssumption
<1>2. QED
  BY <1>1 DEF GetPrices, BinancePrices, OkxPrices, BybitPrices, GatePrices, KucoinPrices, KrakenPrices, Adapters

\* A tick makes a price one tick older, and leaves no price alone.
LEMMA Ageing ==
    ASSUME NEW p \in Prices
    PROVE  Older(p) \in Prices /\ Older(p) <= p + 1 /\ (Older(p) = NoPrice <=> p = NoPrice)
BY Numbers DEF Older, Prices, Ages

\* Typing of what a caller has for itself.
LocalOK ==
    /\ at \in [Callers -> {"idle", "update", "live"}]
    /\ \A r \in Readers : at[r] # "update"
    /\ elapsed \in [Callers -> 0..Timeout]
    /\ stage \in [Calls -> {"none", "asked", "held", "done"}]
    /\ price \in [Calls -> Prices]
    /\ \A c \in Calls : /\ stage[c] = "none" <=> at[c[1]] = "idle"
                        /\ stage[c] \in {"none", "asked"} => price[c] = NoPrice

LEMMA CallParts == \A c \in Calls : c[1] \in Callers /\ c[2] \in Sources /\ c = <<c[1], c[2]>>
BY DEF Calls

\* What is taken from the cache is recent, or Watched was missing recently.
LEMMA Fetching ==
    ASSUME Facts, NEW f \in Callers, NEW why \in {"update", "live"}, f \in Readers => why = "live",
           FetchAllPrices(f, why), UNCHANGED <<entry, calm>>
    PROVE  LocalOK' /\ AgesInv' /\ MissingInv'
<1> USE DEF Facts
<1>1. /\ at' \in [Callers -> {"idle", "update", "live"}]
      /\ elapsed' \in [Callers -> 0..Timeout]
      /\ at'[f] = why /\ elapsed'[f] = 0
      /\ \A g \in Callers : g # f => at'[g] = at[g] /\ elapsed'[g] = elapsed[g]
  BY Numbers DEF FetchAllPrices, TypeOK
<1>2. \A r \in Readers : at'[r] # "update"
  BY <1>1 DEF TypeOK, Callers
<1>3. ASSUME NEW c \in Calls, c[1] # f
      PROVE  stage'[c] = stage[c] /\ price'[c] = price[c]
  BY <1>3 DEF FetchAllPrices
<1>4. ASSUME NEW c \in Calls, c[1] = f
      PROVE  \/ /\ stage'[c] = "done" /\ price'[c] = entry[c[2]].price /\ entry[c[2]].left > 0
             \/ stage'[c] = "asked" /\ price'[c] = NoPrice
  BY <1>4 DEF FetchAllPrices, Cached
<1>5. ASSUME NEW e \in Sources
      PROVE  entry[e].price \in Prices /\ entry[e].left \in 0..TTL /\ entry[e].price + entry[e].left <= TTL
  BY DEF TypeOK, AgesInv
<1>6. stage' \in [Calls -> {"none", "asked", "held", "done"}] /\ price' \in [Calls -> Prices]
  <2>1. stage' = [c \in Calls |-> stage'[c]] /\ price' = [c \in Calls |-> price'[c]]
    BY DEF FetchAllPrices
  <2>2. \A c \in Calls : stage'[c] \in {"none", "asked", "held", "done"} /\ price'[c] \in Prices
    BY <1>3, <1>4, <1>5, CallParts, Numbers DEF TypeOK
  <2>3. QED
    BY <2>1, <2>2
<1>7. ASSUME NEW c \in Calls
      PROVE  /\ stage'[c] = "none" <=> at'[c[1]] = "idle"
             /\ stage'[c] \in {"none", "asked"} => price'[c] = NoPrice
             /\ stage'[c] = "held" => price'[c] \in {0, NoPrice}
             /\ price'[c] <= TTL + elapsed'[c[1]]
             /\ stage'[c] = "held" /\ c[2] = Watched /\ price'[c] = NoPrice => calm' = 0
             /\ stage'[c] = "done" /\ c[2] = Watched /\ price'[c] = NoPrice =>
                    calm' < TTL + elapsed'[c[1]]
  <2>1. CASE c[1] # f
    BY <1>1, <1>3, <2>1, CallParts DEF TypeOK, AgesInv, MissingInv
  <2>2. CASE c[1] = f /\ stage'[c] = "asked" /\ price'[c] = NoPrice
    BY <1>1, <2>2, Numbers
  <2>3. CASE /\ c[1] = f /\ stage'[c] = "done"
             /\ price'[c] = entry[c[2]].price /\ entry[c[2]].left > 0
    <3>1. c[2] \in Sources /\ calm \in Nat /\ calm' = calm
          /\ entry[c[2]].price \in Int /\ entry[c[2]].left \in Nat
          /\ entry[c[2]].price + entry[c[2]].left <= TTL
      BY CallParts, <1>5, Numbers DEF TypeOK
    <3>2. price'[c] <= TTL
      BY <2>3, <3>1, Numbers
    <3>3. c[2] = Watched /\ price'[c] = NoPrice => calm < TTL
      BY <2>3, <3>1, Numbers DEF MissingInv
    <3>4. QED
      BY <2>3, <3>1, <3>2, <3>3, <1>1, Numbers
  <2>4. QED
    BY <1>4, <2>1, <2>2, <2>3
<1>8. QED
  BY <1>1, <1>2, <1>6, <1>7 DEF LocalOK, AgesInv, MissingInv

\* A caller that is done, or gone, has no prices.
Forget(f) ==
    /\ at' = [at EXCEPT ![f] = "idle"]
    /\ elapsed' = [elapsed EXCEPT ![f] = 0]
    /\ stage' = [c \in Calls |-> IF c[1] = f THEN "none" ELSE stage[c]]
    /\ price' = [c \in Calls |-> IF c[1] = f THEN NoPrice ELSE price[c]]

LEMMA Forgetting ==
    ASSUME Facts, NEW f \in Callers, Forget(f), UNCHANGED entry, calm' \in {calm, 0}
    PROVE  LocalOK' /\ AgesInv' /\ MissingInv'
<1> USE DEF Facts
<1>1. /\ at' \in [Callers -> {"idle", "update", "live"}]
      /\ elapsed' \in [Callers -> 0..Timeout]
      /\ at'[f] = "idle" /\ elapsed'[f] = 0
      /\ \A g \in Callers : g # f => at'[g] = at[g] /\ elapsed'[g] = elapsed[g]
  BY Numbers DEF Forget, TypeOK
<1>2. \A r \in Readers : at'[r] # "update"
  BY <1>1 DEF TypeOK, Callers
<1>3. \A c \in Calls : /\ c[1] # f => stage'[c] = stage[c] /\ price'[c] = price[c]
                       /\ c[1] = f => stage'[c] = "none" /\ price'[c] = NoPrice
  BY DEF Forget
<1>4. stage' \in [Calls -> {"none", "asked", "held", "done"}] /\ price' \in [Calls -> Prices]
  BY Numbers DEF Forget, TypeOK
<1>5. calm' \in Nat /\ calm' <= calm /\ (calm = 0 => calm' = 0)
  BY Numbers DEF TypeOK
<1>6. ASSUME NEW c \in Calls
      PROVE  /\ stage'[c] = "none" <=> at'[c[1]] = "idle"
             /\ stage'[c] \in {"none", "asked"} => price'[c] = NoPrice
             /\ stage'[c] = "held" => price'[c] \in {0, NoPrice}
             /\ price'[c] <= TTL + elapsed'[c[1]]
             /\ stage'[c] = "held" /\ c[2] = Watched /\ price'[c] = NoPrice => calm' = 0
             /\ stage'[c] = "done" /\ c[2] = Watched /\ price'[c] = NoPrice =>
                    calm' < TTL + elapsed'[c[1]]
  <2>1. c[1] \in Callers /\ calm \in Nat /\ elapsed[c[1]] \in Nat
    BY CallParts, Numbers DEF TypeOK
  <2>2. CASE c[1] # f
    BY <1>1, <1>3, <1>5, <2>1, <2>2, Numbers DEF TypeOK, AgesInv, MissingInv
  <2>3. CASE c[1] = f
    BY <1>1, <1>3, <2>3, Numbers
  <2>4. QED
    BY <2>2, <2>3
<1>7. \A e \in Sources : entry'[e].price + entry'[e].left <= TTL
  BY DEF AgesInv
<1>8. entry'[Watched].left > 0 /\ entry'[Watched].price = NoPrice => calm' + entry'[Watched].left <= TTL
  <2>1. entry[Watched].left \in Nat /\ calm \in Nat
    BY SourcesAssumption, Numbers DEF TypeOK
  <2>2. QED
    BY <2>1, <1>5, Numbers DEF MissingInv
<1>9. QED
  BY <1>1, <1>2, <1>4, <1>6, <1>7, <1>8 DEF LocalOK, AgesInv, MissingInv

LEMMA StepAnswer ==
    ASSUME Facts, NEW f \in Callers, NEW e \in Sources, NEW hit, Answer(f, e, hit)
    PROVE  Facts'
<1> USE DEF Facts
<1> DEFINE p == GetPrices(e, hit)
<1>1. p \in {0, NoPrice} /\ <<f, e>> \in Calls /\ <<f, e>>[1] = f /\ <<f, e>>[2] = e
  BY Answers DEF Calls
<1> HIDE DEF p
<1>2. /\ stage[<<f, e>>] = "asked"
      /\ stage' = [stage EXCEPT ![<<f, e>>] = "held"]
      /\ price' = [price EXCEPT ![<<f, e>>] = p]
      /\ calm' = IF e = Watched /\ p = NoPrice THEN 0 ELSE calm
      /\ UNCHANGED <<cache, at, elapsed, asset, timer>>
  BY DEF Answer, p
<1>3. \A c \in Calls : c # <<f, e>> => stage'[c] = stage[c] /\ price'[c] = price[c]
  BY <1>2 DEF TypeOK
<1>4. stage'[<<f, e>>] = "held" /\ price'[<<f, e>>] = p
  BY <1>1, <1>2 DEF TypeOK
<1>5. calm \in 0..MaxCalm /\ calm' \in 0..MaxCalm /\ calm' <= calm
      /\ (e = Watched /\ p = NoPrice => calm' = 0)
  BY <1>2, Numbers DEF TypeOK
<1>6. TypeOK'
  <2>1. stage' \in [Calls -> {"none", "asked", "held", "done"}]
    BY <1>2 DEF TypeOK
  <2>2. price' \in [Calls -> Prices]
    BY <1>1, <1>2, Numbers DEF TypeOK
  <2>3. \A c \in Calls : /\ stage'[c] = "none" <=> at'[c[1]] = "idle"
                         /\ stage'[c] \in {"none", "asked"} => price'[c] = NoPrice
    BY <1>1, <1>2, <1>3, <1>4 DEF TypeOK
  <2>4. QED
    BY <1>2, <1>5, <2>1, <2>2, <2>3 DEF TypeOK, cache, timer
<1>7. AgesInv'
  <2>1. ASSUME NEW c \in Calls
        PROVE  /\ stage'[c] = "held" => price'[c] \in {0, NoPrice}
               /\ price'[c] <= TTL + elapsed'[c[1]]
    <3>1. elapsed'[c[1]] = elapsed[c[1]] /\ elapsed[c[1]] \in Nat
      BY <1>2, CallParts, Numbers DEF TypeOK
    <3>2. CASE c = <<f, e>>
      BY <1>1, <1>4, <3>1, <3>2, Numbers
    <3>3. CASE c # <<f, e>>
      BY <1>3, <3>1, <3>3 DEF AgesInv
    <3>4. QED
      BY <3>2, <3>3
  <2>2. QED
    BY <1>2, <2>1 DEF AgesInv, cache
<1>8. MissingInv'
  <2>1. ASSUME NEW c \in Calls
        PROVE  /\ stage'[c] = "held" /\ c[2] = Watched /\ price'[c] = NoPrice => calm' = 0
               /\ stage'[c] = "done" /\ c[2] = Watched /\ price'[c] = NoPrice =>
                      calm' < TTL + elapsed'[c[1]]
    <3>1. elapsed'[c[1]] = elapsed[c[1]] /\ elapsed[c[1]] \in Nat
      BY <1>2, CallParts, Numbers DEF TypeOK
    <3>2. CASE c = <<f, e>>
      BY <1>1, <1>4, <1>5, <3>1, <3>2, Numbers
    <3>3. CASE c # <<f, e>>
      <4>1. /\ stage[c] = "held" /\ c[2] = Watched /\ price[c] = NoPrice => calm = 0
            /\ stage[c] = "done" /\ c[2] = Watched /\ price[c] = NoPrice => calm < TTL + elapsed[c[1]]
        BY DEF MissingInv
      <4>2. QED
        BY <1>3, <1>5, <3>1, <3>3, <4>1, Numbers
    <3>4. QED
      BY <3>2, <3>3
  <2>2. entry'[Watched].left > 0 /\ entry'[Watched].price = NoPrice => calm' + entry'[Watched].left <= TTL
    <3>1. entry[Watched].left \in Nat /\ entry' = entry
      BY <1>2, SourcesAssumption, Numbers DEF TypeOK, cache
    <3>2. QED
      BY <1>5, <3>1, Numbers DEF MissingInv
  <2>3. QED
    BY <2>1, <2>2 DEF MissingInv
<1>9. QED
  BY <1>6, <1>7, <1>8

LEMMA StepStore ==
    ASSUME Facts, NEW f \in Callers, NEW e \in Sources, Store(f, e)
    PROVE  Facts'
<1> USE DEF Facts
<1>1. <<f, e>> \in Calls /\ <<f, e>>[1] = f /\ <<f, e>>[2] = e
  BY DEF Calls
<1>2. /\ stage[<<f, e>>] = "held"
      /\ stage' = [stage EXCEPT ![<<f, e>>] = "done"]
      /\ entry' = IF up THEN [entry EXCEPT ![e] = [price |-> price[<<f, e>>], left |-> TTL]] ELSE entry
      /\ UNCHANGED <<up, at, elapsed, price, asset, timer, calm>>
  BY DEF Store
<1>3. /\ price[<<f, e>>] \in {0, NoPrice} /\ price[<<f, e>>] \in Prices
      /\ e = Watched /\ price[<<f, e>>] = NoPrice => calm = 0
  BY <1>1, <1>2 DEF TypeOK, AgesInv, MissingInv
<1>4. /\ stage'[<<f, e>>] = "done"
      /\ \A c \in Calls : c # <<f, e>> => stage'[c] = stage[c]
  BY <1>1, <1>2 DEF TypeOK
<1>5. entry'[e] = entry[e] \/ (entry'[e].price = price[<<f, e>>] /\ entry'[e].left = TTL)
  BY <1>2 DEF TypeOK
<1>6. \A x \in Sources : x # e => entry'[x] = entry[x]
  BY <1>2 DEF TypeOK
<1>7. entry' \in [Sources -> [price : Prices, left : 0..TTL]]
  BY <1>2, <1>3, Numbers DEF TypeOK
<1>8. TypeOK'
  <2>1. stage' \in [Calls -> {"none", "asked", "held", "done"}]
    BY <1>2 DEF TypeOK
  <2>2. \A c \in Calls : /\ stage'[c] = "none" <=> at'[c[1]] = "idle"
                         /\ stage'[c] \in {"none", "asked"} => price'[c] = NoPrice
    BY <1>1, <1>2, <1>4 DEF TypeOK
  <2>3. \A x \in Sources : entry'[x].left = 0 => entry'[x] = NoEntry
    BY <1>5, <1>6, Numbers DEF TypeOK
  <2>4. QED
    BY <1>2, <1>7, <2>1, <2>2, <2>3 DEF TypeOK, timer
<1>9. AgesInv'
  <2>1. \A x \in Sources : entry'[x].price + entry'[x].left <= TTL
    BY <1>3, <1>5, <1>6, Numbers DEF AgesInv
  <2>2. \A c \in Calls : stage'[c] = "held" => price'[c] \in {0, NoPrice}
    BY <1>2, <1>4 DEF AgesInv
  <2>3. QED
    BY <1>2, <2>1, <2>2 DEF AgesInv
<1>10. MissingInv'
  <2>1. ASSUME NEW c \in Calls
        PROVE  /\ stage'[c] = "held" /\ c[2] = Watched /\ price'[c] = NoPrice => calm' = 0
               /\ stage'[c] = "done" /\ c[2] = Watched /\ price'[c] = NoPrice =>
                      calm' < TTL + elapsed'[c[1]]
    <3>1. elapsed'[c[1]] = elapsed[c[1]] /\ elapsed[c[1]] \in Nat
      BY <1>2, CallParts, Numbers DEF TypeOK
    <3>2. CASE c = <<f, e>>
      BY <1>1, <1>2, <1>3, <1>4, <3>1, <3>2, Numbers
    <3>3. CASE c # <<f, e>>
      BY <1>2, <1>4, <3>3 DEF MissingInv
    <3>4. QED
      BY <3>2, <3>3
  <2>2. entry'[Watched].left > 0 /\ entry'[Watched].price = NoPrice => calm' + entry'[Watched].left <= TTL
    <3>1. CASE e = Watched /\ entry'[e] # entry[e]
      BY <1>2, <1>3, <1>5, <3>1, Numbers
    <3>2. CASE entry'[Watched] = entry[Watched]
      BY <1>2, <3>2 DEF MissingInv
    <3>3. QED
      BY <1>6, <3>1, <3>2, SourcesAssumption
  <2>3. QED
    BY <2>1, <2>2 DEF MissingInv
<1>11. QED
  BY <1>8, <1>9, <1>10

\* Time passes everywhere at once.
LEMMA StepTick == ASSUME Facts, Tick PROVE Facts'
<1> USE DEF Facts
<1>1. /\ \A f \in Callers : at[f] # "idle" => elapsed[f] < Timeout
      /\ \A c \in Calls : stage[c] # "held"
      /\ UNCHANGED <<up, at, stage>>
      /\ calm' = IF calm = MaxCalm THEN MaxCalm ELSE calm + 1
  BY DEF Tick
<1>2. ASSUME NEW e \in Sources
      PROVE  \/ entry'[e] = NoEntry
             \/ /\ entry'[e] = [price |-> Older(entry[e].price), left |-> entry[e].left - 1]
                /\ entry[e].left > 1
  BY Numbers DEF Tick, TypeOK
<1>3. ASSUME NEW f \in Callers
      PROVE  /\ elapsed'[f] = IF at[f] = "idle" THEN 0 ELSE elapsed[f] + 1
             /\ elapsed[f] \in 0..Timeout /\ elapsed'[f] \in 0..Timeout
  BY <1>1, Numbers DEF Tick, TypeOK
<1>4. ASSUME NEW c \in Calls
      PROVE  /\ price'[c] = Older(price[c]) /\ price[c] \in Prices /\ price'[c] \in Prices
             /\ price'[c] <= price[c] + 1 /\ (price'[c] = NoPrice <=> price[c] = NoPrice)
  BY Ageing DEF Tick, TypeOK
<1>5. calm \in Nat /\ calm' \in 0..MaxCalm /\ calm' <= calm + 1
  BY <1>1, Numbers DEF TypeOK
<1>6. ASSUME NEW e \in Sources
      PROVE  /\ entry'[e].price \in Prices /\ entry'[e].left \in 0..TTL
             /\ entry'[e] \in [price : Prices, left : 0..TTL]
             /\ entry'[e].left = 0 => entry'[e] = NoEntry
             /\ entry'[e].price + entry'[e].left <= TTL
             /\ entry'[e].left > 0 => entry'[e].left = entry[e].left - 1 /\ entry[e].left \in Nat
             /\ entry'[e].left > 0 => (entry'[e].price = NoPrice <=> entry[e].price = NoPrice)
  <2>1. entry[e].price \in Prices /\ entry[e].left \in 0..TTL /\ entry[e].price + entry[e].left <= TTL
    BY DEF TypeOK, AgesInv
  <2>2. Older(entry[e].price) \in Prices /\ Older(entry[e].price) <= entry[e].price + 1
        /\ (Older(entry[e].price) = NoPrice <=> entry[e].price = NoPrice)
    BY <2>1, Ageing
  <2>3. CASE entry'[e] = NoEntry
    BY <2>3, Numbers DEF NoEntry
  <2>4. CASE /\ entry'[e] = [price |-> Older(entry[e].price), left |-> entry[e].left - 1]
             /\ entry[e].left > 1
    <3>1. entry'[e].price = Older(entry[e].price) /\ entry'[e].left = entry[e].left - 1
      BY <2>4
    <3>2. /\ TTL \in Nat /\ entry[e].left \in 2..TTL /\ entry[e].price \in Int /\ entry'[e].price \in Int
          /\ entry'[e].left \in 1..TTL
      <4>1. TTL \in Nat /\ entry[e].left \in 2..TTL
        BY <2>1, <2>4, Numbers
      <4>2. entry'[e].left \in 1..TTL
        BY <3>1, <4>1
      <4>3. QED
        BY <2>1, <2>2, <3>1, <4>1, <4>2, Numbers
    <3>3. entry'[e].price + entry'[e].left <= TTL
      BY <2>1, <2>2, <3>1, <3>2, Numbers
    <3>4. entry'[e] \in [price : Prices, left : 0..TTL]
      BY <2>2, <2>4, <3>1, <3>2, Numbers
    <3>5. QED
      BY <2>2, <3>1, <3>2, <3>3, <3>4
  <2>5. QED
    BY <1>2, <2>3, <2>4
<1>7. TypeOK'
  <2>1. /\ entry' = [e \in Sources |-> entry'[e]] /\ elapsed' = [f \in Callers |-> elapsed'[f]]
        /\ price' = [c \in Calls |-> price'[c]]
    BY DEF Tick
  <2>2. entry' \in [Sources -> [price : Prices, left : 0..TTL]]
    BY <1>6, <2>1
  <2>3. elapsed' \in [Callers -> 0..Timeout] /\ price' \in [Calls -> Prices]
    BY <1>3, <1>4, <2>1
  <2>4. asset' \in Prices
    BY Ageing DEF Tick, TypeOK
  <2>5. due' \in BOOLEAN /\ next' \in 1..Interval
    BY Numbers DEF Tick, TypeOK
  <2>6. \A c \in Calls : /\ stage'[c] = "none" <=> at'[c[1]] = "idle"
                         /\ stage'[c] \in {"none", "asked"} => price'[c] = NoPrice
    BY <1>1, <1>4 DEF TypeOK
  <2>7. QED
    BY <1>1, <1>5, <1>6, <2>2, <2>3, <2>4, <2>5, <2>6 DEF TypeOK
<1>8. ASSUME NEW c \in Calls
      PROVE  /\ price'[c] <= TTL + elapsed'[c[1]]
             /\ stage'[c] = "done" /\ c[2] = Watched /\ price'[c] = NoPrice =>
                    calm' < TTL + elapsed'[c[1]]
  <2>1. c[1] \in Callers /\ price[c] <= TTL + elapsed[c[1]] /\ price[c] \in Int /\ price'[c] \in Int
    BY <1>4, CallParts, Numbers DEF AgesInv
  <2>2. CASE at[c[1]] = "idle"
    <3>1. stage[c] = "none" /\ price[c] = NoPrice
      BY <2>1, <2>2 DEF TypeOK
    <3>2. QED
      BY <1>1, <1>3, <1>4, <2>1, <3>1, Numbers
  <2>3. CASE at[c[1]] # "idle"
    <3>1. elapsed'[c[1]] = elapsed[c[1]] + 1 /\ elapsed[c[1]] \in Nat
      BY <1>3, <2>1, <2>3, Numbers
    <3>2. price'[c] <= TTL + elapsed'[c[1]]
      BY <1>4, <2>1, <3>1, Numbers
    <3>3. stage[c] = "done" /\ c[2] = Watched /\ price[c] = NoPrice => calm < TTL + elapsed[c[1]]
      BY DEF MissingInv
    <3>4. QED
      BY <1>1, <1>4, <1>5, <3>1, <3>2, <3>3, Numbers
  <2>4. QED
    BY <2>2, <2>3
<1>9. AgesInv'
  BY <1>1, <1>6, <1>8 DEF AgesInv
<1>10. entry'[Watched].left > 0 /\ entry'[Watched].price = NoPrice => calm' + entry'[Watched].left <= TTL
  <2>1. Watched \in Sources
    BY SourcesAssumption
  <2>2. SUFFICES ASSUME entry'[Watched].left > 0, entry'[Watched].price = NoPrice
                 PROVE  calm' + entry'[Watched].left <= TTL
    OBVIOUS
  <2>3. /\ entry'[Watched].left = entry[Watched].left - 1 /\ entry[Watched].left \in Nat
        /\ entry'[Watched].left \in Nat
        /\ entry[Watched].price = NoPrice
    BY <1>6, <2>1, <2>2, Numbers
  <2>4. calm + entry[Watched].left <= TTL
    BY <2>2, <2>3, Numbers DEF MissingInv
  <2>5. QED
    BY <1>5, <2>3, <2>4, Numbers
<1>11. MissingInv'
  BY <1>1, <1>8, <1>10 DEF MissingInv
<1>12. QED
  BY <1>7, <1>9, <1>11

\* What FetchAllPrices, GetLivePrices and a restart do.
LEMMA StepFacts == ASSUME Facts, [Next]_vars PROVE Facts'
<1> USE DEF Facts
<1>1. Job \in Callers /\ Job \notin Readers /\ Readers \subseteq Callers
  BY SourcesAssumption DEF Callers
<1>2. ASSUME UNCHANGED vars
      PROVE  Facts'
  BY <1>2 DEF vars, cache, local, timer, TypeOK, AgesInv, MissingInv
<1>3. ASSUME LocalOK', AgesInv', MissingInv', UNCHANGED cache, asset' \in Prices,
             due' \in BOOLEAN, next' \in 1..Interval, calm' \in 0..MaxCalm
      PROVE  Facts'
  BY <1>3 DEF LocalOK, TypeOK, cache
<1>4. CASE StartJob
  <2>1. LocalOK' /\ AgesInv' /\ MissingInv'
    BY <1>1, <1>4, Fetching DEF StartJob, cache
  <2>2. QED
    BY <1>3, <1>4, <2>1 DEF StartJob, TypeOK
<1>5. CASE UpdatePrices
  <2>1. LocalOK' /\ AgesInv' /\ MissingInv'
    BY <1>1, <1>5, Fetching DEF UpdatePrices, cache
  <2>2. Resolve(Job) \in Prices
    <3>1. \A e : Have(Job, e) => <<Job, e>> \in Calls
      BY <1>1 DEF Have, Calls
    <3>2. QED
      BY <3>1, Numbers DEF Resolve, TypeOK
  <2>3. asset' \in Prices
    BY <1>5, <2>2 DEF UpdatePrices, TypeOK
  <2>4. QED
    BY <1>3, <1>5, <2>1, <2>3 DEF UpdatePrices, TypeOK, timer
<1>6. ASSUME NEW r \in Readers, StartReader(r)
      PROVE  Facts'
  <2>1. LocalOK' /\ AgesInv' /\ MissingInv'
    BY <1>1, <1>6, Fetching DEF StartReader, cache
  <2>2. QED
    BY <1>3, <1>6, <2>1 DEF StartReader, TypeOK, timer
<1>7. ASSUME NEW f \in Callers, GetLivePrices(f)
      PROVE  Facts'
  <2>1. LocalOK' /\ AgesInv' /\ MissingInv'
    BY <1>7, Forgetting DEF GetLivePrices, Forget, cache
  <2>2. QED
    BY <1>3, <1>7, <2>1 DEF GetLivePrices, TypeOK, timer
<1>8. CASE Restart
  <2>1. LocalOK' /\ AgesInv' /\ MissingInv'
    BY <1>1, <1>8, Forgetting DEF Restart, Forget, cache
  <2>2. Interval \in 1..Interval /\ 0 \in 0..MaxCalm
    BY Numbers
  <2>3. QED
    BY <1>3, <1>8, <2>1, <2>2 DEF Restart, TypeOK
<1>9. QED
  BY <1>2, <1>4, <1>5, <1>6, <1>7, <1>8, StepAnswer, StepStore, StepTick DEF Next

LEMMA InitFacts == Init => Facts
<1> SUFFICES ASSUME Init
             PROVE  Facts
  OBVIOUS
<1>1. \A e \in Sources : entry[e] = NoEntry /\ entry[e].price = -1 /\ entry[e].left = 0
  BY DEF Init, NoEntry, NoPrice
<1>2. TypeOK
  <2>1. /\ 0 \in 0..TTL /\ 0 \in 0..Timeout /\ 0 \in 0..MaxCalm
        /\ Interval \in 1..Interval /\ NoPrice \in Prices
    BY Numbers
  <2>2. NoEntry \in [price : Prices, left : 0..TTL]
    BY <2>1 DEF NoEntry
  <2>3. entry \in [Sources -> [price : Prices, left : 0..TTL]]
    BY <2>2 DEF Init
  <2>4. \A c \in Calls : stage[c] = "none" /\ at[c[1]] = "idle" /\ price[c] = NoPrice
    BY CallParts DEF Init
  <2>5. \A r \in Readers : at[r] = "idle"
    BY DEF Init, Callers
  <2>6. QED
    BY <1>1, <2>1, <2>3, <2>4, <2>5 DEF Init, TypeOK
<1>3. AgesInv
  BY <1>1, CallParts, Numbers DEF Init, AgesInv
<1>4. MissingInv
  BY <1>1, SourcesAssumption DEF Init, MissingInv
<1>5. QED
  BY <1>2, <1>3, <1>4 DEF Facts

(***************************************************************************)
(* However many exchanges and callers there are, and however they overlap, *)
(* no price is handed out that is older than TTL and a call's timeout.     *)
(***************************************************************************)
THEOREM HandedPricesAreRecent == Spec => []Inv
<1>1. Facts => Inv
  <2> SUFFICES ASSUME Facts, NEW f \in Callers, NEW p \in Live(f)
               PROVE  p <= TTL + Timeout
    BY DEF Facts, Inv, HandedIsRecent
  <2>1. PICK e \in Sources : p = price[<<f, e>>]
    BY DEF Live
  <2>2. <<f, e>> \in Calls /\ <<f, e>>[1] = f
    BY DEF Calls
  <2>3. p \in Int /\ p <= TTL + elapsed[f] /\ elapsed[f] \in 0..Timeout
    BY <2>1, <2>2, Numbers DEF Facts, TypeOK, AgesInv
  <2>4. QED
    BY <2>3, Numbers
<1>2. QED
  BY <1>1, InitFacts, StepFacts, PTL DEF Spec

-----------------------------------------------------------------------------
(***************************************************************************)
(* The column.                                                             *)
(***************************************************************************)
LEMMA StepAsset ==
    ASSUME Facts, Facts', AssetInv, Watched \in Resolved, [Next]_vars
    PROVE  AssetInv'
<1> USE DEF Facts
<1>1. Job \in Callers /\ Job \notin Readers
  BY SourcesAssumption DEF Callers
<1>2. /\ asset \in Int /\ calm \in Nat /\ next \in 1..Interval /\ next \in Nat
      /\ elapsed[Job] \in 0..Timeout /\ elapsed[Job] \in Nat
      /\ asset' \in Int /\ calm' \in Nat /\ next' \in 1..Interval /\ next' \in Nat
      /\ elapsed'[Job] \in 0..Timeout /\ elapsed'[Job] \in Nat
      /\ at[Job] \in {"idle", "update", "live"} /\ due \in BOOLEAN /\ due' \in BOOLEAN
  BY <1>1, Numbers DEF TypeOK
\* Nothing of the job changes, and calm does not grow.
<1>3. ASSUME UNCHANGED <<asset, due, next>>, at'[Job] = at[Job], elapsed'[Job] = elapsed[Job], calm' <= calm
      PROVE  AssetInv'
  <2>1. \A b \in Int : Fresh(b) => Fresh(b)'
    BY <1>2, <1>3 DEF Fresh
  <2>2. QED
    BY <1>2, <1>3, <2>1, Numbers DEF AssetInv, Fresh
<1>4. CASE StartJob
  <2>1. at[Job] = "idle" /\ due /\ at'[Job] = "update" /\ elapsed'[Job] = 0 /\ UNCHANGED <<asset, calm>>
    BY <1>1, <1>4 DEF StartJob, FetchAllPrices, TypeOK
  <2>2. QED
    BY <1>2, <2>1, Numbers DEF AssetInv, Fresh
<1>5. CASE UpdatePrices
  <2>1. /\ at[Job] = "update" /\ at'[Job] = "live" /\ elapsed'[Job] = 0 /\ UNCHANGED calm
        /\ asset' = IF Resolve(Job) # NoPrice THEN Resolve(Job) ELSE asset
        /\ \A e \in Sources : stage[<<Job, e>>] = "done"
    BY <1>1, <1>5 DEF UpdatePrices, Fetched, FetchAllPrices, TypeOK
  <2>2. \A e \in Sources : <<Job, e>> \in Calls /\ <<Job, e>>[1] = Job /\ <<Job, e>>[2] = e
    BY <1>1 DEF Calls
  <2>3. CASE Resolve(Job) = NoPrice
    <3>1. Watched \in Sources /\ price[<<Job, Watched>>] = NoPrice
      BY <2>3, SourcesAssumption DEF Resolve, Resolved, Have
    <3>2. calm < TTL + elapsed[Job]
      BY <2>1, <2>2, <3>1 DEF MissingInv
    <3>3. QED
      BY <1>2, <2>1, <3>2, Numbers DEF AssetInv, Fresh
  <2>4. CASE Resolve(Job) # NoPrice
    <3>1. PICK e \in Sources : Resolve(Job) = price[<<Job, e>>]
      BY <2>4 DEF Resolve, Have
    <3>2. asset' <= TTL + elapsed[Job] /\ asset' # NoPrice
      BY <2>1, <2>2, <2>4, <3>1 DEF AgesInv
    <3>3. QED
      BY <1>2, <2>1, <3>2, Numbers DEF AssetInv, Fresh
  <2>5. QED
    BY <2>3, <2>4
<1>6. ASSUME NEW f \in Callers, GetLivePrices(f)
      PROVE  AssetInv'
  <2>1. CASE f # Job
    BY <1>1, <1>2, <1>3, <1>6, <2>1 DEF GetLivePrices, TypeOK, timer
  <2>2. CASE f = Job
    <3>1. at[Job] = "live" /\ at'[Job] = "idle" /\ UNCHANGED <<asset, calm>>
      BY <1>1, <1>6, <2>2 DEF GetLivePrices, TypeOK
    <3>2. QED
      BY <1>2, <3>1, Numbers DEF AssetInv, Fresh
  <2>3. QED
    BY <2>1, <2>2
<1>7. CASE Tick
  <2>1. /\ asset' = Older(asset) /\ at' = at
        /\ calm' = IF calm = MaxCalm THEN MaxCalm ELSE calm + 1
        /\ elapsed'[Job] = IF at[Job] = "idle" THEN 0 ELSE elapsed[Job] + 1
        /\ due' = (due \/ next = 1)
        /\ next' = IF next = 1 THEN Interval ELSE next - 1
    BY <1>1, <1>7 DEF Tick
  <2>2. at[Job] = "idle" => ~due
    <3>1. \A e \in Sources : stage[<<Job, e>>] = "asked" => at[Job] # "idle"
      <4>1. \A e \in Sources : <<Job, e>> \in Calls /\ <<Job, e>>[1] = Job
        BY <1>1 DEF Calls
      <4>2. QED
        BY <4>1 DEF TypeOK
    <3>2. QED
      BY <1>1, <1>7, <3>1 DEF Tick, Waits
  <2>3. asset' <= asset + 1 /\ (asset # NoPrice => asset' # NoPrice) /\ calm' <= calm + 1
    BY <1>2, <2>1, Ageing DEF TypeOK
  <2>4. \A b \in Int : Fresh(b) => (asset' # NoPrice /\ asset' <= b + 1) \/ calm' < b + 1
    BY <1>2, <2>3 DEF Fresh
  <2>5. CASE at[Job] = "live"
    BY <1>2, <2>1, <2>4, <2>5, Numbers DEF AssetInv, Fresh
  <2>6. CASE at[Job] = "update"
    BY <1>2, <2>1, <2>4, <2>6, Numbers DEF AssetInv, Fresh
  <2>7. CASE at[Job] = "idle" /\ next = 1
    <3>1. Fresh(TTL + Timeout + Timeout + Interval - 1) /\ due' /\ at'[Job] = "idle"
      BY <2>1, <2>2, <2>7 DEF AssetInv
    <3>2. (asset' # NoPrice /\ asset' <= TTL + Timeout + Timeout + Interval)
          \/ calm' < TTL + Timeout + Timeout + Interval
      BY <2>4, <3>1, Numbers
    <3>3. QED
      BY <3>1, <3>2 DEF AssetInv, Fresh
  <2>8. CASE at[Job] = "idle" /\ next # 1
    BY <1>2, <2>1, <2>2, <2>4, <2>8, Numbers DEF AssetInv, Fresh
  <2>9. QED
    BY <1>2, <2>5, <2>6, <2>7, <2>8
<1>8. CASE Restart
  <2>1. at'[Job] = "idle" /\ due' = FALSE /\ next' = Interval /\ calm' = 0
    BY <1>1, <1>8 DEF Restart, TypeOK
  <2>2. QED
    BY <1>2, <2>1, Numbers DEF AssetInv, Fresh
<1>9. ASSUME NEW r \in Readers, StartReader(r)
      PROVE  AssetInv'
  BY <1>1, <1>2, <1>3, <1>9 DEF StartReader, FetchAllPrices, TypeOK, timer
<1>10. ASSUME NEW f \in Callers, NEW e \in Sources, NEW hit, Answer(f, e, hit)
       PROVE  AssetInv'
  BY <1>2, <1>3, <1>10 DEF Answer, timer
<1>11. ASSUME NEW f \in Callers, NEW e \in Sources, Store(f, e)
       PROVE  AssetInv'
  BY <1>2, <1>3, <1>11 DEF Store, timer
<1>12. CASE UNCHANGED vars
  BY <1>2, <1>3, <1>12 DEF vars, local, timer
<1>13. QED
  BY <1>4, <1>5, <1>6, <1>7, <1>8, <1>9, <1>10, <1>11, <1>12 DEF Next

(***************************************************************************)
(* As long as one of the three exchanges that resolvePrice knows answers,  *)
(* the price in assets is no older than Recent, although the other calls   *)
(* fail, are cached as empty answers, or are slow.  MaxCalm, up to which   *)
(* the model counts, has to reach that far.                                *)
(***************************************************************************)
THEOREM TheColumnIsRecent == ASSUME MaxCalm >= Recent PROVE Spec => []AssetIsRecent
<1>1. Init => IInv
  <2>1. Job \in Callers
    BY DEF Callers
  <2>2. Init => AssetInv
    BY <2>1, Numbers DEF Init, AssetInv, Fresh
  <2>3. QED
    BY <2>2, InitFacts DEF IInv
<1>2. IInv /\ [Next]_vars => IInv'
  BY StepFacts, StepAsset DEF IInv
<1>3. IInv => AssetIsRecent
  <2> SUFFICES ASSUME Facts, AssetInv, calm = MaxCalm
               PROVE  asset # NoPrice /\ asset <= Recent
    BY DEF AssetIsRecent, IInv, Resolved
  <2>1. /\ asset \in Int /\ calm \in Nat /\ next \in Nat /\ next >= 1 /\ Recent \in Nat
        /\ elapsed[Job] \in Nat /\ elapsed[Job] <= Timeout
        /\ at[Job] \in {"idle", "update", "live"}
    BY Numbers DEF Facts, TypeOK, Callers, Recent
  <2>2. \A b \in Int : Fresh(b) /\ b <= Recent => asset # NoPrice /\ asset <= Recent
    BY <2>1 DEF Fresh
  <2>3. QED
    BY <2>1, <2>2, Numbers DEF AssetInv, Recent
<1>4. QED
  BY <1>1, <1>2, <1>3, PTL DEF Spec
=============================================================================
