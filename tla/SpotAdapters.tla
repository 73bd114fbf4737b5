---------------------------- MODULE SpotAdapters ----------------------------
(***************************************************************************)
(* GetBalances and GetRecentTrades of the adapters in                      *)
(* internal/services/exchange: what SyncService is told of the coins on an *)
(* exchange and of the trades they were bought in, when a request succeeds *)
(* and when it does not.                                                   *)
(*                                                                         *)
(* A request ends in "none" (it succeeds), "limit" (429) or "error" (any   *)
(* other failure, or an answer that carries an error code).  Balances are  *)
(* functions from coins to quantities, 0 for a coin that is not listed.    *)
(* OKX and Bybit hold coins in several accounts, each with a request of    *)
(* its own, one after the other.                                           *)
(*                                                                         *)
(* Left out: the limits on the trades a request answers, and that Bybit    *)
(* keeps the first pages of a category whose later page fails.             *)
(***************************************************************************)
EXTENDS Integers, Sequences, FiniteSets

CONSTANT Coins

Exchanges == {"okx", "bybit", "binance", "gate", "kraken", "kucoin"}

\* Those whose adapter is a SpotTrader.
SpotTraders == {"okx", "bybit", "binance"}

\* The accounts in the order they are asked for; coins are traded in the first.
\* Those that follow are asked and treated alike, and are one here: OKX's
\* funding and three earn accounts, Bybit's FUND and SPOT.
AccountsOf(ex) ==
    CASE ex = "okx"   -> <<"trading", "funding">>
      [] ex = "bybit" -> <<"UNIFIED", "FUND">>
      [] OTHER        -> <<"spot">>

Accounts(ex) == {AccountsOf(ex)[i] : i \in DOMAIN AccountsOf(ex)}

Nothing == [c \in Coins |-> 0]

Failed(fault) == [err |-> fault, sum |-> Nothing]
Summed(sum)   == [err |-> "none", sum |-> sum]

Plus(sum, found) == [c \in Coins |-> sum[c] + found[c]]

-----------------------------------------------------------------------------
(***************************************************************************)
(* Balances: sum is what the accounts before this one have, found is what  *)
(* there is in this one.  Only OKX's trading account has to answer.        *)
(***************************************************************************)
OkxGetBalances(sum, account, found, fault) ==
    IF fault = "none" THEN Summed(Plus(sum, found))
    ELSE IF account # "trading" THEN Summed(sum) ELSE Failed(fault)

\* Every failure is skipped: without an answer there are no coins.
BybitGetBalances(sum, found, fault) == Summed(IF fault = "none" THEN Plus(sum, found) ELSE sum)

BinanceGetBalances(found, fault) == IF fault = "none" THEN Summed(found) ELSE Failed(fault)
GateGetBalances(found, fault)    == IF fault = "none" THEN Summed(found) ELSE Failed(fault)
KrakenGetBalances(found, fault)  == IF fault = "none" THEN Summed(found) ELSE Failed(fault)
KucoinGetBalances(found, fault)  == IF fault = "none" THEN Summed(found) ELSE Failed(fault)

GetBalancesOf(ex, sum, account, found, fault) ==
    CASE ex = "okx"     -> OkxGetBalances(sum, account, found, fault)
      [] ex = "bybit"   -> BybitGetBalances(sum, found, fault)
      [] ex = "binance" -> BinanceGetBalances(found, fault)
      [] ex = "gate"    -> GateGetBalances(found, fault)
      [] ex = "kraken"  -> KrakenGetBalances(found, fault)
      [] ex = "kucoin"  -> KucoinGetBalances(found, fault)

-----------------------------------------------------------------------------
(***************************************************************************)
(* Trades: fills are records of a coin, a number and Bybit's category.     *)
(* hit is the set of requests that fail.                                   *)
(***************************************************************************)
TradeRequests(ex) ==
    CASE ex = "okx"     -> {"fills"}
      [] ex = "bybit"   -> {"spot", "linear"}
      [] ex = "binance" -> {"balances"} \cup Coins

Refused(fault) == [err |-> fault, list |-> {}]
Listed(list)   == [err |-> "none", list |-> list]

OkxRecentTrades(fills, hit, fault) ==
    IF hit = {} THEN Listed({f \in fills : f.cat = "spot"}) ELSE Refused(fault)

\* Executions of futures are listed, too.
BybitRecentTrades(fills, hit) == Listed({f \in fills : f.cat \notin hit})

\* Asks for the coins it has a balance of; one that fails is skipped.
BinanceRecentTrades(fills, balances, hit, fault) ==
    IF "balances" \in hit THEN Refused(fault)
    ELSE Listed({f \in fills : f.cat = "spot" /\ balances[f.coin] > 0 /\ f.coin \notin hit})

GetRecentTradesOf(ex, fills, balances, hit, fault) ==
    CASE ex = "okx"     -> OkxRecentTrades(fills, hit, fault)
      [] ex = "bybit"   -> BybitRecentTrades(fills, hit)
      [] ex = "binance" -> BinanceRecentTrades(fills, balances, hit, fault)
=============================================================================
