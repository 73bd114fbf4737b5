-------------------------- MODULE FuturesAdapters --------------------------
(***************************************************************************)
(* GetOpenPositions and GetClosedTrades of the adapters in                 *)
(* internal/services/exchange: what SyncService is told of the positions   *)
(* on an exchange, and of the trades that closed them, when a request      *)
(* succeeds and when it does not.  KuCoin, which has no positions, is left *)
(* out.                                                                    *)
(*                                                                         *)
(* A request ends in "none" (it succeeds), "refused" (an answer that       *)
(* carries an error code), "error" (any other failure) or "limit" (429).   *)
(* Bybit is asked once for each category, the others once: hit is the set  *)
(* of categories whose request fails.                                      *)
(*                                                                         *)
(* A position is <<key, n>>, the n-th one opened under a key, a key is     *)
(* <<symbol, side>>.  Trades are a sequence, oldest first.                 *)
(***************************************************************************)
EXTENDS Integers, Sequences, FiniteSets

CONSTANTS
    Symbols,
    Long, Short,
    CategoryOf,    \* Bybit's category of each symbol
    LeverKnown,    \* whether OKX states the leverage of a trade, or leverage-info does
    PageSize,      \* trades an exchange answers at most to one request
    MaxPages       \* pages Bybit is asked for

Exchanges  == {"okx", "bybit", "binance", "gate", "kraken"}
Categories == {"USDT", "USDC", "inverse"}

ASSUME AdaptersAssumption ==
    /\ CategoryOf \in [Symbols -> Categories] /\ LeverKnown \in BOOLEAN
    /\ Long # Short
    /\ PageSize \in Nat \ {0} /\ MaxPages \in Nat \ {0}

Sides == {Long, Short}
Keys  == Symbols \X Sides

Key(p)    == p[1]
Symbol(p) == p[1][1]

Failed(fault) == [err |-> fault, list |-> {}]
Listed(list)  == [err |-> "none", list |-> list]

\* The categories an exchange is asked for one after the other.
Requests(ex) == IF ex = "bybit" THEN Categories ELSE {"all"}

-----------------------------------------------------------------------------
(***************************************************************************)
(* Open positions: OKX alone passes failures on.  Bybit leaves the failed  *)
(* categories out, the others take a failure for an account without        *)
(* positions.                                                              *)
(***************************************************************************)
OkxOpenPositions(positions, fault) ==
    CASE fault = "none"    -> Listed(positions)
      [] fault = "refused" -> Failed("error")
      [] OTHER             -> Failed(fault)

BybitOpenPositions(positions, hit) ==
    Listed({p \in positions : CategoryOf[Symbol(p)] \notin hit})

BinanceOpenPositions(positions, fault) == Listed(IF fault = "none" THEN positions ELSE {})

GateOpenPositions(positions, fault) == Listed(IF fault = "none" THEN positions ELSE {})

KrakenOpenPositions(positions, fault) == Listed(IF fault = "none" THEN positions ELSE {})

GetOpenPositionsOf(ex, positions, fault, hit) ==
    CASE ex = "okx"     -> OkxOpenPositions(positions, fault)
      [] ex = "bybit"   -> BybitOpenPositions(positions, hit)
      [] ex = "binance" -> BinanceOpenPositions(positions, fault)
      [] ex = "gate"    -> GateOpenPositions(positions, fault)
      [] ex = "kraken"  -> KrakenOpenPositions(positions, fault)

\* Leverage and entry notional of a position as processPositions gets them:
\* InitialMargin is 0 without a notional, and a leverage of "1x" is not used.
RowSized(ex)   == ex \in {"okx", "bybit", "binance"}
RowLevered(ex) == ex # "kraken"

-----------------------------------------------------------------------------
(***************************************************************************)
(* Closed trades, of the first until ones.                                 *)
(***************************************************************************)
Earlier(trades, until) == SubSeq(trades, 1, until)

Members(trades)   == {trades[i] : i \in DOMAIN trades}
Newest(trades, n) == {trades[i] : i \in DOMAIN trades \cap (Len(trades) - n + 1)..Len(trades)}

\* One request, for the newest trades whenever they were closed; those closed
\* after the end of the window are dropped from what it answers.
OkxClosedTrades(trades, until, fault) ==
    CASE fault = "none"    -> Listed(Newest(trades, PageSize) \cap Members(Earlier(trades, until)))
      [] fault = "refused" -> Listed({})
      [] OTHER             -> Failed(fault)

\* The newest n trades of a category.
NewestOf(trades, c, n) ==
    LET In == {i \in DOMAIN trades : CategoryOf[Symbol(trades[i])] = c}
    IN  {trades[i] : i \in {i \in In : Cardinality({j \in In : j > i}) < n}}

\* Pages of every category; a failure ends its category, after pages of them.
BybitClosedTrades(trades, until, hit, pages) ==
    LET Pages(c) == IF c \in hit THEN pages ELSE MaxPages
    IN  Listed(UNION {NewestOf(Earlier(trades, until), c, PageSize * Pages(c)) : c \in Categories})

BinanceClosedTrades(trades, until, fault) ==
    Listed(IF fault = "none" THEN Newest(Earlier(trades, until), PageSize) ELSE {})

GateClosedTrades(trades, until, fault) ==
    Listed(IF fault = "none" THEN Newest(Earlier(trades, until), PageSize) ELSE {})

KrakenClosedTrades(trades, until, fault) ==
    CASE fault = "none"    -> Listed(Newest(Earlier(trades, until), PageSize))
      [] fault = "refused" -> Listed({})
      [] OTHER             -> Failed(fault)

GetClosedTradesOf(ex, trades, until, fault, hit, pages) ==
    CASE ex = "okx"     -> OkxClosedTrades(trades, until, fault)
      [] ex = "bybit"   -> BybitClosedTrades(trades, until, hit, pages)
      [] ex = "binance" -> BinanceClosedTrades(trades, until, fault)
      [] ex = "gate"    -> GateClosedTrades(trades, until, fault)
      [] ex = "kraken"  -> KrakenClosedTrades(trades, until, fault)

\* Whether a trade comes with its leverage, and with its size.
TradeLevered(ex) == ex = "bybit" \/ (ex = "okx" /\ LeverKnown)
TradeSized(ex)   == ex # "binance"

\* The key a trade is recorded under.  Binance's income records have no side:
\* a loss is taken for a SHORT, whatever the position was.
RecordedUnder(ex, t, lost) ==
    IF ex = "binance" THEN <<Symbol(t), IF t \in lost THEN Short ELSE Long>> ELSE Key(t)
=============================================================================
