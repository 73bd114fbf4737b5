------------------------------ MODULE SpotSync ------------------------------
(***************************************************************************)
(* SyncService over the coins of a user on one exchange: SyncBalances (the *)
(* sync-live job) and the part of SyncUser (sync-deep, POST                *)
(* /api/sync/full) that is about balances, spot trades and the average     *)
(* price a coin was bought at, any number of them at the same time, and    *)
(* the user, who may set that price by hand.                               *)
(*                                                                         *)
(* An average price is the set of fills it is the average of, and empty    *)
(* when the user has set it.  As in PositionSync, a sync knows whether the *)
(* clock has passed into the next second since its start, and which rows   *)
(* were written after that, that is with updated_at >= syncStart.          *)
(***************************************************************************)
EXTENDS SpotAdapters

CONSTANTS
    Used,          \* exchanges the user may have
    FullSyncs,     \* goroutines of SyncUser
    LiveSyncs,     \* goroutines of SyncBalances
    FaultKinds,    \* "error", "limit" of a request, "write", "move", "crash"
    MaxFaults,     \* bound on failures and moves
    MaxFills       \* bound on fills of each coin

ASSUME SyncsAssumption == FullSyncs \cap LiveSyncs = {}
ASSUME UseAssumption == Used \subseteq Exchanges
ASSUME FaultsAssumption ==
    /\ FaultKinds \subseteq {"error", "limit", "write", "move", "crash"}
    /\ MaxFaults \in Nat /\ MaxFills \in Nat

Syncs == FullSyncs \cup LiveSyncs
Fills == [coin : Coins, n : 1..MaxFills, cat : {"spot", "linear"}]

VARIABLES
    ex,        \* the exchange
    wallet,    \* coins in each of its accounts
    fills,     \* what the user has bought there
    row,       \* user_portfolios
    kept,      \* coins held ever since the user set their price
    trades,    \* spot_trades
    cooling,   \* the exchange is in cooldownAt
    pc,        \* where each sync is
    asked,     \* accounts it has asked for
    got,       \* balances: the sum so far, and then those still to be written
    passed,    \* the clock has reached a full second since its start
    touched,   \* rows written since then
    gaps,      \* coins may have been missing in an answer, or not been written
    faults     \* failures and moves so far

exch  == <<ex, wallet, fills>>
table == <<row, kept, trades>>
local == <<pc, asked, got, passed, touched>>
vars  == <<exch, table, cooling, local, gaps, faults>>

NoRow == [in |-> FALSE, qty |-> 0, avg |-> {}, manual |-> FALSE]

\* A SyncUser without balances cleans nothing up (tradesOnly).
Steps == {"idle", "balances", "upsert", "trades", "tradesOnly", "delete", "average"}

\* What the user has of a coin, in the one or two accounts.
Holding(c) ==
    LET accounts == AccountsOf(ex) IN
    wallet[accounts[1]][c] + (IF Len(accounts) = 2 THEN wallet[accounts[2]][c] ELSE 0)

TypeOK ==
    /\ ex \in Used
    /\ wallet \in [Accounts(ex) -> [Coins -> 0..MaxFills]]
    /\ fills \subseteq Fills
    /\ row \in [Coins -> [in : BOOLEAN, qty : 0..2*MaxFills, avg : SUBSET fills, manual : BOOLEAN]]
    /\ \A c \in Coins : IF row[c].in THEN row[c].qty > 0 ELSE row[c] = NoRow
    /\ \A c \in Coins : row[c].manual => row[c].avg = {}
    /\ kept \subseteq {c \in Coins : row[c].manual} /\ trades \subseteq fills
    /\ cooling \in BOOLEAN
    /\ pc \in [Syncs -> Steps]
    /\ asked \in [Syncs -> 0..Len(AccountsOf(ex))]
    /\ got \in [Syncs -> [Coins -> 0..2*MaxFills]]
    /\ passed \in [Syncs -> BOOLEAN]
    /\ touched \in [Syncs -> SUBSET Coins]
    /\ \A s \in Syncs : touched[s] # {} => passed[s] /\ \A c \in touched[s] : row[c].in
    /\ gaps \in BOOLEAN /\ faults \in 0..MaxFaults

Init ==
    /\ ex \in Used
    /\ wallet = [a \in Accounts(ex) |-> Nothing]
    /\ fills = {}
    /\ row = [c \in Coins |-> NoRow]
    /\ kept = {}
    /\ trades = {}
    /\ cooling = FALSE
    /\ pc = [s \in Syncs |-> "idle"]
    /\ asked = [s \in Syncs |-> 0]
    /\ got = [s \in Syncs |-> Nothing]
    /\ passed = [s \in Syncs |-> FALSE]
    /\ touched = [s \in Syncs |-> {}]
    /\ gaps = FALSE
    /\ faults = 0

\* A call succeeds (fault = "none") or fails in one of the ways considered.
Call(fault) ==
    /\ fault = "none" \/ (fault \in FaultKinds /\ faults < MaxFaults)
    /\ faults' = IF fault = "none" THEN faults ELSE faults + 1

-----------------------------------------------------------------------------
(***************************************************************************)
(* The exchange, the clocks, the user.                                     *)
(***************************************************************************)
FillsOf(c) == {f \in fills : f.coin = c}

\* Only the spot fills of Bybit are told from its others.
Buy(c, cat) ==
    /\ Cardinality(FillsOf(c)) < MaxFills
    /\ cat = "linear" => ex = "bybit"
    /\ fills' = fills \cup {[coin |-> c, n |-> Cardinality(FillsOf(c)) + 1, cat |-> cat]}
    /\ wallet' = IF cat = "linear" THEN wallet ELSE [wallet EXCEPT ![AccountsOf(ex)[1]][c] = @ + 1]
    /\ UNCHANGED <<ex, table, cooling, local, gaps, faults>>

Sell(c) ==
    /\ wallet[AccountsOf(ex)[1]][c] > 0
    /\ wallet' = [wallet EXCEPT ![AccountsOf(ex)[1]][c] = @ - 1]
    /\ kept' = IF Holding(c) = 1 THEN kept \ {c} ELSE kept
    /\ UNCHANGED <<ex, fills, row, trades, cooling, local, gaps, faults>>

\* From one account to another: a sync that asks for them meanwhile may find
\* the coins in both or in neither.
Move(c, a, b) ==
    /\ a # b /\ wallet[a][c] > 0
    /\ Call("move")
    /\ wallet' = [wallet EXCEPT ![a][c] = @ - 1, ![b][c] = @ + 1]
    /\ gaps' = (gaps \/ \E s \in Syncs : pc[s] = "balances" /\ asked[s] > 0)
    /\ UNCHANGED <<ex, fills, table, cooling, local>>

NextSecond ==
    /\ \E s \in Syncs : pc[s] # "idle" /\ ~passed[s]
    /\ passed' = [s \in Syncs |-> pc[s] # "idle"]
    /\ UNCHANGED <<exch, table, cooling, pc, asked, got, touched, gaps, faults>>

CoolOff ==
    /\ cooling
    /\ cooling' = FALSE
    /\ UNCHANGED <<exch, table, local, gaps, faults>>

\* Faulty variant: updated_at may be rounded up, a row is fresh for every sync.
TouchAll(coins) == touched' = [s \in Syncs |-> touched[s] \cup coins]

\* The syncs rows written now are fresh for; the column updated_at is ON UPDATE
\* CURRENT_TIMESTAMP, so any change of a row refreshes it.
Touch(coins) == touched' = [s \in Syncs |-> IF passed[s] THEN touched[s] \cup coins ELSE touched[s]]

\* The user sets a price, or clears it (manual = FALSE) to have the average.
UpdateAssetPrice(c, manual) ==
    /\ row[c].in
    /\ row[c] # [row[c] EXCEPT !.avg = {}, !.manual = manual]
    /\ row' = [row EXCEPT ![c].avg = {}, ![c].manual = manual]
    /\ kept' = IF manual /\ Holding(c) > 0 THEN kept \cup {c} ELSE kept \ {c}
    /\ Touch({c})
    /\ UNCHANGED <<exch, trades, cooling, pc, asked, got, passed, gaps, faults>>

-----------------------------------------------------------------------------
(***************************************************************************)
(* Steps of a sync.                                                        *)
(***************************************************************************)
Goto(s, step) == pc' = [pc EXCEPT ![s] = step]

Finish(s) ==
    /\ Goto(s, "idle")
    /\ got' = [got EXCEPT ![s] = Nothing]
    /\ passed' = [passed EXCEPT ![s] = FALSE]

Start(s) ==
    /\ pc[s] = "idle"
    /\ Goto(s, "balances")
    /\ UNCHANGED <<exch, table, cooling, asked, got, passed, touched, gaps, faults>>

\* Only SyncBalances respects the cooldown.
SyncBalances(s) == s \in LiveSyncs /\ ~cooling /\ Start(s)

SyncUser(s) == s \in FullSyncs /\ Start(s)

\* logSyncError: a 429 that reaches it puts the exchange on cooldown.
SyncError(answer) == cooling' = (cooling \/ answer.err = "limit")

\* Faulty variant: a failed call is taken for an answer without coins.
GetBalancesBlind(s, fault) ==
    LET account == AccountsOf(ex)[asked[s] + 1]
        answer  == GetBalancesOf(ex, got[s], account, wallet[account], fault)
    IN
    /\ pc[s] = "balances" /\ passed[s]
    /\ fault \in {"none", "error", "limit"} /\ Call(fault)
    /\ SyncError(answer)
    /\ gaps' = (gaps \/ (fault # "none" /\ answer.err = "none"))
    /\ got' = [got EXCEPT ![s] = answer.sum]
    /\ IF answer.err # "none" \/ asked[s] + 1 = Len(AccountsOf(ex))
       THEN Goto(s, "upsert") /\ asked' = [asked EXCEPT ![s] = 0]
       ELSE asked' = [asked EXCEPT ![s] = @ + 1] /\ UNCHANGED pc
    /\ UNCHANGED <<exch, table, passed, touched>>

\* GetBalances, one request after the other.  An exchange is taken to answer
\* after the second the sync has started in.
GetBalances(s, fault) ==
    LET account == AccountsOf(ex)[asked[s] + 1]
        answer  == GetBalancesOf(ex, got[s], account, wallet[account], fault)
    IN
    /\ pc[s] = "balances" /\ passed[s]
    /\ fault \in {"none", "error", "limit"} /\ Call(fault)
    /\ SyncError(answer)
    /\ gaps' = (gaps \/ (fault # "none" /\ answer.err = "none"))
    /\ got' = [got EXCEPT ![s] = answer.sum]
    /\ CASE answer.err # "none" ->
                /\ asked' = [asked EXCEPT ![s] = 0]
                /\ Goto(s, IF s \in FullSyncs THEN "tradesOnly" ELSE "idle")
                /\ passed' = [passed EXCEPT ![s] = s \in FullSyncs]
                /\ touched' = [touched EXCEPT ![s] = IF s \in FullSyncs THEN @ ELSE {}]
         [] answer.err = "none" /\ asked[s] + 1 = Len(AccountsOf(ex)) ->
                /\ asked' = [asked EXCEPT ![s] = 0]
                /\ Goto(s, "upsert")
                /\ UNCHANGED <<passed, touched>>
         [] OTHER ->
                /\ asked' = [asked EXCEPT ![s] = @ + 1]
                /\ UNCHANGED <<pc, passed, touched>>
    /\ UNCHANGED <<exch, table>>

\* getOrCreateAsset and INSERT ... ON DUPLICATE KEY UPDATE; an error is logged
\* and the loop goes on.
UpsertBalance(s, c, fault) ==
    /\ pc[s] = "upsert" /\ got[s][c] > 0
    /\ fault \in {"none", "write"} /\ Call(fault)
    /\ got' = [got EXCEPT ![s][c] = 0]
    /\ IF fault = "none"
       THEN /\ row' = [row EXCEPT ![c].in = TRUE, ![c].qty = got[s][c]]
            /\ Touch({c})
            /\ UNCHANGED gaps
       ELSE gaps' = TRUE /\ UNCHANGED <<row, touched>>
    /\ UNCHANGED <<exch, kept, trades, cooling, pc, asked, passed>>

BalancesDone(s) ==
    /\ pc[s] = "upsert" /\ got[s] = Nothing
    /\ Goto(s, IF s \in FullSyncs /\ ex \in SpotTraders THEN "trades" ELSE "delete")
    /\ UNCHANGED <<exch, table, cooling, asked, got, passed, touched, gaps, faults>>

\* GetRecentTrades and processSpotTrades, INSERT IGNORE for each trade.
GetRecentTrades(s, fault, hit) ==
    LET balances == [c \in Coins |-> Holding(c)]
        answer   == GetRecentTradesOf(ex, fills, balances, hit, fault)
    IN
    /\ pc[s] \in {"trades", "tradesOnly"} /\ ex \in SpotTraders
    /\ hit \subseteq TradeRequests(ex) /\ (fault = "none" <=> hit = {})
    /\ fault \in {"none", "error", "limit"} /\ Call(fault)
    /\ SyncError(answer)
    /\ trades' = trades \cup answer.list
    /\ Goto(s, IF pc[s] = "trades" THEN "delete" ELSE "average")
    /\ UNCHANGED <<exch, row, kept, asked, got, passed, touched, gaps>>

\* An exchange that is no SpotTrader is asked for no trades.
SkipTrades(s) ==
    /\ pc[s] = "tradesOnly" /\ ex \notin SpotTraders
    /\ Goto(s, "average")
    /\ UNCHANGED <<exch, table, cooling, asked, got, passed, touched, gaps, faults>>

\* Faulty variant: the cleanup is for positions only.
DeleteStaleNever(s, fault) ==
    /\ pc[s] = "delete" /\ fault = "none"
    /\ IF s \in FullSyncs THEN Goto(s, "average") /\ UNCHANGED <<got, passed, touched>>
       ELSE Finish(s) /\ touched' = [touched EXCEPT ![s] = {}]
    /\ UNCHANGED <<exch, table, cooling, asked, gaps, faults>>

\* deleteStaleBalances: rows with updated_at < syncStart.
DeleteStale(s, fault) ==
    LET stale == IF fault = "none" THEN Coins \ touched[s] ELSE {} IN
    /\ pc[s] = "delete"
    /\ fault \in {"none", "write"} /\ Call(fault)
    /\ row' = [c \in Coins |-> IF c \in stale THEN NoRow ELSE row[c]]
    /\ kept' = kept \ stale
    /\ IF s \in FullSyncs THEN Goto(s, "average") /\ UNCHANGED <<got, passed>> ELSE Finish(s)
    /\ touched' = [r \in Syncs |-> IF r = s /\ s \in LiveSyncs THEN {} ELSE touched[r] \ stale]
    /\ UNCHANGED <<exch, trades, cooling, asked, gaps>>

Bought(c) == {f \in trades : f.coin = c}

\* Faulty variant: only a price that is known already is computed.
AverageAgain(r, c) ==
    IF r.in /\ ~r.manual /\ r.avg # {} THEN [r EXCEPT !.avg = Bought(c)] ELSE r

Average(r, c) == IF r.in /\ ~r.manual /\ Bought(c) # {} THEN [r EXCEPT !.avg = Bought(c)] ELSE r

\* updateAverageBuyPrices, after the exchanges of the user are done: over the
\* trades of all of them.
UpdateAverages(s, fault) ==
    LET new == [c \in Coins |-> IF fault = "none" THEN Average(row[c], c) ELSE row[c]] IN
    /\ pc[s] = "average"
    /\ fault \in {"none", "write"} /\ Call(fault)
    /\ row' = new
    /\ Finish(s)
    /\ touched' = [r \in Syncs |->
            CASE r = s -> {}
              [] r # s /\ passed[r] -> touched[r] \cup {c \in Coins : new[c] # row[c]}
              [] OTHER -> touched[r]]
    /\ UNCHANGED <<exch, kept, trades, cooling, asked, gaps>>

\* The process ends and comes back: no sync runs, no cooldown is remembered.
Restart ==
    /\ Call("crash")
    /\ "crash" \in FaultKinds
    /\ cooling' = FALSE
    /\ pc' = [s \in Syncs |-> "idle"]
    /\ asked' = [s \in Syncs |-> 0]
    /\ got' = [s \in Syncs |-> Nothing]
    /\ passed' = [s \in Syncs |-> FALSE]
    /\ touched' = [s \in Syncs |-> {}]
    /\ UNCHANGED <<exch, table, gaps>>

-----------------------------------------------------------------------------
Faults == {"none"} \cup FaultKinds

Work(s) ==
    \/ BalancesDone(s) \/ SkipTrades(s)
    \/ \E f \in Faults :
        \/ GetBalances(s, f) \/ DeleteStale(s, f) \/ UpdateAverages(s, f)
        \/ \E c \in Coins : UpsertBalance(s, c, f)
        \/ ex \in SpotTraders /\ \E hit \in SUBSET TradeRequests(ex) : GetRecentTrades(s, f, hit)

User ==
    \E c \in Coins :
        \/ \E cat \in {"spot", "linear"} : Buy(c, cat)
        \/ Sell(c)
        \/ \E a, b \in Accounts(ex) : Move(c, a, b)
        \/ \E manual \in BOOLEAN : UpdateAssetPrice(c, manual)

Next ==
    \/ \E s \in Syncs : SyncBalances(s) \/ SyncUser(s) \/ Work(s)
    \/ User \/ NextSecond \/ CoolOff \/ Restart

Spec == Init /\ [][Next]_vars

\* Clocks run, a started sync goes on, and the jobs start syncs.
FairSpec ==
    /\ Spec
    /\ WF_vars(NextSecond) /\ WF_vars(CoolOff)
    /\ \A s \in Syncs : WF_vars(Work(s)) /\ WF_vars(SyncBalances(s)) /\ WF_vars(SyncUser(s))

-----------------------------------------------------------------------------
(***************************************************************************)
(* Properties.                                                             *)
(***************************************************************************)

\* A price the user has set stays as long as the user holds the coin, until the
\* user changes it, whatever syncs overlap and whatever fails, if no answer has
\* been short of coins and none was lost on the way to the table.
ManualPricesStay ==
    [][\A c \in kept :
        ~gaps' /\ row[c].manual /\ row'[c] # [row[c] EXCEPT !.qty = row'[c].qty]
            => \E m \in BOOLEAN : UpdateAssetPrice(c, m)]_vars

\* From some time on the user leaves the prices alone.
LeftAlone == <>[][\A c \in Coins, m \in BOOLEAN : ~UpdateAssetPrice(c, m)]_vars

\* The table ends up with the quantities there are on the exchange.  (Each price
\* that is set refreshes its row, and may keep it from a cleanup.)
RowsFollow ==
    LeftAlone => \A c \in Coins : \A n \in 0..MaxFills :
        <>[](Holding(c) = n) => <>[](row[c].qty = n)

\* The fills a coin's price is the average of in the end, on Bybit those of
\* futures among them.
Averaged(c) ==
    {f \in FillsOf(c) : ex \in SpotTraders /\ (f.cat = "spot" \/ ex = "bybit")}

\* The price of a coin that is kept, and has no price set by the user, ends up
\* being the average of what it was bought for.
AveragesFollow ==
    LeftAlone => \A c \in Coins :
        <>[](Holding(c) > 0 /\ ~row[c].manual) => <>[](row[c].avg = Averaged(c))
=============================================================================
