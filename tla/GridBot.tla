------------------------------ MODULE GridBot ------------------------------
(***************************************************************************)
(* One grid bot: BotService.Start and Stop and BotHandler.Delete, run by   *)
(* HTTP goroutines, and CheckBots, run by the 10 s job, over the rows of   *)
(* bots and bot_grids and the limit orders on the exchange.  Bots share    *)
(* nothing, so one is enough.                                              *)
(*                                                                         *)
(* Every database call and every exchange call is a step of its own:       *)
(* nothing in the code locks a bot between two of them.  Prices are        *)
(* counted in half grid steps from price_low, so level i costs 2 * i.      *)
(***************************************************************************)
EXTENDS Integers, Sequences, FiniteSets

CONSTANTS
    Handlers,     \* HTTP goroutines that serve /api/bots requests
    Checkers,     \* goroutines that run CheckBots: the job, or none
    Ops,          \* requests the user sends: start, stop, delete
    Grids,        \* bots.grids
    StartPrices,  \* prices the symbol has when a start is asked for
    MaxRequests,  \* bound on requests
    MaxSettled,   \* bound on orders the market fills or the user withdraws
    MaxFaults     \* bound on failed writes, lost answers and restarts

ASSUME ProcsAssumption == Handlers \cap Checkers = {}
ASSUME OpsAssumption == Ops \subseteq {"start", "stop", "delete"}
ASSUME GridsAssumption == Grids \in Nat /\ Grids >= 2 /\ StartPrices \subseteq Nat
ASSUME BoundsAssumption ==
    MaxRequests \in Nat /\ MaxSettled \in Nat /\ MaxFaults \in Nat

Procs == Handlers \cup Checkers

VARIABLES
    status,    \* bots.status
    rows,      \* bot_grids, in id order
    profit,    \* bots.total_profit: how often each order's fill was added
    book,      \* orders on the exchange, in the order it accepted them
    pc,        \* where each goroutine is
    work,      \* rows it has still to go through
    at,        \* the row it works on, 0 for none
    oid,       \* the order id it has received and not yet stored, 0 for none
    price,     \* currentPrice of a start
    requests,  \* requests so far
    settled,   \* fills and withdrawals so far
    faults     \* failed writes, lost answers and restarts so far

local == <<pc, work, at, oid, price>>
vars  == <<status, rows, profit, book, local, requests, settled, faults>>

Sides     == {"buy", "sell"}
RowStatus == {"pending", "open", "filled", "cancelled"}
Row   == [level : 0..Grids, side : Sides, price : Nat, oid : Nat, status : RowStatus]
Order == [side : Sides, price : Nat, state : {"live", "filled", "cancelled"},
          by : {"start", "check"}]  \* by: who placed it
Steps == {"idle", "clear", "create", "place", "open", "list", "cancel", "drop", "halt",
          "check", "ask", "fill", "profit", "counter", "insert"}

(***************************************************************************)
(* Row and order ids held by rows and goroutines are ids of existing ones. *)
(***************************************************************************)
TypeOK ==
    /\ status \in {"running", "stopped"}
    /\ book \in Seq(Order)
    /\ rows \in Seq(Row) /\ \A i \in DOMAIN rows : rows[i].oid <= Len(book)
    /\ profit \in [DOMAIN book -> Nat]
    /\ pc \in [Procs -> Steps]
    /\ work \in [Procs -> SUBSET DOMAIN rows]
    /\ at \in [Procs -> 0..Len(rows)]
    /\ oid \in [Procs -> 0..Len(book)]
    /\ price \in [Procs -> Nat]
    /\ requests \in 0..MaxRequests
    /\ settled \in 0..MaxSettled
    /\ faults \in 0..MaxFaults

Init ==
    /\ status = "stopped"
    /\ rows = <<>>
    /\ profit = <<>>
    /\ book = <<>>
    /\ pc = [p \in Procs |-> "idle"]
    /\ work = [p \in Procs |-> {}]
    /\ at = [p \in Procs |-> 0]
    /\ oid = [p \in Procs |-> 0]
    /\ price = [p \in Procs |-> 0]
    /\ requests = 0
    /\ settled = 0
    /\ faults = 0

-----------------------------------------------------------------------------
(***************************************************************************)
(* Database and exchange calls.                                            *)
(***************************************************************************)

\* A call succeeds (ok) or fails; a failed write does not happen.
Call(ok) ==
    /\ ok \/ faults < MaxFaults
    /\ faults' = IF ok THEN faults ELSE faults + 1

Open == {i \in DOMAIN rows : rows[i].status = "open"}

\* CancelAllGrids: pending and open rows are cancelled, in the table only.
CancelAllGrids(ok) ==
    /\ Call(ok)
    /\ rows' = IF ok
               THEN [i \in DOMAIN rows |->
                       IF rows[i].status \in {"pending", "open"}
                       THEN [rows[i] EXCEPT !.status = "cancelled"] ELSE rows[i]]
               ELSE rows

\* trader.PlaceOrder: accepted, refused, or accepted with the answer lost.
Replies == {"ok", "refused", "lost"}

PlaceOrder(p, reply, side, pr, by) ==
    /\ Call(reply # "lost")
    /\ IF reply = "refused"
       THEN UNCHANGED <<book, profit>>
       ELSE /\ book' = Append(book, [side |-> side, price |-> pr, state |-> "live", by |-> by])
            /\ profit' = Append(profit, 0)
    /\ oid' = [oid EXCEPT ![p] = IF reply = "ok" THEN Len(book) + 1 ELSE 0]

\* The loops over grid rows go by level; rows of one level come in any order.
Heads(p) == {i \in work[p] : \A j \in work[p] : rows[i].level <= rows[j].level}

Goto(p, step) == pc' = [pc EXCEPT ![p] = step]

\* The goroutine is done with the request or the pass.
Finish(p) ==
    /\ Goto(p, "idle")
    /\ work' = [work EXCEPT ![p] = {}]
    /\ price' = [price EXCEPT ![p] = 0]
    /\ UNCHANGED <<at, oid>>

\* The market fills an order, or the user withdraws it by hand.
Settle(o, state) ==
    /\ settled < MaxSettled /\ book[o].state = "live"
    /\ book' = [book EXCEPT ![o].state = state]
    /\ settled' = settled + 1
    /\ UNCHANGED <<status, rows, profit, local, requests, faults>>

-----------------------------------------------------------------------------
(***************************************************************************)
(* Start.                                                                  *)
(***************************************************************************)

Request(h, op) ==
    /\ pc[h] = "idle" /\ op \in Ops /\ requests < MaxRequests
    /\ requests' = requests + 1
    /\ UNCHANGED <<status, rows, profit, book, work, at, oid, settled, faults>>

\* The bot is read and is not running; price, credentials and exchange are good.
RequestStart(h) ==
    /\ Request(h, "start") /\ status # "running"
    /\ Goto(h, "clear")
    /\ \E p \in StartPrices : price' = [price EXCEPT ![h] = p]

Clear(h, ok) ==
    /\ pc[h] = "clear"
    /\ CancelAllGrids(ok)
    /\ Goto(h, "create")
    /\ UNCHANGED <<status, profit, book, work, at, oid, price, requests, settled>>

\* CreateGrids, row by row; an error ends the request with the rows so far.
CreateGrid(h, ok) ==
    /\ pc[h] = "create"
    /\ Call(ok)
    /\ LET level == Cardinality(work[h])
           new   == [level |-> level, price |-> 2 * level, oid |-> 0, status |-> "pending",
                     side |-> IF 2 * level >= price[h] THEN "sell" ELSE "buy"]
       IN  IF ok
           THEN /\ rows' = Append(rows, new)
                /\ work' = [work EXCEPT ![h] = @ \cup {Len(rows) + 1}]
                /\ Goto(h, IF level = Grids THEN "place" ELSE "create")
                /\ UNCHANGED <<at, oid, price>>
           ELSE /\ Finish(h)
                /\ UNCHANGED rows
    /\ UNCHANGED <<status, profit, book, requests, settled>>

\* A level at the current price is skipped and stays pending; an order that
\* is refused, or whose answer is lost, is only logged.
PlaceLevel(h, reply) ==
    /\ pc[h] = "place"
    /\ \E i \in Heads(h) :
        /\ work' = [work EXCEPT ![h] = @ \ {i}]
        /\ IF rows[i].price = price[h]
           THEN reply = "refused" /\ UNCHANGED <<profit, book, pc, at, oid, faults>>
           ELSE /\ PlaceOrder(h, reply, rows[i].side, rows[i].price, "start")
                /\ Goto(h, IF reply = "ok" THEN "open" ELSE "place")
                /\ at' = [at EXCEPT ![h] = IF reply = "ok" THEN i ELSE 0]
    /\ UNCHANGED <<status, rows, price, requests, settled>>

\* UpdateGrid(g.ID, orderID, "open"), whatever the row's status is by now.
RecordOpen(h, ok) ==
    /\ pc[h] = "open"
    /\ Call(ok)
    /\ rows' = IF ok THEN [rows EXCEPT ![at[h]].oid = oid[h], ![at[h]].status = "open"] ELSE rows
    /\ Goto(h, "place")
    /\ at' = [at EXCEPT ![h] = 0]
    /\ oid' = [oid EXCEPT ![h] = 0]
    /\ UNCHANGED <<status, profit, book, work, price, requests, settled>>

SetRunning(h, ok) ==
    /\ pc[h] = "place" /\ work[h] = {}
    /\ Call(ok)
    /\ status' = IF ok THEN "running" ELSE status
    /\ Finish(h)
    /\ UNCHANGED <<rows, profit, book, requests, settled>>

-----------------------------------------------------------------------------
(***************************************************************************)
(* Stop and Delete.                                                        *)
(***************************************************************************)

\* The bot is read and is running; without credentials (which cost a fault
\* here) Stop goes on with the table alone.
RequestStop(h, creds) ==
    /\ pc[h] = "idle" /\ "stop" \in Ops /\ requests < MaxRequests
    /\ status = "running"
    /\ requests' = requests + 1
    /\ Call(creds)
    /\ Goto(h, IF creds THEN "list" ELSE "drop")
    /\ UNCHANGED <<status, rows, profit, book, work, at, oid, price, settled>>

ListToCancel(h, ok) ==
    /\ pc[h] = "list"
    /\ Call(ok)
    /\ work' = [work EXCEPT ![h] = IF ok THEN Open ELSE {}]
    /\ Goto(h, "cancel")
    /\ UNCHANGED <<status, rows, profit, book, at, oid, price, requests, settled>>

\* Faulty variant: an order that is already filled ends the loop.
CancelLevelGivesUp(h, ok) ==
    /\ pc[h] = "cancel"
    /\ Call(ok)
    /\ \E i \in Heads(h) :
        LET o == rows[i].oid IN
        /\ work' = [work EXCEPT ![h] = IF book[o].state = "live" THEN @ \ {i} ELSE {}]
        /\ book' = IF ok /\ book[o].state = "live"
                   THEN [book EXCEPT ![o].state = "cancelled"] ELSE book
    /\ UNCHANGED <<status, rows, profit, pc, at, oid, price, requests, settled>>

\* CancelOrder; an error (an order already filled has one) is only logged.
CancelLevel(h, ok) ==
    /\ pc[h] = "cancel"
    /\ Call(ok)
    /\ \E i \in Heads(h) :
        LET o == rows[i].oid IN
        /\ work' = [work EXCEPT ![h] = @ \ {i}]
        /\ book' = IF ok /\ book[o].state = "live"
                   THEN [book EXCEPT ![o].state = "cancelled"] ELSE book
    /\ UNCHANGED <<status, rows, profit, pc, at, oid, price, requests, settled>>

Drop(h, ok) ==
    /\ pc[h] = "drop" \/ (pc[h] = "cancel" /\ work[h] = {})
    /\ CancelAllGrids(ok)
    /\ Goto(h, "halt")
    /\ UNCHANGED <<status, profit, book, work, at, oid, price, requests, settled>>

\* Delete reads a bot that is not running and sets it to stopped as well.
RequestDelete(h) ==
    /\ Request(h, "delete") /\ status # "running"
    /\ Goto(h, "halt")
    /\ UNCHANGED price

SetStopped(h, ok) ==
    /\ pc[h] = "halt"
    /\ Call(ok)
    /\ status' = IF ok THEN "stopped" ELSE status
    /\ Finish(h)
    /\ UNCHANGED <<rows, profit, book, requests, settled>>

-----------------------------------------------------------------------------
(***************************************************************************)
(* CheckBots.                                                              *)
(***************************************************************************)

ListRunning(c) ==
    /\ pc[c] = "idle" /\ status = "running"
    /\ Goto(c, "check")
    /\ UNCHANGED <<status, rows, profit, book, work, at, oid, price, requests, settled, faults>>

\* Credentials and ListOpenGrids, or one of them fails and the bot waits for
\* the next pass.
ListOpenGrids(c, ok) ==
    /\ pc[c] = "check"
    /\ Call(ok)
    /\ work' = [work EXCEPT ![c] = IF ok THEN Open ELSE {}]
    /\ Goto(c, "ask")
    /\ UNCHANGED <<status, rows, profit, book, at, oid, price, requests, settled>>

\* Faulty variant: the first order still open ends the pass.
AskFirstOnly(c, ok) ==
    /\ pc[c] = "ask"
    /\ Call(ok)
    /\ \E i \in Heads(c) :
        LET filled == ok /\ book[rows[i].oid].state = "filled" IN
        /\ work' = [work EXCEPT ![c] = IF filled THEN @ \ {i} ELSE {}]
        /\ at' = [at EXCEPT ![c] = IF filled THEN i ELSE 0]
        /\ Goto(c, IF filled THEN "fill" ELSE "ask")
    /\ UNCHANGED <<status, rows, profit, book, oid, price, requests, settled>>

\* GetOrderStatus; only a filled order is acted upon.
Ask(c, ok) ==
    /\ pc[c] = "ask"
    /\ Call(ok)
    /\ \E i \in Heads(c) :
        LET filled == ok /\ book[rows[i].oid].state = "filled" IN
        /\ work' = [work EXCEPT ![c] = @ \ {i}]
        /\ at' = [at EXCEPT ![c] = IF filled THEN i ELSE 0]
        /\ Goto(c, IF filled THEN "fill" ELSE "ask")
    /\ UNCHANGED <<status, rows, profit, book, oid, price, requests, settled>>

\* Faulty variant: the row is left open.
RecordFillNot(c, ok) ==
    /\ pc[c] = "fill"
    /\ Call(ok)
    /\ Goto(c, "profit")
    /\ UNCHANGED <<status, rows, profit, book, work, at, oid, price, requests, settled>>

\* UpdateGrid(g.ID, ..., "filled"), whatever the row's status is by now.
RecordFill(c, ok) ==
    /\ pc[c] = "fill"
    /\ Call(ok)
    /\ rows' = IF ok THEN [rows EXCEPT ![at[c]].status = "filled"] ELSE rows
    /\ Goto(c, "profit")
    /\ UNCHANGED <<status, profit, book, work, at, oid, price, requests, settled>>

AddProfit(c, ok) ==
    /\ pc[c] = "profit"
    /\ Call(ok)
    /\ profit' = IF ok THEN [profit EXCEPT ![rows[at[c]].oid] = @ + 1] ELSE profit
    /\ Goto(c, "counter")
    /\ UNCHANGED <<status, rows, book, work, at, oid, price, requests, settled>>

\* The order that answers a filled row: one step up or down, the other side.
CounterSide(r)  == IF r.side = "buy" THEN "sell" ELSE "buy"
CounterPrice(r) == IF r.side = "buy" THEN r.price + 2 ELSE r.price - 2
InRange(r)      == CounterPrice(r) \in 0..(2 * Grids)

\* placeCounterOrder: outside the grid nothing is placed, and an error of
\* PlaceOrder is only logged.
PlaceCounter(c, reply) ==
    /\ pc[c] = "counter"
    /\ LET r == rows[at[c]] IN
       IF InRange(r)
       THEN /\ PlaceOrder(c, reply, CounterSide(r), CounterPrice(r), "check")
            /\ Goto(c, IF reply = "ok" THEN "insert" ELSE "ask")
       ELSE /\ reply = "refused" /\ Goto(c, "ask")
            /\ UNCHANGED <<book, profit, oid, faults>>
    /\ at' = [at EXCEPT ![c] = IF reply = "ok" THEN @ ELSE 0]
    /\ UNCHANGED <<status, rows, work, price, requests, settled>>

\* Faulty variant: the counter order's id is not stored with its row.
InsertCounterBare(c, ok) ==
    /\ pc[c] = "insert"
    /\ Call(ok)
    /\ LET r == rows[at[c]] IN
       rows' = IF ok THEN Append(rows, [r EXCEPT !.side = CounterSide(r), !.price = CounterPrice(r),
                                                 !.status = "open"])
                     ELSE rows
    /\ Goto(c, "ask")
    /\ at' = [at EXCEPT ![c] = 0]
    /\ oid' = [oid EXCEPT ![c] = 0]
    /\ UNCHANGED <<status, profit, book, work, price, requests, settled>>

\* CreateGrids with the one new row, which reuses the filled row's level.
InsertCounter(c, ok) ==
    /\ pc[c] = "insert"
    /\ Call(ok)
    /\ LET r == rows[at[c]] IN
       rows' = IF ok THEN Append(rows, [r EXCEPT !.side = CounterSide(r), !.price = CounterPrice(r),
                                                 !.oid = oid[c], !.status = "open"])
                     ELSE rows
    /\ Goto(c, "ask")
    /\ at' = [at EXCEPT ![c] = 0]
    /\ oid' = [oid EXCEPT ![c] = 0]
    /\ UNCHANGED <<status, profit, book, work, price, requests, settled>>

LeaveBot(c) ==
    /\ pc[c] = "ask" /\ work[c] = {}
    /\ Finish(c)
    /\ UNCHANGED <<status, rows, profit, book, requests, settled, faults>>

-----------------------------------------------------------------------------
\* The process ends or is killed wherever its goroutines are, and comes back.
Restart ==
    /\ faults < MaxFaults
    /\ faults' = faults + 1
    /\ pc' = [p \in Procs |-> "idle"]
    /\ work' = [p \in Procs |-> {}]
    /\ at' = [p \in Procs |-> 0]
    /\ oid' = [p \in Procs |-> 0]
    /\ price' = [p \in Procs |-> 0]
    /\ UNCHANGED <<status, rows, profit, book, requests, settled>>

Serve(h) ==
    \/ RequestStart(h) \/ RequestDelete(h)
    \/ \E reply \in Replies : PlaceLevel(h, reply)
    \/ \E ok \in BOOLEAN :
        \/ Clear(h, ok) \/ CreateGrid(h, ok) \/ RecordOpen(h, ok) \/ SetRunning(h, ok)
        \/ RequestStop(h, ok) \/ ListToCancel(h, ok) \/ CancelLevel(h, ok)
        \/ Drop(h, ok) \/ SetStopped(h, ok)

CheckBot(c) ==
    \/ ListRunning(c) \/ LeaveBot(c)
    \/ \E reply \in Replies : PlaceCounter(c, reply)
    \/ \E ok \in BOOLEAN :
        \/ ListOpenGrids(c, ok) \/ Ask(c, ok) \/ RecordFill(c, ok)
        \/ AddProfit(c, ok) \/ InsertCounter(c, ok)

Next ==
    \/ \E h \in Handlers : Serve(h)
    \/ \E c \in Checkers : CheckBot(c)
    \/ \E o \in DOMAIN book, s \in {"filled", "cancelled"} : Settle(o, s)
    \/ Restart

Spec == Init /\ [][Next]_vars

\* The scheduler calls CheckBots again and again; users and market owe nothing.
FairSpec == Spec /\ \A c \in Checkers : WF_vars(CheckBot(c))

-----------------------------------------------------------------------------
(***************************************************************************)
(* Safety.                                                                 *)
(***************************************************************************)

\* A row that holds an order id describes that order, and no other row does:
\* two goroutines never account for the same order, however they overlap.
RowsTellOrders ==
    \A i \in DOMAIN rows : rows[i].oid # 0 =>
        /\ rows[i].side = book[rows[i].oid].side /\ rows[i].price = book[rows[i].oid].price
        /\ \A j \in DOMAIN rows \ {i} : rows[j].oid # rows[i].oid

\* Typed, and every order is accounted for by one row at most.
Inv == TypeOK /\ RowsTellOrders

\* Profit is added for filled orders only, and once for each, except that a
\* failure (the row's update is lost, or the process ends) may repeat one.
FillsCountedOnce ==
    \A o \in DOMAIN book :
        /\ profit[o] <= 1 + faults
        /\ profit[o] > 0 => book[o].state = "filled"

Live == {o \in DOMAIN book : book[o].state = "live"}

Rests == status = "stopped" /\ \A p \in Procs : pc[p] = "idle"

\* While nothing has failed, a stopped bot that nobody works on has nothing on
\* the exchange of what starts placed.
StopCancelsGrid == faults = 0 /\ Rests => \A o \in Live : book[o].by = "check"

\* Not even a counter order.  (It does not hold: a check that overlaps the stop
\* places its counter order after the stop has listed what to cancel.)
StoppedIsFlat == faults = 0 /\ Rests => Live = {}

-----------------------------------------------------------------------------
(***************************************************************************)
(* Liveness.                                                               *)
(***************************************************************************)

\* A level of a running bot whose order has been filled.
Unnoticed(l) ==
    status = "running" /\ \E i \in Open : rows[i].level = l /\ book[rows[i].oid].state = "filled"

\* A fill is noticed, unless the bot is stopped first, whatever the orders of
\* the other levels do.
FillsNoticed == \A l \in 0..Grids : []<>~Unnoticed(l)
=============================================================================
