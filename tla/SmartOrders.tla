---------------------------- MODULE SmartOrders ----------------------------
(***************************************************************************)
(* Conditional orders (stop-loss, take-profit, trailing stop) of the       *)
(* trading service: the HTTP handlers that create and cancel them, the     *)
(* smart_orders and orders tables, and SmartOrderService.CheckAndTrigger,  *)
(* run by a set of concurrent checkers.  cmd/server runs one checker (a    *)
(* 5 s job); cmd/trading runs two, the callback of market.prices.updated   *)
(* and the 30 s fallback job, over the same tables.                        *)
(*                                                                         *)
(* Every database call and every exchange call is a step of its own, since *)
(* nothing in the code holds a lock or a transaction across two of them.   *)
(***************************************************************************)
EXTENDS Integers, Sequences, FiniteSets

CONSTANTS
    Ids,          \* ids of smart_orders rows, in AUTO_INCREMENT order
    Checkers,     \* goroutines that run CheckAndTrigger
    Symbols,      \* traded symbols
    Requests,     \* bodies of POST /api/smart-orders
    Prices,       \* prices a symbol can have; 0 stands for "no price known"
    LostReplies,  \* TRUE: an exchange may accept an order and the call still fail
    MaxFaults,    \* bound on restarts plus database writes that fail
    MaxMoves      \* bound on price changes

Sides == {"buy", "sell"}
Types == {"stop_loss", "take_profit", "trailing_stop"}
RequestType ==
    [symbol : Symbols, side : Sides, type : Types, trigger : Nat, rate : Nat]

NoRequest == [type |-> "none"]

ASSUME IdsAssumption == Ids \subseteq Nat \ {0}
ASSUME PricesAssumption == Prices \subseteq Nat
ASSUME RequestsAssumption == Requests \subseteq RequestType
ASSUME BoundsAssumption ==
    MaxFaults \in Nat /\ MaxMoves \in Nat /\ LostReplies \in BOOLEAN

VARIABLES
    status,    \* smart_orders.status per id, "none" before the INSERT
    req,       \* the immutable columns of the row
    peak,      \* smart_orders.peak_price
    trigBy,    \* smart_orders.triggered_order_id, 0 for NULL
    orders,    \* the orders table, in id order
    executed,  \* market orders the exchange accepted, per smart order and checker
    market,    \* what GetLivePrices would return now
    pc,        \* where each checker is
    todo,      \* orders of the checker's ListActive result still to examine
    snap,      \* peak_price of every order as ListActive returned it
    seen,      \* the price batch of the checker's pass
    cur,       \* the order the checker is executing, 0 for none
    row,       \* dbOrder.ID, 0 for none
    stopping,  \* ctx is cancelled (SIGTERM)
    faults,    \* restarts and failed database writes so far
    moves      \* price changes so far

table == <<status, req, peak, trigBy>>
local == <<pc, todo, snap, seen, cur, row>>
env   == <<market, moves>>
vars  == <<table, orders, executed, env, local, stopping, faults>>

Statuses == {"active", "triggered", "cancelled", "failed"}
Steps    == {"idle", "price", "loop", "creds", "create", "place",
             "record", "mark", "reject", "fail"}
OrderRow == [smart : Ids, status : {"new", "filled", "rejected"}]

(***************************************************************************)
(* Local state and rows fit together: a checker's row and a triggered      *)
(* order's triggered_order_id are ids of existing orders rows (or none).   *)
(***************************************************************************)
TypeOK ==
    /\ status \in [Ids -> Statuses \cup {"none"}]
    /\ req \in [Ids -> Requests \cup {NoRequest}]
    /\ peak \in [Ids -> Nat]
    /\ orders \in Seq(OrderRow)
    /\ trigBy \in [Ids -> 0..Len(orders)]
    /\ executed \in [Ids \X Checkers -> Nat]
    /\ market \in [Symbols -> Prices \cup {0}]
    /\ pc \in [Checkers -> Steps]
    /\ todo \in [Checkers -> SUBSET Ids]
    /\ snap \in [Checkers -> [Ids -> Nat]]
    /\ seen \in [Checkers -> [Symbols -> Prices \cup {0}]]
    /\ cur \in [Checkers -> Ids \cup {0}]
    /\ row \in [Checkers -> 0..Len(orders)]
    /\ stopping \in BOOLEAN
    /\ faults \in 0..MaxFaults
    /\ moves \in 0..MaxMoves

NoPrices == [s \in Symbols |-> 0]
NoPeaks  == [o \in Ids |-> 0]

Init ==
    /\ status = [o \in Ids |-> "none"]
    /\ req = [o \in Ids |-> NoRequest]
    /\ peak = NoPeaks
    /\ trigBy = [o \in Ids |-> 0]
    /\ orders = <<>>
    /\ executed = [p \in Ids \X Checkers |-> 0]
    /\ market = NoPrices
    /\ pc = [c \in Checkers |-> "idle"]
    /\ todo = [c \in Checkers |-> {}]
    /\ snap = [c \in Checkers |-> NoPeaks]
    /\ seen = [c \in Checkers |-> NoPrices]
    /\ cur = [c \in Checkers |-> 0]
    /\ row = [c \in Checkers |-> 0]
    /\ stopping = FALSE
    /\ faults = 0
    /\ moves = 0

-----------------------------------------------------------------------------
(***************************************************************************)
(* The trigger rules, as checkTrigger and checkTrailing compute them.  The *)
(* percentage comparison is multiplied out, so it is exact.                *)
(***************************************************************************)

\* Faulty variant: the sell side follows the price down.
NewPeakFollows(r, pk, price) ==
    IF r.type # "trailing_stop" \/ r.rate <= 0 THEN pk
    ELSE IF r.side = "sell" \/ pk = 0 \/ price < pk THEN price ELSE pk

\* checkTrailing: the peak after seeing price (0 is "not set yet").
NewPeak(r, pk, price) ==
    IF r.type # "trailing_stop" \/ r.rate <= 0 THEN pk
    ELSE IF r.side = "sell" THEN (IF price > pk THEN price ELSE pk)
    ELSE (IF pk = 0 \/ price < pk THEN price ELSE pk)

\* checkTrigger: does the rule fire at price, pk being the new peak?
Fires(r, pk, price) ==
    \/ /\ <<r.type, r.side>> \in {<<"stop_loss", "sell">>, <<"take_profit", "buy">>}
       /\ price <= r.trigger
    \/ /\ <<r.type, r.side>> \in {<<"stop_loss", "buy">>, <<"take_profit", "sell">>}
       /\ price >= r.trigger
    \/ /\ r.type = "trailing_stop" /\ r.rate > 0 /\ pk > 0
       /\ IF r.side = "sell" THEN (pk - price) * 100 >= r.rate * pk
                             ELSE (price - pk) * 100 >= r.rate * pk

-----------------------------------------------------------------------------
(***************************************************************************)
(* The user, the market and the database.                                  *)
(***************************************************************************)

\* SmartOrderHandler.Create accepts the request.
Valid(r) ==
    IF r.type = "trailing_stop" THEN 0 < r.rate /\ r.rate <= 50 ELSE r.trigger > 0

Create(o, r) ==
    /\ status[o] = "none" /\ \A p \in Ids : p < o => status[p] # "none"
    /\ Valid(r)
    /\ status' = [status EXCEPT ![o] = "active"]
    /\ req' = [req EXCEPT ![o] = r]
    /\ UNCHANGED <<peak, trigBy, orders, executed, env, local, stopping, faults>>

\* DELETE /api/smart-orders/:id: the only conditional UPDATE of the table.
Cancel(o) ==
    /\ status[o] = "active"
    /\ status' = [status EXCEPT ![o] = "cancelled"]
    /\ UNCHANGED <<req, peak, trigBy, orders, executed, env, local, stopping, faults>>

\* Prices change, and disappear while an exchange's price call fails.
PriceMove(s, p) ==
    /\ moves < MaxMoves /\ market[s] # p
    /\ market' = [market EXCEPT ![s] = p]
    /\ moves' = moves + 1
    /\ UNCHANGED <<table, orders, executed, local, stopping, faults>>

\* A database write succeeds (ok) or fails; every caller below ignores the
\* error, so a failed write is a write that does not happen.
Write(ok) ==
    /\ ok \/ faults < MaxFaults
    /\ faults' = IF ok THEN faults ELSE faults + 1

-----------------------------------------------------------------------------
(***************************************************************************)
(* CheckAndTrigger: one pass of a checker.                                 *)
(***************************************************************************)

\* Faulty variant: the pass takes every row that is not triggered yet.
ListUntriggered(c) ==
    LET active == {o \in Ids : status[o] \in {"active", "cancelled"}} IN
    /\ pc[c] = "idle" /\ active # {}
    /\ pc' = [pc EXCEPT ![c] = "price"]
    /\ todo' = [todo EXCEPT ![c] = active]
    /\ snap' = [snap EXCEPT ![c] = peak]
    /\ UNCHANGED <<table, orders, executed, env, seen, cur, row, stopping, faults>>

\* ListActive; the pass ends at once when nothing is active.
ListActive(c) ==
    LET active == {o \in Ids : status[o] = "active"} IN
    /\ pc[c] = "idle" /\ active # {}
    /\ pc' = [pc EXCEPT ![c] = "price"]
    /\ todo' = [todo EXCEPT ![c] = active]
    /\ snap' = [snap EXCEPT ![c] = peak]
    /\ UNCHANGED <<table, orders, executed, env, seen, cur, row, stopping, faults>>

\* GetLivePrices: one batch for the whole pass.
GetLivePrices(c) ==
    /\ pc[c] = "price"
    /\ pc' = [pc EXCEPT ![c] = "loop"]
    /\ seen' = [seen EXCEPT ![c] = market]
    /\ UNCHANGED <<table, orders, executed, env, todo, snap, cur, row, stopping, faults>>

\* The order the loop looks at: ListActive sorts by id.
Heads(c) == {o \in todo[c] : \A p \in todo[c] : o <= p}

\* The loop is over, or ctx is done: the pass ends.
Leave(c) ==
    /\ pc[c] = "loop" /\ (todo[c] = {} \/ stopping)
    /\ pc' = [pc EXCEPT ![c] = "idle"]
    /\ todo' = [todo EXCEPT ![c] = {}]
    /\ snap' = [snap EXCEPT ![c] = NoPeaks]
    /\ seen' = [seen EXCEPT ![c] = NoPrices]
    /\ UNCHANGED <<table, orders, executed, env, cur, row, stopping, faults>>

\* Faulty variant: a missing price ends the pass ("return" for "continue").
SkipEndsPass(c) ==
    /\ pc[c] = "loop" /\ ~stopping
    /\ \E o \in Heads(c) : seen[c][req[o].symbol] = 0
    /\ todo' = [todo EXCEPT ![c] = {}]
    /\ UNCHANGED <<table, orders, executed, env, pc, snap, seen, cur, row, stopping, faults>>

\* No price for the symbol: continue with the next order.
Skip(c) ==
    /\ pc[c] = "loop" /\ ~stopping
    /\ \E o \in Heads(c) :
        /\ seen[c][req[o].symbol] = 0
        /\ todo' = [todo EXCEPT ![c] = @ \ {o}]
    /\ UNCHANGED <<table, orders, executed, env, pc, snap, seen, cur, row, stopping, faults>>

\* checkTrigger on the snapshot, UpdatePeak on the row, then executeOrder or
\* the next order.
Examine(c, ok) ==
    /\ pc[c] = "loop" /\ ~stopping
    /\ \E o \in Heads(c) :
        LET price == seen[c][req[o].symbol]
            pk    == NewPeak(req[o], snap[c][o], price)
            fires == Fires(req[o], pk, price)
        IN  /\ price > 0
            /\ IF pk # snap[c][o]
               THEN /\ Write(ok)
                    /\ peak' = IF ok THEN [peak EXCEPT ![o] = pk] ELSE peak
               ELSE ok /\ UNCHANGED <<peak, faults>>
            /\ todo' = [todo EXCEPT ![c] = @ \ {o}]
            /\ pc' = [pc EXCEPT ![c] = IF fires THEN "creds" ELSE "loop"]
            /\ cur' = [cur EXCEPT ![c] = IF fires THEN o ELSE 0]
    /\ UNCHANGED <<status, req, trigBy, orders, executed, env, snap, seen, row, stopping>>

-----------------------------------------------------------------------------
(***************************************************************************)
(* executeOrder.                                                           *)
(***************************************************************************)

\* Credentials are found and decrypt, the exchange is known and is a Trader;
\* or one of these fails.
Credentials(c) ==
    /\ pc[c] = "creds"
    /\ \E next \in {"create", "fail"} : pc' = [pc EXCEPT ![c] = next]
    /\ UNCHANGED <<table, orders, executed, env, todo, snap, seen, cur, row, stopping, faults>>

\* Faulty variant: the row is remembered although the INSERT failed.
CreateOrderDangling(c, ok) ==
    /\ pc[c] = "create"
    /\ Write(ok)
    /\ orders' = IF ok THEN Append(orders, [smart |-> cur[c], status |-> "new"]) ELSE orders
    /\ row' = [row EXCEPT ![c] = Len(orders) + 1]
    /\ pc' = [pc EXCEPT ![c] = "place"]
    /\ UNCHANGED <<table, executed, env, todo, snap, seen, cur, stopping>>

\* orders.Create with status new, before the exchange is called.
CreateOrder(c, ok) ==
    /\ pc[c] = "create"
    /\ Write(ok)
    /\ IF ok THEN /\ orders' = Append(orders, [smart |-> cur[c], status |-> "new"])
                  /\ row' = [row EXCEPT ![c] = Len(orders) + 1]
                  /\ pc' = [pc EXCEPT ![c] = "place"]
             ELSE /\ pc' = [pc EXCEPT ![c] = "fail"]
                  /\ UNCHANGED <<orders, row>>
    /\ UNCHANGED <<table, executed, env, todo, snap, seen, cur, stopping>>

\* trader.PlaceOrder, as the exchange sees it (accepted) and as the caller
\* does (ok).
PlaceOrder(c, accepted, ok) ==
    /\ pc[c] = "place"
    /\ accepted # ok => accepted /\ LostReplies
    /\ executed' = IF accepted THEN [executed EXCEPT ![<<cur[c], c>>] = @ + 1] ELSE executed
    /\ pc' = [pc EXCEPT ![c] = IF ok THEN "record" ELSE "reject"]
    /\ UNCHANGED <<table, orders, env, todo, snap, seen, cur, row, stopping, faults>>

\* orders.UpdateStatus with the status the exchange answered.
UpdateStatus(c, ok) ==
    /\ pc[c] = "record"
    /\ Write(ok)
    /\ \E s \in {"new", "filled"} :
        orders' = IF ok THEN [orders EXCEPT ![row[c]].status = s] ELSE orders
    /\ pc' = [pc EXCEPT ![c] = "mark"]
    /\ UNCHANGED <<table, executed, env, todo, snap, seen, cur, row, stopping>>

\* executeOrder returns to the loop of CheckAndTrigger.
Return(c) ==
    /\ pc' = [pc EXCEPT ![c] = "loop"]
    /\ cur' = [cur EXCEPT ![c] = 0]
    /\ row' = [row EXCEPT ![c] = 0]

\* Faulty variant: the row stays active after its market order.
MarkTriggeredKeepsActive(c, ok) ==
    /\ pc[c] = "mark"
    /\ Write(ok)
    /\ trigBy' = IF ok THEN [trigBy EXCEPT ![cur[c]] = row[c]] ELSE trigBy
    /\ Return(c)
    /\ UNCHANGED <<status, req, peak, orders, executed, env, todo, snap, seen, stopping>>

\* smartOrders.MarkTriggered: unconditional, whatever the status is by now.
MarkTriggered(c, ok) ==
    /\ pc[c] = "mark"
    /\ Write(ok)
    /\ status' = IF ok THEN [status EXCEPT ![cur[c]] = "triggered"] ELSE status
    /\ trigBy' = IF ok THEN [trigBy EXCEPT ![cur[c]] = row[c]] ELSE trigBy
    /\ Return(c)
    /\ UNCHANGED <<req, peak, orders, executed, env, todo, snap, seen, stopping>>

\* Faulty variant: a refused order is recorded but the smart order triggers.
RejectOrderThenMark(c, ok) ==
    /\ pc[c] = "reject"
    /\ Write(ok)
    /\ orders' = IF ok THEN [orders EXCEPT ![row[c]].status = "rejected"] ELSE orders
    /\ pc' = [pc EXCEPT ![c] = "mark"]
    /\ UNCHANGED <<table, executed, env, todo, snap, seen, cur, row, stopping>>

\* orders.MarkFailed after an error of PlaceOrder.
RejectOrder(c, ok) ==
    /\ pc[c] = "reject"
    /\ Write(ok)
    /\ orders' = IF ok THEN [orders EXCEPT ![row[c]].status = "rejected"] ELSE orders
    /\ pc' = [pc EXCEPT ![c] = "fail"]
    /\ UNCHANGED <<table, executed, env, todo, snap, seen, cur, row, stopping>>

\* smartOrders.MarkFailed: unconditional too.
MarkFailed(c, ok) ==
    /\ pc[c] = "fail"
    /\ Write(ok)
    /\ status' = IF ok THEN [status EXCEPT ![cur[c]] = "failed"] ELSE status
    /\ Return(c)
    /\ UNCHANGED <<req, peak, trigBy, orders, executed, env, todo, snap, seen, stopping>>

-----------------------------------------------------------------------------
(***************************************************************************)
(* The process: SIGTERM cancels ctx, and the process ends (or is killed)   *)
(* without waiting for its jobs.  A restart announced by SIGTERM is        *)
(* counted when the signal arrives.                                        *)
(***************************************************************************)

Shutdown ==
    /\ ~stopping /\ faults < MaxFaults
    /\ stopping' = TRUE
    /\ faults' = faults + 1
    /\ UNCHANGED <<table, orders, executed, env, local>>

Restart ==
    /\ stopping \/ faults < MaxFaults
    /\ faults' = IF stopping THEN faults ELSE faults + 1
    /\ stopping' = FALSE
    /\ pc' = [c \in Checkers |-> "idle"]
    /\ todo' = [c \in Checkers |-> {}]
    /\ snap' = [c \in Checkers |-> NoPeaks]
    /\ seen' = [c \in Checkers |-> NoPrices]
    /\ cur' = [c \in Checkers |-> 0]
    /\ row' = [c \in Checkers |-> 0]
    /\ UNCHANGED <<table, orders, executed, env>>

Step(c) ==
    \/ ListActive(c) \/ GetLivePrices(c) \/ Leave(c) \/ Skip(c) \/ Credentials(c)
    \/ \E ok \in BOOLEAN :
        \/ Examine(c, ok) \/ CreateOrder(c, ok) \/ UpdateStatus(c, ok)
        \/ MarkTriggered(c, ok) \/ RejectOrder(c, ok) \/ MarkFailed(c, ok)
        \/ \E accepted \in BOOLEAN : PlaceOrder(c, accepted, ok)

Next ==
    \/ \E o \in Ids : Cancel(o) \/ \E r \in Requests : Create(o, r)
    \/ \E s \in Symbols, p \in Prices \cup {0} : PriceMove(s, p)
    \/ \E c \in Checkers : Step(c)
    \/ Shutdown
    \/ Restart

Spec == Init /\ [][Next]_vars

(***************************************************************************)
(* The scheduler's ticker and the NATS callback keep calling a checker,    *)
(* which never blocks, and a stopped process is started again.  The user   *)
(* and the market owe nothing.                                             *)
(***************************************************************************)
FairSpec ==
    /\ Spec
    /\ \A c \in Checkers : WF_vars(Step(c))
    /\ WF_vars(stopping /\ Restart)

-----------------------------------------------------------------------------
(***************************************************************************)
(* Safety.                                                                 *)
(***************************************************************************)

Executing == {"creds", "create", "place", "record", "mark", "reject", "fail"}
HoldsRow  == {"place", "record", "mark", "reject"}

\* A pass works on rows that exist: it examines and executes only orders that
\* were created, and the orders row it is about to write belongs to the smart
\* order it executes, is no other checker's, and is not yet refused.
PassOK ==
    /\ \A o \in Ids : status[o] # "none" => req[o] \in Requests
    /\ \A c \in Checkers :
        /\ \A o \in todo[c] : status[o] # "none"
        /\ pc[c] \in Executing => cur[c] \in Ids /\ status[cur[c]] # "none"
        /\ pc[c] \in HoldsRow =>
            /\ row[c] \in DOMAIN orders
            /\ orders[row[c]] \in [smart : {cur[c]}, status : {"new", "filled"}]
            /\ \A d \in Checkers \ {c} : row[d] # row[c]

\* No checker sells twice for one smart order, except that each restart and
\* each lost write (a process ended between PlaceOrder and MarkTriggered, or a
\* MarkTriggered that failed) may cost one repetition.
AtMostOncePerChecker ==
    \A o \in Ids, c \in Checkers : executed[<<o, c>>] <= 1 + faults

\* While nothing has failed, one smart order leads to one market order at most,
\* whichever goroutines look at it.
ExecutedOnce ==
    faults = 0 =>
        \A o \in Ids : \A c, d \in Checkers :
            executed[<<o, c>>] > 0 /\ executed[<<o, d>>] > 0 => c = d /\ executed[<<o, c>>] = 1

\* A triggered order names an orders row of its own, one no exchange refused.
TriggeredHasOrder ==
    \A o \in Ids : status[o] = "triggered" =>
        /\ trigBy[o] > 0
        /\ orders[trigBy[o]].smart = o
        /\ orders[trigBy[o]].status # "rejected"

\* The market orders the exchange holds for smart order o, numbered per checker,
\* and the rows the orders table has for it.
Executions(o) == UNION {{c} \X (1..executed[<<o, c>>]) : c \in Checkers}
Rows(o)       == {i \in DOMAIN orders : orders[i].smart = o}

\* The exchange never holds more market orders of a smart order than the orders
\* table has rows for it: the INSERT precedes the call on every path, restarts
\* and lost answers included ("a record is always in the database").
EveryExecutionHasRow ==
    \A o \in Ids : Cardinality(Executions(o)) <= Cardinality(Rows(o))

(***************************************************************************)
(* The promise of one order, as one checker keeps it.  An order is being   *)
(* executed from the moment the checker has decided to until it has its    *)
(* answer from the exchange; a cancel takes effect when the pass that has  *)
(* the order on its list is past it.                                       *)
(***************************************************************************)
Life(o) ==
    IF \E c \in Checkers : cur[c] = o /\ pc[c] \in {"record", "mark"} THEN "triggered"
    ELSE IF \E c \in Checkers : cur[c] = o THEN "executing"
    ELSE IF \E c \in Checkers : o \in todo[c] /\ status[o] = "cancelled" THEN "active"
    ELSE status[o]

Promise ==
    INSTANCE OneShot WITH
        Agents <- Checkers,
        life   <- [o \in Ids |-> Life(o)],
        placed <- executed,
        failed <- faults > 0

\* While nothing has failed, one checker keeps the promise: an order leads to at
\* most one market order, it is triggered exactly when there is one, an end is
\* final, and so is a cancel that no pass overlaps.
KeepsPromise == Promise!Spec

-----------------------------------------------------------------------------
(***************************************************************************)
(* What a step may never do.                                               *)
(***************************************************************************)

\* peak_price is the highest (sell) or lowest (buy) price known: it never
\* moves the other way.
PeakMoves(o) ==
    IF req[o].type = "trailing_stop" /\ req[o].side = "buy"
    THEN peak[o] # 0 => peak'[o] # 0 /\ peak'[o] <= peak[o]
    ELSE peak'[o] >= peak[o]

PeakIsExtreme == [][\A o \in Ids : PeakMoves(o)]_vars

\* A cancelled order that no pass has on its list.
Gone(o) == status[o] = "cancelled" /\ \A c \in Checkers : o \notin todo[c] /\ cur[c] # o

\* A cancel that no pass overlaps, or whose pass is over, is final.  (One that
\* a pass overlaps is not: MarkTriggered and MarkFailed overwrite it.)
CancelIsFinal == [][\A o \in Ids : Gone(o) => Gone(o)']_vars

-----------------------------------------------------------------------------
(***************************************************************************)
(* Liveness.                                                               *)
(***************************************************************************)

\* The market is at a price at which the order must be executed.
Crossed(o) ==
    /\ status[o] = "active"
    /\ LET price == market[req[o].symbol]
       IN  price > 0 /\ Fires(req[o], NewPeak(req[o], peak[o], price), price)

\* An active order does not stay beyond its trigger for ever: a checker
\* executes it (or the market comes back, or the user cancels), whatever the
\* other orders of the pass do and whatever prices are missing.
CrossedIsServed == \A o \in Ids : []<>~Crossed(o)
=============================================================================
