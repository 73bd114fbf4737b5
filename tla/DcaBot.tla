------------------------------- MODULE DcaBot -------------------------------
(***************************************************************************)
(* DCA bots: DCAService.Start and Stop and DCAHandler.Delete, run by HTTP  *)
(* goroutines, and CheckAndBuy, run by the 5 min job, over the rows of     *)
(* dca_bots.  Every database call and every exchange call is a step of     *)
(* its own.  Time is counted in ticks of the check interval.               *)
(***************************************************************************)
EXTENDS Integers

CONSTANTS
    Bots,        \* ids of dca_bots rows
    Handlers,    \* HTTP goroutines that serve /api/dca requests
    Checkers,    \* goroutines that run CheckAndBuy: the job
    Interval,    \* interval_hours of every bot, in ticks
    MaxStarts,   \* bound on start requests
    MaxStops,    \* bound on stop and delete requests
    MaxTime,     \* bound on the clock
    MaxFaults,   \* bound on failed writes, lost answers and restarts
    None         \* no bot

ASSUME ProcsAssumption == Handlers \cap Checkers = {} /\ None \notin Bots
ASSUME IntervalAssumption == Interval \in Nat \ {0}
ASSUME BoundsAssumption ==
    MaxStarts \in Nat /\ MaxStops \in Nat /\ MaxTime \in Nat /\ MaxFaults \in Nat

Procs == Handlers \cup Checkers

VARIABLES
    status,    \* dca_bots.status
    nextBuy,   \* dca_bots.next_buy_at
    invested,  \* dca_bots.total_invested, in units of amount_usd
    placed,    \* dca_bots.orders_placed
    bought,    \* market buys the exchange accepted, per bot
    lastBuy,   \* when it accepted the last one, -1 for never
    now,       \* the clock
    pc,        \* where each goroutine is
    todo,      \* due bots the pass has still to go through
    bot,       \* the bot a goroutine works on
    plan,      \* nextBuyAt, as it has computed it
    starts,    \* start requests so far
    stops,     \* stop and delete requests so far
    faults     \* failed writes, lost answers and restarts so far

table == <<status, nextBuy, invested, placed>>
exch  == <<bought, lastBuy>>
local == <<pc, todo, bot, plan>>
users == <<starts, stops>>
vars  == <<table, exch, now, local, users, faults>>

Steps == {"idle", "plan", "activate", "halt", "loop", "price", "place", "record", "fail"}

(***************************************************************************)
(* A purchase is never planned more than an interval ahead.                *)
(***************************************************************************)
TypeOK ==
    /\ status \in [Bots -> {"running", "stopped"}]
    /\ now \in 0..MaxTime
    /\ nextBuy \in [Bots -> 0..(now + Interval)]
    /\ invested \in [Bots -> Nat]
    /\ placed \in [Bots -> Nat]
    /\ bought \in [Bots -> Nat]
    /\ lastBuy \in [Bots -> -1..now]
    /\ pc \in [Procs -> Steps]
    /\ todo \in [Procs -> SUBSET Bots]
    /\ bot \in [Procs -> Bots \cup {None}]
    /\ plan \in [Procs -> 0..(now + Interval)]
    /\ starts \in 0..MaxStarts
    /\ stops \in 0..MaxStops
    /\ faults \in 0..MaxFaults

\* Bots as DCAHandler.Create inserts them.
Init ==
    /\ status = [b \in Bots |-> "stopped"]
    /\ nextBuy = [b \in Bots |-> Interval]
    /\ invested = [b \in Bots |-> 0]
    /\ placed = [b \in Bots |-> 0]
    /\ bought = [b \in Bots |-> 0]
    /\ lastBuy = [b \in Bots |-> -1]
    /\ now = 0
    /\ pc = [p \in Procs |-> "idle"]
    /\ todo = [p \in Procs |-> {}]
    /\ bot = [p \in Procs |-> None]
    /\ plan = [p \in Procs |-> 0]
    /\ starts = 0
    /\ stops = 0
    /\ faults = 0

-----------------------------------------------------------------------------
\* A call succeeds (ok) or fails; a failed write does not happen.
Call(ok) ==
    /\ ok \/ faults < MaxFaults
    /\ faults' = IF ok THEN faults ELSE faults + 1

Goto(p, step) == pc' = [pc EXCEPT ![p] = step]

\* The goroutine has dealt with its bot.
Done(p, step) ==
    /\ Goto(p, step)
    /\ bot' = [bot EXCEPT ![p] = None]
    /\ plan' = [plan EXCEPT ![p] = 0]
    /\ UNCHANGED todo

SetStatus(b, s, ok) ==
    /\ Call(ok)
    /\ status' = IF ok THEN [status EXCEPT ![b] = s] ELSE status
    /\ UNCHANGED <<nextBuy, invested, placed>>

\* Faulty variant: the next purchase is an interval after the planned one.
RecordBuyLate(p, amount, ok) ==
    LET b == bot[p] IN
    /\ Call(ok)
    /\ IF ok THEN /\ nextBuy' = [nextBuy EXCEPT ![b] = plan[p] + Interval]
                  /\ invested' = [invested EXCEPT ![b] = @ + amount]
                  /\ placed' = [placed EXCEPT ![b] = @ + 1]
             ELSE UNCHANGED <<nextBuy, invested, placed>>
    /\ UNCHANGED status

\* Faulty variant: the statistics are updated, the next purchase is not.
RecordBuyNow(p, amount, ok) ==
    LET b == bot[p] IN
    /\ Call(ok)
    /\ IF ok THEN /\ invested' = [invested EXCEPT ![b] = @ + amount]
                  /\ placed' = [placed EXCEPT ![b] = @ + 1]
             ELSE UNCHANGED <<invested, placed>>
    /\ UNCHANGED <<status, nextBuy>>

\* RecordBuy adds to the statistics and sets next_buy_at, in one UPDATE.
RecordBuy(p, amount, ok) ==
    LET b == bot[p] IN
    /\ Call(ok)
    /\ IF ok THEN /\ nextBuy' = [nextBuy EXCEPT ![b] = plan[p]]
                  /\ invested' = [invested EXCEPT ![b] = @ + amount]
                  /\ placed' = [placed EXCEPT ![b] = @ + 1]
             ELSE UNCHANGED <<nextBuy, invested, placed>>
    /\ UNCHANGED status

-----------------------------------------------------------------------------
(***************************************************************************)
(* Start, Stop, Delete.                                                    *)
(***************************************************************************)

\* The bot is read and is not running; nextBuyAt is computed.
RequestStart(h, b, buyNow) ==
    /\ pc[h] = "idle" /\ starts < MaxStarts /\ status[b] # "running"
    /\ starts' = starts + 1
    /\ Goto(h, "plan")
    /\ bot' = [bot EXCEPT ![h] = b]
    /\ plan' = [plan EXCEPT ![h] = IF buyNow THEN now ELSE now + Interval]
    /\ UNCHANGED <<table, exch, now, todo, stops, faults>>

\* Faulty variant: a start counts as a purchase.
PlanCounts(h, ok) ==
    /\ pc[h] = "plan"
    /\ RecordBuy(h, 1, ok)
    /\ IF ok THEN Goto(h, "activate") /\ UNCHANGED <<todo, bot, plan>>
             ELSE Done(h, "idle")
    /\ UNCHANGED <<exch, now, users>>

\* RecordBuy with no amount, to set next_buy_at; an error ends the request.
Plan(h, ok) ==
    /\ pc[h] = "plan"
    /\ RecordBuy(h, 0, ok)
    /\ IF ok THEN Goto(h, "activate") /\ UNCHANGED <<todo, bot, plan>>
             ELSE Done(h, "idle")
    /\ UNCHANGED <<exch, now, users>>

Activate(h, ok) ==
    /\ pc[h] = "activate"
    /\ SetStatus(bot[h], "running", ok)
    /\ Done(h, "idle")
    /\ UNCHANGED <<exch, now, users>>

\* Stop reads a running bot, Delete one that is not; both then set stopped.
RequestHalt(h, b) ==
    /\ pc[h] = "idle" /\ stops < MaxStops
    /\ stops' = stops + 1
    /\ Goto(h, "halt")
    /\ bot' = [bot EXCEPT ![h] = b]
    /\ UNCHANGED <<table, exch, now, todo, plan, starts, faults>>

Halt(h, ok) ==
    /\ pc[h] = "halt"
    /\ SetStatus(bot[h], "stopped", ok)
    /\ Done(h, "idle")
    /\ UNCHANGED <<exch, now, users>>

-----------------------------------------------------------------------------
(***************************************************************************)
(* CheckAndBuy.                                                            *)
(***************************************************************************)

Due(b) == status[b] = "running" /\ nextBuy[b] <= now

ListDue(c) ==
    /\ pc[c] = "idle" /\ \E b \in Bots : Due(b)
    /\ todo' = [todo EXCEPT ![c] = {b \in Bots : Due(b)}]
    /\ Goto(c, "loop")
    /\ UNCHANGED <<table, exch, now, bot, plan, users, faults>>

\* executeBuy of one of the bots listed; the query has no ORDER BY.
NextBot(c) ==
    /\ pc[c] = "loop"
    /\ \E b \in todo[c] :
        /\ todo' = [todo EXCEPT ![c] = @ \ {b}]
        /\ bot' = [bot EXCEPT ![c] = b]
    /\ Goto(c, "price")
    /\ UNCHANGED <<table, exch, now, plan, users, faults>>

Leave(c) ==
    /\ pc[c] = "loop" /\ todo[c] = {}
    /\ Goto(c, "idle")
    /\ UNCHANGED <<table, exch, now, todo, bot, plan, users, faults>>

\* There is a price, credentials and a trader; or one is missing.
Prepare(c) ==
    /\ pc[c] = "price"
    /\ \E step \in {"place", "fail"} : Goto(c, step)
    /\ UNCHANGED <<table, exch, now, todo, bot, plan, users, faults>>

\* trader.PlaceOrder is accepted, refused, or accepted with the answer lost;
\* the next purchase is planned from the time of the answer.
Replies == {"ok", "refused", "lost"}

PlaceOrder(c, reply) ==
    LET b == bot[c] IN
    /\ pc[c] = "place"
    /\ Call(reply # "lost")
    /\ IF reply = "refused" THEN UNCHANGED exch
       ELSE /\ bought' = [bought EXCEPT ![b] = @ + 1]
            /\ lastBuy' = [lastBuy EXCEPT ![b] = now]
    /\ plan' = [plan EXCEPT ![c] = IF reply = "ok" THEN now + Interval ELSE 0]
    /\ Goto(c, IF reply = "ok" THEN "record" ELSE "fail")
    /\ UNCHANGED <<table, now, todo, bot, users>>

\* An error of RecordBuy is only logged.
Record(c, ok) ==
    /\ pc[c] = "record"
    /\ RecordBuy(c, 1, ok)
    /\ Done(c, "loop")
    /\ UNCHANGED <<exch, now, users>>

\* Faulty variant: the error is logged, the bot stays running and due.
FailLogged(c, ok) ==
    /\ pc[c] = "fail"
    /\ ok
    /\ Done(c, "loop")
    /\ UNCHANGED <<table, exch, now, users, faults>>

\* Whatever went wrong, the bot is stopped, whoever has restarted it meanwhile.
Fail(c, ok) ==
    /\ pc[c] = "fail"
    /\ SetStatus(bot[c], "stopped", ok)
    /\ Done(c, "loop")
    /\ UNCHANGED <<exch, now, users>>

-----------------------------------------------------------------------------
Tick ==
    /\ now < MaxTime
    /\ now' = now + 1
    /\ UNCHANGED <<table, exch, local, users, faults>>

\* The process ends or is killed wherever its goroutines are, and comes back.
\* (A pass that sees ctx cancelled between two bots ends like this, too.)
Restart ==
    /\ faults < MaxFaults
    /\ faults' = faults + 1
    /\ pc' = [p \in Procs |-> "idle"]
    /\ todo' = [p \in Procs |-> {}]
    /\ bot' = [p \in Procs |-> None]
    /\ plan' = [p \in Procs |-> 0]
    /\ UNCHANGED <<table, exch, now, users>>

Serve(h) ==
    \/ \E b \in Bots : RequestHalt(h, b) \/ \E buyNow \in BOOLEAN : RequestStart(h, b, buyNow)
    \/ \E ok \in BOOLEAN : Plan(h, ok) \/ Activate(h, ok) \/ Halt(h, ok)

CheckAndBuy(c) ==
    \/ ListDue(c) \/ NextBot(c) \/ Leave(c) \/ Prepare(c)
    \/ \E reply \in Replies : PlaceOrder(c, reply)
    \/ \E ok \in BOOLEAN : Record(c, ok) \/ Fail(c, ok)

Next ==
    \/ \E h \in Handlers : Serve(h)
    \/ \E c \in Checkers : CheckAndBuy(c)
    \/ Tick
    \/ Restart

Spec == Init /\ [][Next]_vars

\* The scheduler calls CheckAndBuy again and again.
FairSpec == Spec /\ \A c \in Checkers : WF_vars(CheckAndBuy(c))

-----------------------------------------------------------------------------
(***************************************************************************)
(* Properties.                                                             *)
(***************************************************************************)

\* A purchase the exchange has accepted and RecordBuy has not yet written.
Unwritten(b) == \E c \in Checkers : pc[c] = "record" /\ bot[c] = b

\* total_invested never counts a purchase that did not happen, and misses one
\* only while it is being written or after a failure.
InvestedIsSpent ==
    \A b \in Bots :
        /\ invested[b] <= bought[b]
        /\ bought[b] <= invested[b] + faults + (IF Unwritten(b) THEN 1 ELSE 0)

\* A bot buys once per interval: more purchases than the intervals gone by
\* come from a start that asks to buy at once or from a failure, one from each,
\* however requests, the clock and a slow pass overlap.
BuysPaced ==
    \A b \in Bots : bought[b] <= starts + faults + now \div Interval

\* A due bot does not stay due for ever: it is bought for, or stopped.
DueIsServed == \A b \in Bots : []<>~Due(b)
=============================================================================
