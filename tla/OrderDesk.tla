----------------------------- MODULE OrderDesk ------------------------------
(***************************************************************************)
(* POST, GET and DELETE /api/orders: OrderHandler over the orders table    *)
(* and an exchange it reaches through doRequest, which sends a request     *)
(* again after a transport error or a 429.  Any number of handlers work on *)
(* the same rows, each database statement and each HTTP attempt a step.    *)
(*                                                                         *)
(* An exchange order is named by the row it was sent for and the attempt   *)
(* that placed it.  Quantities are 0, 1 (a part) and 2 (all).              *)
(***************************************************************************)
EXTENDS Integers, FiniteSets

CONSTANTS
    Rows,        \* ids of orders rows, one for each POST
    Requests,    \* GET and DELETE handlers
    Retries,     \* length of retryDelays
    Failures,    \* what may go wrong, see Failing
    MaxFailures, \* bound on lost answers, failed statements and restarts together
    None         \* no exchange order id

Attempts == 0..Retries
Ids      == Rows \X Attempts

\* An attempt is refused (>= 400, or an error code in the body), limited (429),
\* lost on its way, unanswered (carried out, the answer lost), torn (carried
\* out, the answer cannot be read); a statement may fail; the process may stop.
Failing == {"refused", "limit", "lost", "unanswered", "torn", "write", "crash"}

ASSUME RetriesAssumption  == Retries \in Nat
ASSUME FailuresAssumption == Failures \subseteq Failing /\ MaxFailures \in Nat
ASSUME NoneAssumption     == None \notin Ids

VARIABLES
    row,       \* the table
    orders,    \* the exchange's orders
    place,     \* POST handlers
    request,   \* GET and DELETE handlers
    lost,      \* requests carried out whose answer was lost
    failures   \* failed statements and restarts

faults == <<lost, failures>>
vars   == <<row, orders, place, request, faults>>

Statuses == {"new", "partial", "filled", "cancelled"}
Fills    == 0..2
Order    == [status : Statuses, filled : Fills]
NoOrder  == [status |-> "none", filled |-> 0]
Row      == [status : Statuses \cup {"rejected"}, id : Ids \cup {None}, filled : Fills]
NoRow    == [status |-> "none", id |-> None, filled |-> 0]
NoPlace  == [at |-> "none", attempt |-> 0, answer |-> NoOrder]
Idle     == [at |-> "idle", kind |-> "get", row |-> None, seen |-> NoRow,
             attempt |-> 0, answer |-> NoOrder]

TypeOK ==
    /\ row \in [Rows -> Row \cup {NoRow}]
    /\ orders \in [Ids -> Order \cup {NoOrder}]
    /\ place \in [Rows -> [at : {"none", "send", "update", "reject", "done"},
                           attempt : Attempts, answer : Order \cup {NoOrder}]]
    /\ request \in [Requests -> {Idle} \cup
            [at : {"send", "write"}, kind : {"get", "cancel"}, row : Rows, seen : Row,
             attempt : Attempts, answer : Order \cup {NoOrder}]]
    /\ lost \in 0..MaxFailures /\ failures \in 0..MaxFailures
    /\ \A r \in Rows : row[r].id # None => row[r].id[1] = r /\ orders[row[r].id] # NoOrder

Init ==
    /\ row = [r \in Rows |-> NoRow]
    /\ orders = [i \in Ids |-> NoOrder]
    /\ place = [r \in Rows |-> NoPlace]
    /\ request = [q \in Requests |-> Idle]
    /\ lost = 0 /\ failures = 0

-----------------------------------------------------------------------------
(***************************************************************************)
(* The exchange.                                                           *)
(***************************************************************************)

Live(o) == o.status \in {"new", "partial"}

Fill(i) ==
    /\ Live(orders[i])
    /\ \E o \in {[status |-> "partial", filled |-> 1], [status |-> "filled", filled |-> 2]} :
        o # orders[i] /\ orders' = [orders EXCEPT ![i] = o]
    /\ UNCHANGED <<row, place, request, faults>>

\* The exchange, or the user there, cancels an order.
Withdraw(i) ==
    /\ Live(orders[i])
    /\ orders' = [orders EXCEPT ![i].status = "cancelled"]
    /\ UNCHANGED <<row, place, request, faults>>

-----------------------------------------------------------------------------
(***************************************************************************)
(* Attempts and statements.                                                *)
(***************************************************************************)

Outcomes  == {"ok"} \cup (Failures \cap {"refused", "limit", "lost", "unanswered", "torn"})
Written   == {TRUE} \cup (IF "write" \in Failures THEN {FALSE} ELSE {})
CarriedOut(outcome) == outcome \in {"ok", "unanswered", "torn"}

\* A statement that fails, and an answer that is lost, are counted.
Count(failed) ==
    /\ failed => lost + failures < MaxFailures
    /\ failures' = IF failed THEN failures + 1 ELSE failures
    /\ UNCHANGED lost

CountOutcome(outcome) ==
    LET gone == outcome \in {"unanswered", "torn"} IN
    /\ gone => lost + failures < MaxFailures
    /\ lost' = IF gone THEN lost + 1 ELSE lost
    /\ UNCHANGED failures

\* doRequest tries again after a 429 or a transport error.
Again(outcome, attempt) == outcome \in {"limit", "lost", "unanswered"} /\ attempt < Retries

-----------------------------------------------------------------------------
(***************************************************************************)
(* POST /api/orders.                                                       *)
(***************************************************************************)

Create(r) ==
    /\ place[r].at = "none"
    /\ row' = [row EXCEPT ![r] = [status |-> "new", id |-> None, filled |-> 0]]
    /\ place' = [place EXCEPT ![r].at = "send"]
    /\ UNCHANGED <<orders, request, faults>>

\* What PlaceOrder answers: Binance the order as it is, OKX and Bybit "new".
Answers(o) == {o, [status |-> "new", filled |-> 0]}

Send(r, outcome) ==
    LET i == <<r, place[r].attempt>> IN
    /\ place[r].at = "send"
    /\ CountOutcome(outcome)
    /\ \E o \in {[status |-> "new", filled |-> 0], [status |-> "filled", filled |-> 2]} :
        /\ orders' = IF CarriedOut(outcome) THEN [orders EXCEPT ![i] = o] ELSE orders
        /\ IF outcome = "ok"
           THEN \E a \in Answers(o) :
                place' = [place EXCEPT ![r].at = "update", ![r].answer = a]
           ELSE IF Again(outcome, place[r].attempt)
           THEN place' = [place EXCEPT ![r].attempt = @ + 1]
           ELSE place' = [place EXCEPT ![r].at = "reject"]
    /\ UNCHANGED <<row, request>>

\* Faulty variant: a row that could not be updated is marked as failed.
UpdateOrReject(r, written) ==
    /\ place[r].at = "update"
    /\ Count(~written)
    /\ row' = IF ~written THEN row
              ELSE [row EXCEPT ![r] = [status |-> place[r].answer.status, filled |-> place[r].answer.filled,
                                       id |-> <<r, place[r].attempt>>]]
    /\ place' = [place EXCEPT ![r].at = IF written THEN "done" ELSE "reject"]
    /\ UNCHANGED <<orders, request>>

\* UpdateStatus; its error is ignored.
Update(r, written) ==
    /\ place[r].at = "update"
    /\ Count(~written)
    /\ row' = IF ~written THEN row
              ELSE [row EXCEPT ![r] = [status |-> place[r].answer.status, filled |-> place[r].answer.filled,
                                       id |-> <<r, place[r].attempt>>]]
    /\ place' = [place EXCEPT ![r].at = "done"]
    /\ UNCHANGED <<orders, request>>

\* MarkFailed; its error is ignored.
Reject(r, written) ==
    /\ place[r].at = "reject"
    /\ Count(~written)
    /\ row' = IF written THEN [row EXCEPT ![r].status = "rejected"] ELSE row
    /\ place' = [place EXCEPT ![r].at = "done"]
    /\ UNCHANGED <<orders, request>>

-----------------------------------------------------------------------------
(***************************************************************************)
(* GET and DELETE /api/orders/:id.                                         *)
(***************************************************************************)

\* GetByID, and the early returns.
Read(q, kind, r) ==
    /\ request[q] = Idle /\ row[r] # NoRow
    /\ row[r].id # None
    /\ kind = "cancel" => row[r].status \notin {"filled", "cancelled"}
    /\ request' = [request EXCEPT ![q] = [Idle EXCEPT !.at = "send", !.kind = kind, !.row = r, !.seen = row[r]]]
    /\ UNCHANGED <<row, orders, place, faults>>

\* Faulty variant: the error of CancelOrder is ignored, as that of UpdateStatus.
GiveUpAndWrite(q) ==
    request' = [request EXCEPT ![q].at = "write", ![q].answer = [status |-> "cancelled", filled |-> 0]]

\* An error of the exchange: the handler returns and the row stays.
GiveUp(q) == request' = [request EXCEPT ![q] = Idle]

\* Faulty variant: the attempts start again after the last 429.
TryAgainForEver(q, outcome) ==
    IF outcome = "limit"
    THEN request' = [request EXCEPT ![q].attempt = (@ + 1) % (Retries + 1)]
    ELSE GiveUp(q)

TryAgain(q, outcome) ==
    IF Again(outcome, request[q].attempt)
    THEN request' = [request EXCEPT ![q].attempt = @ + 1]
    ELSE GiveUp(q)

\* GetOrderStatus.
Ask(q, outcome) ==
    /\ request[q].at = "send" /\ request[q].kind = "get" /\ request[q].seen.id # None
    /\ CountOutcome(outcome)
    /\ IF outcome = "ok"
       THEN request' = [request EXCEPT ![q].at = "write", ![q].answer = orders[request[q].seen.id]]
       ELSE TryAgain(q, outcome)
    /\ UNCHANGED <<row, orders, place>>

\* CancelOrder; the exchange refuses it for an order that is not live.  The
\* row is to keep the filled quantity it had.
Cancel(q, outcome) ==
    LET i == request[q].seen.id IN
    /\ request[q].at = "send" /\ request[q].kind = "cancel" /\ i # None
    /\ CountOutcome(outcome)
    /\ CarriedOut(outcome) => Live(orders[i])
    /\ orders' = IF CarriedOut(outcome) THEN [orders EXCEPT ![i].status = "cancelled"] ELSE orders
    /\ IF outcome = "ok"
       THEN request' = [request EXCEPT ![q].at = "write",
                            ![q].answer = [status |-> "cancelled", filled |-> request[q].seen.filled]]
       ELSE TryAgain(q, outcome)
    /\ UNCHANGED <<row, place>>

\* The refusal of an order that is not live.
CancelLate(q) ==
    /\ request[q].at = "send" /\ request[q].kind = "cancel" /\ request[q].seen.id # None
    /\ ~Live(orders[request[q].seen.id])
    /\ GiveUp(q)
    /\ UNCHANGED <<row, orders, place, faults>>

\* UpdateStatus, whatever the row says by now; its error is ignored.
Write(q, written) ==
    LET a == request[q].answer IN
    /\ request[q].at = "write"
    /\ Count(~written)
    /\ row' = IF ~written THEN row
              ELSE [row EXCEPT ![request[q].row] =
                        [status |-> a.status, filled |-> a.filled, id |-> request[q].seen.id]]
    /\ request' = [request EXCEPT ![q] = Idle]
    /\ UNCHANGED <<orders, place>>

-----------------------------------------------------------------------------
\* The process stops and comes back; nothing looks at unfinished orders.
Restart ==
    /\ "crash" \in Failures /\ Count(TRUE)
    /\ place' = [r \in Rows |-> [place[r] EXCEPT !.at = IF @ = "none" THEN @ ELSE "done"]]
    /\ request' = [q \in Requests |-> Idle]
    /\ UNCHANGED <<row, orders>>

PlaceOrder(r) ==
    \/ \E outcome \in Outcomes : Send(r, outcome)
    \/ \E written \in Written : Update(r, written) \/ Reject(r, written)

Serve(q) ==
    \/ \E outcome \in Outcomes : Ask(q, outcome) \/ Cancel(q, outcome)
    \/ CancelLate(q)
    \/ \E written \in Written : Write(q, written)

Next ==
    \/ \E r \in Rows : Create(r) \/ PlaceOrder(r)
    \/ \E q \in Requests : Serve(q)
    \/ \E q \in Requests, r \in Rows, kind \in {"get", "cancel"} : Read(q, kind, r)
    \/ \E i \in Ids : Fill(i) \/ Withdraw(i)
    \/ Restart

Spec == Init /\ [][Next]_vars

\* Every handler is a goroutine of its own and its calls have timeouts.
FairSpec ==
    /\ Spec
    /\ \A r \in Rows : WF_vars(PlaceOrder(r))
    /\ \A q \in Requests : WF_vars(Serve(q))

-----------------------------------------------------------------------------
(***************************************************************************)
(* Properties.                                                             *)
(***************************************************************************)

\* However late an answer is written, a row never tells of more than happened:
\* an order it has as filled or cancelled is, and its fills have taken place.
RowTellsNoMore ==
    \A r \in Rows : row[r].id # None =>
        /\ row[r].filled <= orders[row[r].id].filled
        /\ row[r].status \in {"filled", "cancelled"} => orders[row[r].id].status = row[r].status

\* Nobody else works on a row while its POST does.
PlaceIsAlone ==
    \A r \in Rows : place[r].at \in {"send", "update", "reject"} =>
        \A q \in Requests : request[q] # Idle => request[q].row # r

\* Typed, a POST has its row for itself, and rows tell of what happened only.
Inv == TypeOK /\ PlaceIsAlone /\ RowTellsNoMore

\* Orders on the exchange that were placed for a row.
Placed(r) == {a \in Attempts : orders[<<r, a>>] # NoOrder}

\* Retries, failed statements and restarts place no order by themselves: each
\* order beyond the one a POST asked for, and each order of a row that says
\* rejected, is one whose answer was lost.
OrdersAccountedFor ==
    \A r \in Rows :
        Cardinality(Placed(r)) <= lost + (IF row[r].status = "rejected" THEN 0 ELSE 1)

\* A request leads to one order on the exchange at most.
OneOrderPerRow == \A r \in Rows : Cardinality(Placed(r)) <= 1

\* Every request is answered, however often the exchange answers 429.
CallsEnd ==
    /\ \A r \in Rows : place[r].at = "send" ~> place[r].at = "done"
    /\ \A q \in Requests : request[q] # Idle ~> request[q] = Idle
=============================================================================
