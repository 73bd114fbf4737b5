-------------------------- MODULE OrderDeskProofs --------------------------
(***************************************************************************)
(* Proofs about OrderDesk, for any rows, handlers, retries and faults.     *)
(***************************************************************************)
EXTENDS OrderDesk, FiniteSetTheorems, TLAPS

(***************************************************************************)
(* An order on the exchange fills up, and ends once.                       *)
(***************************************************************************)
OrdersInv ==
    \A i \in Ids : /\ orders[i].status = "new" => orders[i].filled = 0
                   /\ orders[i].status = "partial" => orders[i].filled = 1

(***************************************************************************)
(* A POST has a row of its own, which names no order before it is done;    *)
(* what it is still to send is not on the exchange.                        *)
(***************************************************************************)
PlaceInv ==
    \A r \in Rows :
        /\ place[r].at = "none" <=> row[r] = NoRow
        /\ place[r].at = "none" => place[r].attempt = 0
        /\ place[r].at \in {"send", "update", "reject"} => row[r].status = "new"
        /\ row[r].id # None => place[r].at = "done" /\ row[r].status # "rejected"
        /\ place[r].at \in {"none", "send"} =>
            \A a \in Attempts : a >= place[r].attempt => orders[<<r, a>>] = NoOrder

\* What a handler has been told of an order is true of it, then and later.
Tells(a, i) ==
    /\ a \in Order /\ orders[i] \in Order
    /\ a.filled <= orders[i].filled
    /\ a.status \in {"filled", "cancelled"} => orders[i].status = a.status

PlaceTold == \A r \in Rows : place[r].at = "update" => Tells(place[r].answer, <<r, place[r].attempt>>)

(***************************************************************************)
(* A GET or DELETE works on the order of a row whose POST is done.         *)
(***************************************************************************)
Holds(q) ==
    LET i == request[q].seen.id IN
    /\ i \in Ids /\ i[1] = request[q].row
    /\ place[request[q].row].at = "done"
    /\ orders[i] \in Order /\ request[q].seen.filled <= orders[i].filled
    /\ request[q].at = "write" => Tells(request[q].answer, i)

RequestInv == \A q \in Requests : request[q] # Idle => Holds(q)

(***************************************************************************)
(* The inductive invariant.  TypeOK is not inductive: the order a row      *)
(* names is what some handler was told of.                                 *)
(***************************************************************************)
IInv == TypeOK /\ RowTellsNoMore /\ OrdersInv /\ PlaceInv /\ PlaceTold /\ RequestInv

\* Orders that no lost answer accounts for: the one the POST was told of.
Known(r) == IF place[r].at = "update" \/ (place[r].at = "done" /\ row[r].status # "rejected") THEN 1 ELSE 0
CountInv == \A r \in Rows : Cardinality(Placed(r)) <= lost + Known(r)

-----------------------------------------------------------------------------
(***************************************************************************)
(* The exchange.                                                           *)
(***************************************************************************)
LEMMA OrderTypes ==
    /\ NoOrder \notin Order
    /\ [status |-> "new", filled |-> 0] \in Order
    /\ [status |-> "partial", filled |-> 1] \in Order
    /\ [status |-> "filled", filled |-> 2] \in Order
    /\ \A o \in Order : [o EXCEPT !.status = "cancelled"] = [status |-> "cancelled", filled |-> o.filled]
    /\ \A o \in Order : o = [status |-> o.status, filled |-> o.filled] /\ o.status \in Statuses /\ o.filled \in Fills
    /\ \A st \in Statuses, f \in Fills : [status |-> st, filled |-> f] \in Order
BY DEF Order, NoOrder, Statuses, Fills

\* A step leaves an order alone, places it, or lets it fill up or end.
Kept(i) ==
    orders[i] \in Order =>
        /\ orders'[i] \in Order
        /\ orders[i].filled <= orders'[i].filled
        /\ orders[i].status \in {"filled", "cancelled"} => orders'[i].status = orders[i].status

LEMMA TellsStays ==
    ASSUME NEW a, NEW i \in Ids, Tells(a, i), Kept(i)
    PROVE  Tells(a, i)'
<1>1. a.filled \in Fills /\ orders[i].filled \in Fills /\ orders'[i].filled \in Fills
  BY OrderTypes DEF Tells, Kept
<1>2. a.filled <= orders'[i].filled
  BY <1>1 DEF Tells, Kept, Fills
<1>3. QED
  BY <1>2 DEF Tells, Kept

LEMMA OneOrder ==
    ASSUME TypeOK, OrdersInv, NEW i \in Ids, NEW o \in Order,
           orders' = [orders EXCEPT ![i] = o],
           o.status = "new" => o.filled = 0, o.status = "partial" => o.filled = 1,
           orders[i] \in Order =>
               /\ orders[i].filled <= o.filled
               /\ orders[i].status \in {"filled", "cancelled"} => o.status = orders[i].status
    PROVE  /\ orders' \in [Ids -> Order \cup {NoOrder}]
           /\ OrdersInv'
           /\ \A j \in Ids : Kept(j)
<1>1. orders' \in [Ids -> Order \cup {NoOrder}]
  BY DEF TypeOK
<1>2. orders'[i] = o /\ \A j \in Ids : j # i => orders'[j] = orders[j]
  BY DEF TypeOK
<1>3. \A j \in Ids : orders[j] \in Order => orders[j].filled \in Fills
  BY OrderTypes
<1>4. QED
  BY <1>1, <1>2, <1>3 DEF OrdersInv, Kept, Fills

LEMMA NoOrders ==
    ASSUME TypeOK, OrdersInv, UNCHANGED orders
    PROVE  /\ orders' \in [Ids -> Order \cup {NoOrder}]
           /\ OrdersInv'
           /\ \A j \in Ids : Kept(j)
<1>1. \A j \in Ids : orders[j] \in Order => orders[j].filled \in Fills
  BY OrderTypes
<1>2. QED
  BY <1>1 DEF TypeOK, OrdersInv, Kept, Fills

LEMMA StepOrders ==
    ASSUME IInv, [Next]_vars
    PROVE  /\ orders' \in [Ids -> Order \cup {NoOrder}]
           /\ OrdersInv'
           /\ \A i \in Ids : Kept(i)
           /\ \A i \in Ids : orders[i] = NoOrder /\ orders'[i] # NoOrder =>
                 place[i[1]].at = "send" /\ i[2] = place[i[1]].attempt
<1> DEFINE Goal == /\ orders' \in [Ids -> Order \cup {NoOrder}]
                   /\ OrdersInv'
                   /\ \A i \in Ids : Kept(i)
                   /\ \A i \in Ids : orders[i] = NoOrder /\ orders'[i] # NoOrder =>
                         place[i[1]].at = "send" /\ i[2] = place[i[1]].attempt
<1> SUFFICES Goal
  OBVIOUS
<1> USE DEF IInv
<1>1. ASSUME UNCHANGED orders
      PROVE  Goal
  BY <1>1, NoOrders
<1>2. ASSUME NEW i \in Ids, Fill(i)
      PROVE  Goal
  <2>1. orders[i] \in Order /\ Live(orders[i])
    BY <1>2, OrderTypes DEF Fill, Live, TypeOK, NoOrder
  <2>2. PICK o \in {[status |-> "partial", filled |-> 1], [status |-> "filled", filled |-> 2]} :
            o # orders[i] /\ orders' = [orders EXCEPT ![i] = o]
    BY <1>2 DEF Fill
  <2>3. o \in Order /\ o.status # "new" /\ (o.status = "partial" => o.filled = 1)
    BY <2>2, OrderTypes
  <2>4. orders[i] = [status |-> orders[i].status, filled |-> orders[i].filled]
    BY <2>1, OrderTypes
  <2>5. orders[i].filled \in {0, 1} /\ orders[i].filled <= o.filled
    BY <2>1, <2>2, <2>4 DEF Live, OrdersInv
  <2>6. OrdersInv' /\ orders' \in [Ids -> Order \cup {NoOrder}] /\ \A j \in Ids : Kept(j)
    BY <2>1, <2>2, <2>3, <2>5, OneOrder DEF Live
  <2>7. \A j \in Ids : j # i => orders'[j] = orders[j]
    BY <2>2 DEF TypeOK
  <2>8. QED
    BY <2>1, <2>6, <2>7, OrderTypes
<1>3. ASSUME NEW i \in Ids, Live(orders[i]), orders' = [orders EXCEPT ![i].status = "cancelled"]
      PROVE  Goal
  <2>1. orders[i] \in Order
    BY <1>3 DEF Live, TypeOK, NoOrder
  <2> DEFINE o == [status |-> "cancelled", filled |-> orders[i].filled]
  <2>2. orders' = [orders EXCEPT ![i] = o]
    BY <1>3, <2>1, OrderTypes
  <2>3. o \in Order /\ orders[i].filled <= o.filled
    BY <2>1, OrderTypes DEF Statuses, Fills
  <2>4. o.status = "cancelled"
    OBVIOUS
  <2>5. \A j \in Ids : j # i => orders'[j] = orders[j]
    BY <2>2 DEF TypeOK
  <2> HIDE DEF o
  <2>6. OrdersInv' /\ orders' \in [Ids -> Order \cup {NoOrder}] /\ \A j \in Ids : Kept(j)
    BY <1>3, <2>1, <2>2, <2>3, <2>4, OneOrder DEF Live
  <2>7. QED
    BY <2>1, <2>5, <2>6, OrderTypes
<1>4. ASSUME NEW r \in Rows, NEW outcome \in Outcomes, Send(r, outcome)
      PROVE  Goal
  <2> DEFINE i == <<r, place[r].attempt>>
  <2>1. place[r].attempt \in Attempts /\ place[r].at = "send"
    BY <1>4 DEF Send, TypeOK
  <2>2. i \in Ids /\ i[1] = r /\ i[2] = place[r].attempt
    BY <2>1 DEF Ids
  <2>3. orders[i] = NoOrder
    BY <2>1, RetriesAssumption DEF PlaceInv, Attempts
  <2>4. PICK o \in {[status |-> "new", filled |-> 0], [status |-> "filled", filled |-> 2]} :
            orders' = IF CarriedOut(outcome) THEN [orders EXCEPT ![i] = o] ELSE orders
    BY <1>4 DEF Send
  <2>5. o \in Order /\ (o.status = "new" => o.filled = 0) /\ o.status # "partial"
    BY <2>4, OrderTypes
  <2>6. CASE orders' = [orders EXCEPT ![i] = o]
    <3> HIDE DEF i
    <3>1. OrdersInv' /\ orders' \in [Ids -> Order \cup {NoOrder}] /\ \A j \in Ids : Kept(j)
      BY <2>2, <2>3, <2>5, <2>6, OrderTypes, OneOrder
    <3>2. \A j \in Ids : j # i => orders'[j] = orders[j]
      BY <2>6 DEF TypeOK
    <3>3. QED
      BY <2>1, <2>2, <3>1, <3>2
  <2>7. QED
    BY <2>4, <2>6, <1>1
<1>5. ASSUME NEW q \in Requests, NEW outcome \in Outcomes, Cancel(q, outcome)
      PROVE  Goal
  <2>1. request[q] # Idle
    BY <1>5 DEF Cancel, Idle
  <2>2. request[q].seen.id \in Ids
    BY <2>1 DEF RequestInv, Holds
  <2>3. QED
    BY <1>1, <1>3, <1>5, <2>2 DEF Cancel
<1>6. QED
  BY <1>1, <1>2, <1>3, <1>4, <1>5
     DEF Next, PlaceOrder, Serve, Create, Update, Reject, Ask, CancelLate, Write, Read, Withdraw, Restart, vars

-----------------------------------------------------------------------------
(***************************************************************************)
(* Rows, POSTs, and GETs and DELETEs.                                      *)
(***************************************************************************)
LEMMA RowTypes ==
    /\ NoRow \notin Row /\ NoRow.id = None /\ NoRow.status = "none"
    /\ [status |-> "new", id |-> None, filled |-> 0] \in Row
    /\ \A o \in Order, i \in Ids : [status |-> o.status, filled |-> o.filled, id |-> i] \in Row
    /\ \A t \in Row : /\ [t EXCEPT !.status = "rejected"] \in Row
                     /\ [t EXCEPT !.status = "rejected"].id = t.id
                     /\ [t EXCEPT !.status = "rejected"].status = "rejected"
                     /\ t.id \in Ids \cup {None} /\ t.filled \in Fills
                     /\ t.status \in Statuses \cup {"rejected"}
BY OrderTypes DEF Row, NoRow, Statuses, Fills

\* What becomes of the fault counters.
LEMMA StepFaults ==
    ASSUME TypeOK, [Next]_vars
    PROVE  lost' \in 0..MaxFailures /\ failures' \in 0..MaxFailures /\ lost <= lost'
<1> USE FailuresAssumption DEF TypeOK, faults
<1>1. ASSUME UNCHANGED faults
      PROVE  lost' \in 0..MaxFailures /\ failures' \in 0..MaxFailures /\ lost <= lost'
  BY <1>1
<1>2. ASSUME NEW f \in BOOLEAN, Count(f)
      PROVE  lost' \in 0..MaxFailures /\ failures' \in 0..MaxFailures /\ lost <= lost'
  BY <1>2 DEF Count
<1>3. ASSUME NEW outcome, CountOutcome(outcome)
      PROVE  lost' \in 0..MaxFailures /\ failures' \in 0..MaxFailures /\ lost <= lost'
  BY <1>3 DEF CountOutcome
<1>4. Written \subseteq BOOLEAN
  BY DEF Written
<1>5. QED
  BY <1>1, <1>2, <1>3, <1>4
     DEF Next, PlaceOrder, Serve, Create, Send, Update, Reject, Ask, Cancel, CancelLate, Write, Read,
         Fill, Withdraw, Restart, vars

\* A row is inserted, written by its POST, or written by a request.
RowStep(r) ==
    \/ row'[r] = row[r]
    \/ /\ place[r].at = "none" /\ place'[r].at = "send"
       /\ row'[r] = [status |-> "new", id |-> None, filled |-> 0]
    \/ /\ place[r].at = "update" /\ place'[r].at = "done"
       /\ row'[r] = [status |-> place[r].answer.status, filled |-> place[r].answer.filled,
                     id |-> <<r, place[r].attempt>>]
    \/ /\ place[r].at = "reject" /\ place'[r].at = "done"
       /\ row'[r] = [row[r] EXCEPT !.status = "rejected"]
    \/ \E q \in Requests :
        /\ request[q].at = "write" /\ request[q].row = r
        /\ row'[r] = [status |-> request[q].answer.status, filled |-> request[q].answer.filled,
                      id |-> request[q].seen.id]

LEMMA StepRow ==
    ASSUME TypeOK, [Next]_vars
    PROVE  \A r \in Rows : RowStep(r)
<1> SUFFICES ASSUME NEW r \in Rows
             PROVE  RowStep(r)
  OBVIOUS
<1>1. ASSUME UNCHANGED row
      PROVE  RowStep(r)
  BY <1>1 DEF RowStep
<1>2. ASSUME NEW x \in Rows, Create(x)
      PROVE  RowStep(r)
  BY <1>2 DEF Create, RowStep, TypeOK
<1>3. ASSUME NEW x \in Rows, NEW written \in Written, Update(x, written)
      PROVE  RowStep(r)
  BY <1>3 DEF Update, RowStep, TypeOK
<1>4. ASSUME NEW x \in Rows, NEW written \in Written, Reject(x, written)
      PROVE  RowStep(r)
  BY <1>4 DEF Reject, RowStep, TypeOK
<1>5. ASSUME NEW q \in Requests, NEW written \in Written, Write(q, written)
      PROVE  RowStep(r)
  BY <1>5 DEF Write, RowStep, TypeOK
<1>6. QED
  BY <1>1, <1>2, <1>3, <1>4, <1>5
     DEF Next, PlaceOrder, Serve, Send, Ask, Cancel, CancelLate, Read, Fill, Withdraw, Restart, vars

\* A POST begins, sends, has its answer, gives up, or is done or gone.
PlaceStep(r) ==
    \/ /\ place'[r] = place[r] /\ (row[r] = NoRow <=> row'[r] = NoRow)
       /\ place[r].at = "send" =>
            orders'[<<r, place[r].attempt>>] = orders[<<r, place[r].attempt>>] /\ row'[r] = row[r]
    \/ /\ place[r].at = "none" /\ place'[r] = [place[r] EXCEPT !.at = "send"]
       /\ row'[r] = [status |-> "new", id |-> None, filled |-> 0]
    \/ \E o \in Order, a \in Order :
        /\ place[r].at = "send" /\ orders'[<<r, place[r].attempt>>] = o
        /\ place'[r] = [place[r] EXCEPT !.at = "update", !.answer = a]
        /\ a.filled <= o.filled /\ (a.status \in {"filled", "cancelled"} => o.status = a.status)
        /\ row'[r] = row[r] /\ UNCHANGED lost
    \/ /\ place[r].at = "send" /\ place[r].attempt < Retries
       /\ place'[r] = [place[r] EXCEPT !.attempt = @ + 1]
       /\ row'[r] = row[r]
       /\ orders'[<<r, place[r].attempt>>] # orders[<<r, place[r].attempt>>] => lost' = lost + 1
    \/ /\ place[r].at = "send" /\ place'[r] = [place[r] EXCEPT !.at = "reject"]
       /\ row'[r] = row[r]
       /\ orders'[<<r, place[r].attempt>>] # orders[<<r, place[r].attempt>>] => lost' = lost + 1
    \/ /\ place[r].at = "update" /\ place'[r] = [place[r] EXCEPT !.at = "done"]
       /\ UNCHANGED <<orders, lost>>
       /\ \/ row'[r] = row[r]
          \/ row'[r] = [status |-> place[r].answer.status, filled |-> place[r].answer.filled,
                        id |-> <<r, place[r].attempt>>]
    \/ /\ place[r].at # "none" /\ place'[r] = [place[r] EXCEPT !.at = "done"]
       /\ row'[r] \in {row[r], [row[r] EXCEPT !.status = "rejected"]}
       /\ row'[r] # row[r] => place[r].at = "reject"
       /\ UNCHANGED <<orders, lost>>

LEMMA StepPlace ==
    ASSUME IInv, [Next]_vars
    PROVE  \A r \in Rows : PlaceStep(r)
<1> SUFFICES ASSUME NEW r \in Rows
             PROVE  PlaceStep(r)
  OBVIOUS
<1> DEFINE i == <<r, place[r].attempt>>
<1> USE DEF IInv
<1>1. /\ place[r].at \in {"none", "send", "update", "reject", "done"}
      /\ place[r].attempt \in Attempts /\ i \in Ids /\ i[1] = r
      /\ row[r] \in Row \cup {NoRow}
  BY DEF TypeOK, Ids
<1>2. place[r].at = "send" => orders[i] = NoOrder
  BY <1>1, RetriesAssumption DEF PlaceInv, Attempts
<1>3. ASSUME place'[r] = place[r], row'[r] = row[r], place[r].at = "send" => orders'[i] = orders[i]
      PROVE  PlaceStep(r)
  BY <1>3 DEF PlaceStep
<1>4. ASSUME NEW x \in Rows, Create(x)
      PROVE  PlaceStep(r)
  <2>1. CASE x = r
    BY <1>4, <2>1 DEF Create, PlaceStep, TypeOK
  <2>2. CASE x # r
    BY <1>4, <2>2, <1>3 DEF Create, TypeOK
  <2>3. QED
    BY <2>1, <2>2
<1>5. ASSUME NEW x \in Rows, NEW outcome \in Outcomes, Send(x, outcome)
      PROVE  PlaceStep(r)
  <2>1. UNCHANGED <<row, request>> /\ place[x].at = "send" /\ CountOutcome(outcome)
    BY <1>5 DEF Send
  <2>2. PICK o \in {[status |-> "new", filled |-> 0], [status |-> "filled", filled |-> 2]} :
          /\ orders' = IF CarriedOut(outcome) THEN [orders EXCEPT ![<<x, place[x].attempt>>] = o] ELSE orders
          /\ IF outcome = "ok"
             THEN \E a \in Answers(o) : place' = [place EXCEPT ![x].at = "update", ![x].answer = a]
             ELSE IF Again(outcome, place[x].attempt)
             THEN place' = [place EXCEPT ![x].attempt = @ + 1]
             ELSE place' = [place EXCEPT ![x].at = "reject"]
    BY <1>5 DEF Send
  <2>3. o \in Order
    BY <2>2, OrderTypes
  <2>4. CASE x # r
    <3>1. orders'[i] = orders[i]
      BY <2>2, <2>4, <1>1 DEF TypeOK
    <3>2. place'[r] = place[r]
      BY <2>2, <2>4 DEF TypeOK
    <3>3. QED
      BY <3>1, <3>2, <2>1, <1>3
  <2>5. CASE x = r /\ outcome = "ok"
    <3>1. PICK a \in Answers(o) : place' = [place EXCEPT ![r].at = "update", ![r].answer = a]
      BY <2>2, <2>5
    <3>2. /\ a \in Order /\ a.filled <= o.filled
          /\ a.status \in {"filled", "cancelled"} => o.status = a.status
      BY <2>2, OrderTypes DEF Answers
    <3>3. orders'[i] = o
      BY <2>2, <2>5, <1>1 DEF CarriedOut, TypeOK
    <3>4. place'[r] = [place[r] EXCEPT !.at = "update", !.answer = a]
      BY <3>1 DEF TypeOK
    <3>5. row'[r] = row[r] /\ UNCHANGED lost
      BY <2>1, <2>5 DEF CountOutcome
    <3>6. QED
      BY <3>2, <3>3, <3>4, <3>5, <2>1, <2>3, <2>5 DEF PlaceStep
  <2>6. CASE x = r /\ outcome # "ok"
    <3>1. orders'[i] # orders[i] => lost' = lost + 1
      BY <2>1, <2>2, <2>6 DEF CarriedOut, CountOutcome
    <3>2. CASE Again(outcome, place[r].attempt)
      <4>1. place'[r] = [place[r] EXCEPT !.attempt = @ + 1] /\ place[r].attempt < Retries
        BY <2>2, <2>6, <3>2 DEF TypeOK, Again
      <4>2. QED
        BY <3>1, <4>1, <2>1, <2>6 DEF PlaceStep
    <3>3. CASE ~Again(outcome, place[r].attempt)
      <4>1. place'[r] = [place[r] EXCEPT !.at = "reject"]
        BY <2>2, <2>6, <3>3 DEF TypeOK
      <4>2. QED
        BY <3>1, <4>1, <2>1, <2>6 DEF PlaceStep
    <3>4. QED
      BY <3>2, <3>3
  <2>7. QED
    BY <2>4, <2>5, <2>6
<1>6. ASSUME NEW x \in Rows, NEW written \in Written, Update(x, written) \/ Reject(x, written)
      PROVE  PlaceStep(r)
  <2>1. UNCHANGED <<orders, request, lost>> /\ place[x].at \in {"update", "reject"}
        /\ place' = [place EXCEPT ![x].at = "done"]
    BY <1>6 DEF Update, Reject, Count
  <2>2. CASE x # r
    <3>1. row'[r] = row[r] /\ place'[r] = place[r]
      BY <1>6, <2>1, <2>2 DEF Update, Reject, TypeOK
    <3>2. QED
      BY <3>1, <2>1, <1>3
  <2>3. CASE x = r
    <3>1. place'[r] = [place[r] EXCEPT !.at = "done"]
      BY <2>1, <2>3 DEF TypeOK
    <3>2. CASE Update(x, written)
      BY <3>1, <3>2, <2>1, <2>3, <1>1 DEF Update, PlaceStep, TypeOK
    <3>3. CASE Reject(x, written)
      BY <3>1, <3>3, <2>1, <2>3, <1>1 DEF Reject, PlaceStep, TypeOK
    <3>4. QED
      BY <1>6, <3>2, <3>3
  <2>4. QED
    BY <2>2, <2>3
<1>7. ASSUME NEW j \in Ids, Fill(j) \/ Withdraw(j)
      PROVE  PlaceStep(r)
  <2>1. UNCHANGED <<row, place>> /\ \A k \in Ids : orders'[k] # orders[k] => Live(orders[k])
    BY <1>7 DEF Fill, Withdraw, TypeOK
  <2>2. QED
    BY <2>1, <1>1, <1>2, <1>3 DEF Live, NoOrder
<1>8. ASSUME NEW q \in Requests, NEW outcome \in Outcomes, Cancel(q, outcome)
      PROVE  PlaceStep(r)
  <2>1. UNCHANGED <<row, place>> /\ \A k \in Ids : orders'[k] # orders[k] => Live(orders[k])
    BY <1>8 DEF Cancel, TypeOK
  <2>2. QED
    BY <2>1, <1>1, <1>2, <1>3 DEF Live, NoOrder
<1>9. ASSUME NEW q \in Requests, NEW written \in Written, Write(q, written)
      PROVE  PlaceStep(r)
  <2>1. UNCHANGED <<orders, place>> /\ request[q].at = "write"
    BY <1>9 DEF Write
  <2>2. Holds(q)
    BY <2>1 DEF Idle, RequestInv
  <2>3. request[q].row # r => row'[r] = row[r]
    BY <1>9 DEF Write, TypeOK
  <2>4. CASE request[q].row # r
    BY <2>1, <2>3, <2>4, <1>3
  <2>5. CASE request[q].row = r
    <3>1. place[r].at = "done" /\ request[q].answer \in Order /\ request[q].seen.id \in Ids
      BY <2>1, <2>2, <2>5 DEF Holds, Tells
    <3>2. row[r] # NoRow
      BY <3>1 DEF PlaceInv
    <3>3. row'[r] # NoRow
      BY <3>1, <3>2, <1>1, <2>5, <1>9, RowTypes DEF Write, TypeOK
    <3>4. QED
      BY <2>1, <3>1, <3>2, <3>3 DEF PlaceStep
  <2>6. QED
    BY <2>4, <2>5
<1>10. CASE Restart
  <2>1. UNCHANGED <<row, orders, lost>>
        /\ place'[r] = [place[r] EXCEPT !.at = IF @ = "none" THEN @ ELSE "done"]
    BY <1>10 DEF Restart, Count
  <2>2. CASE place[r].at = "none"
    <3>1. place'[r] = place[r]
      BY <2>1, <2>2 DEF TypeOK
    <3>2. QED
      BY <2>1, <3>1, <1>3
  <2>3. CASE place[r].at # "none"
    BY <2>1, <2>3 DEF PlaceStep
  <2>4. QED
    BY <2>2, <2>3
<1>11. ASSUME UNCHANGED <<row, orders, place>>
       PROVE  PlaceStep(r)
  BY <1>11, <1>3
<1>12. QED
  BY <1>4, <1>5, <1>6, <1>7, <1>8, <1>9, <1>10, <1>11
     DEF Next, PlaceOrder, Serve, Ask, CancelLate, Read, vars

\* The facts about one step that the proofs below use.
Stepped ==
    /\ orders' \in [Ids -> Order \cup {NoOrder}]
    /\ \A i \in Ids : Kept(i)
    /\ \A i \in Ids : orders[i] = NoOrder /\ orders'[i] # NoOrder =>
          place[i[1]].at = "send" /\ i[2] = place[i[1]].attempt
    /\ \A r \in Rows : RowStep(r) /\ PlaceStep(r)

LEMMA StepStepped == ASSUME IInv, [Next]_vars PROVE Stepped
BY StepOrders, StepRow, StepPlace DEF Stepped, IInv

LEMMA StepPlaceInv == ASSUME IInv, Stepped PROVE PlaceInv'
<1> SUFFICES ASSUME NEW r \in Rows
             PROVE  /\ place'[r].at = "none" <=> row'[r] = NoRow
                    /\ place'[r].at = "none" => place'[r].attempt = 0
                    /\ place'[r].at \in {"send", "update", "reject"} => row'[r].status = "new"
                    /\ row'[r].id # None => place'[r].at = "done" /\ row'[r].status # "rejected"
                    /\ place'[r].at \in {"none", "send"} =>
                        \A a \in Attempts : a >= place'[r].attempt => orders'[<<r, a>>] = NoOrder
  BY DEF PlaceInv
<1> USE RetriesAssumption DEF IInv
<1>1. /\ place[r] \in [at : {"none", "send", "update", "reject", "done"},
                       attempt : Attempts, answer : Order \cup {NoOrder}]
      /\ row[r] \in Row \cup {NoRow}
      /\ PlaceStep(r) /\ RowStep(r)
  BY DEF TypeOK, Stepped
<1>2. /\ place[r].at = "none" <=> row[r] = NoRow
      /\ place[r].at = "none" => place[r].attempt = 0
      /\ place[r].at \in {"send", "update", "reject"} => row[r].status = "new"
      /\ row[r].id # None => place[r].at = "done" /\ row[r].status # "rejected"
      /\ place[r].at \in {"none", "send"} =>
            \A a \in Attempts : a >= place[r].attempt => orders[<<r, a>>] = NoOrder
  BY DEF PlaceInv
\* What a row says after the step.
<1>3. row'[r].id # None /\ row'[r] # row[r] =>
        /\ row'[r].status # "rejected"
        /\ place[r].at = "done" \/ (place[r].at = "update" /\ place'[r].at = "done")
  <2>1. \A q \in Requests : request[q].at = "write" /\ request[q].row = r =>
            place[r].at = "done" /\ request[q].answer.status \in Statuses
    BY OrderTypes DEF Idle, RequestInv, Holds, Tells
  <2>2. place[r].at = "update" => place[r].answer.status \in Statuses
    BY OrderTypes DEF PlaceTold, Tells
  <2>3. "rejected" \notin Statuses
    BY DEF Statuses
  <2>4. place[r].at = "reject" => row[r].id = None /\ [row[r] EXCEPT !.status = "rejected"].id = row[r].id
    BY <1>1, <1>2, RowTypes
  <2>5. CASE place[r].at = "update" /\ place'[r].at = "done" /\ row'[r].status = place[r].answer.status
    BY <2>2, <2>3, <2>5
  <2>6. CASE \E q \in Requests : /\ request[q].at = "write" /\ request[q].row = r
                                /\ row'[r].status = request[q].answer.status
    BY <2>1, <2>3, <2>6
  <2>7. SUFFICES ASSUME row'[r].id # None, row'[r] # row[r]
                 PROVE  /\ row'[r].status # "rejected"
                        /\ place[r].at = "done" \/ (place[r].at = "update" /\ place'[r].at = "done")
    OBVIOUS
  <2>8. CASE row'[r] = [status |-> "new", id |-> None, filled |-> 0]
    BY <2>7, <2>8
  <2>9. CASE place[r].at = "reject" /\ row'[r] = [row[r] EXCEPT !.status = "rejected"]
    BY <2>4, <2>7, <2>9
  <2>10. CASE \E q \in Requests :
            /\ request[q].at = "write" /\ request[q].row = r
            /\ row'[r] = [status |-> request[q].answer.status, filled |-> request[q].answer.filled,
                          id |-> request[q].seen.id]
    BY <2>6, <2>7, <2>10
  <2>11. CASE /\ place[r].at = "update" /\ place'[r].at = "done"
              /\ row'[r] = [status |-> place[r].answer.status, filled |-> place[r].answer.filled,
                            id |-> <<r, place[r].attempt>>]
    BY <2>5, <2>7, <2>11
  <2>12. RowStep(r)
    BY <1>1
  <2> HIDE DEF IInv
  <2>13. QED
    BY <2>7, <2>8, <2>9, <2>10, <2>11, <2>12 DEF RowStep
\* Nothing is placed for an attempt to come.
<1>4. \A a \in Attempts : orders[<<r, a>>] = NoOrder /\ orders'[<<r, a>>] # NoOrder =>
          place[r].at = "send" /\ a = place[r].attempt
  BY DEF Stepped, Ids
<1>5. CASE /\ place'[r] = place[r] /\ (row[r] = NoRow <=> row'[r] = NoRow)
           /\ place[r].at = "send" =>
                orders'[<<r, place[r].attempt>>] = orders[<<r, place[r].attempt>>] /\ row'[r] = row[r]
  <2>1. place[r].at \in {"update", "reject"} => row'[r] = row[r]
    <3>1. \A q \in Requests : request[q].at = "write" /\ request[q].row = r => place[r].at = "done"
      BY DEF Idle, RequestInv, Holds
    <3>2. QED
      BY <1>1, <1>5, <3>1 DEF RowStep
  <2>2. place'[r].at \in {"none", "send"} =>
            \A a \in Attempts : a >= place'[r].attempt => orders'[<<r, a>>] = NoOrder
    BY <1>1, <1>2, <1>4, <1>5 DEF Attempts
  <2>3. QED
    BY <1>1, <1>2, <1>3, <1>5, <2>1, <2>2
<1>6. CASE /\ place[r].at = "none" /\ place'[r] = [place[r] EXCEPT !.at = "send"]
           /\ row'[r] = [status |-> "new", id |-> None, filled |-> 0]
  BY <1>1, <1>2, <1>4, <1>6 DEF NoRow
<1>7. CASE \E o \in Order, a \in Order :
        /\ place[r].at = "send" /\ place'[r] = [place[r] EXCEPT !.at = "update", !.answer = a]
        /\ row'[r] = row[r]
  BY <1>1, <1>2, <1>7
<1>8. CASE /\ place[r].at = "send" /\ place[r].attempt < Retries
           /\ place'[r] = [place[r] EXCEPT !.attempt = @ + 1]
           /\ row'[r] = row[r]
  <2>1. place'[r].at = "send" /\ place'[r].attempt = place[r].attempt + 1 /\ place[r].attempt \in Nat
    BY <1>1, <1>8 DEF Attempts
  <2>2. \A a \in Attempts : a >= place'[r].attempt => orders'[<<r, a>>] = NoOrder
    <3>1. \A a \in Attempts : a >= place'[r].attempt => a >= place[r].attempt /\ a # place[r].attempt
      BY <2>1 DEF Attempts
    <3>2. QED
      BY <3>1, <1>2, <1>4, <1>8
  <2>3. QED
    BY <1>2, <1>8, <2>1, <2>2
<1>9. CASE /\ place[r].at = "send" /\ place'[r] = [place[r] EXCEPT !.at = "reject"]
           /\ row'[r] = row[r]
  BY <1>1, <1>2, <1>9
<1>10. CASE /\ place[r].at # "none" /\ place'[r] = [place[r] EXCEPT !.at = "done"]
            /\ row'[r] # NoRow
  <2>1. place'[r].at = "done"
    BY <1>1, <1>10
  <2>2. QED
    BY <1>2, <1>3, <1>10, <2>1
<1>11. place[r].at # "none" =>
         /\ row[r] # NoRow /\ [row[r] EXCEPT !.status = "rejected"] # NoRow
         /\ [status |-> place[r].answer.status, filled |-> place[r].answer.filled,
             id |-> <<r, place[r].attempt>>] # NoRow
  BY <1>1, <1>2, NoneAssumption, RowTypes DEF Ids, NoRow
<1>12. QED
  BY <1>1, <1>5, <1>6, <1>7, <1>8, <1>9, <1>10, <1>11 DEF PlaceStep

LEMMA StepTold == ASSUME IInv, Stepped PROVE PlaceTold'
<1> SUFFICES ASSUME NEW r \in Rows, place'[r].at = "update"
             PROVE  Tells(place[r].answer, <<r, place[r].attempt>>)'
  BY DEF PlaceTold
<1> USE DEF IInv
<1>1. /\ place[r] \in [at : {"none", "send", "update", "reject", "done"},
                       attempt : Attempts, answer : Order \cup {NoOrder}]
      /\ PlaceStep(r) /\ <<r, place[r].attempt>> \in Ids
  BY DEF TypeOK, Stepped, Ids
<1>2. CASE place'[r] = place[r]
  <2>1. Tells(place[r].answer, <<r, place[r].attempt>>)
    BY <1>2 DEF PlaceTold
  <2>2. Kept(<<r, place[r].attempt>>)
    BY <1>1 DEF Stepped
  <2>3. /\ place[r].answer.filled \in Fills /\ orders[<<r, place[r].attempt>>].filled \in Fills
        /\ orders'[<<r, place[r].attempt>>].filled \in Fills
    BY <2>1, <2>2, OrderTypes DEF Tells, Kept
  <2>4. place[r].answer.filled <= orders'[<<r, place[r].attempt>>].filled
    BY <2>1, <2>2, <2>3 DEF Tells, Kept, Fills
  <2>5. QED
    BY <2>1, <2>2, <2>4, <1>2 DEF Tells, Kept
<1>3. CASE \E o \in Order, a \in Order :
        /\ place[r].at = "send" /\ orders'[<<r, place[r].attempt>>] = o
        /\ place'[r] = [place[r] EXCEPT !.at = "update", !.answer = a]
        /\ a.filled <= o.filled /\ (a.status \in {"filled", "cancelled"} => o.status = a.status)
  BY <1>1, <1>3 DEF Tells
<1>4. QED
  BY <1>1, <1>2, <1>3 DEF PlaceStep

\* A request is taken up, tries again, is told of its order, or is over.
RequestStep(q) ==
    \/ request'[q] \in {request[q], Idle}
    \/ \E kind \in {"get", "cancel"}, r \in Rows :
        /\ row[r] \in Row /\ row[r].id # None
        /\ request'[q] = [Idle EXCEPT !.at = "send", !.kind = kind, !.row = r, !.seen = row[r]]
    \/ /\ request[q].at = "send" /\ request[q].attempt < Retries
       /\ request'[q] = [request[q] EXCEPT !.attempt = @ + 1]
    \/ \E a \in Order, i \in Ids :
        /\ request[q].at = "send" /\ request[q].seen.id = i
        /\ request'[q] = [request[q] EXCEPT !.at = "write", !.answer = a]
        /\ Tells(a, i)'

LEMMA StepRequestStep ==
    ASSUME IInv, [Next]_vars
    PROVE  \A q \in Requests : RequestStep(q)
<1> SUFFICES ASSUME NEW q \in Requests
             PROVE  RequestStep(q)
  OBVIOUS
<1> USE DEF IInv
<1>1. ASSUME request'[q] = request[q]
      PROVE  RequestStep(q)
  BY <1>1 DEF RequestStep
<1>2. /\ request[q].at = "send" => Holds(q) /\ request[q].seen.filled \in Fills
      /\ \A i \in Ids : orders[i] \in Order => orders[i].filled <= orders[i].filled
  <2>1. request[q].at = "send" => Holds(q) /\ request[q].seen \in Row
    BY DEF Idle, RequestInv, TypeOK
  <2>2. \A i \in Ids : orders[i] \in Order => orders[i].filled <= orders[i].filled
    BY OrderTypes DEF Fills
  <2>3. QED
    BY <2>1, <2>2, RowTypes
\* TryAgain, which also gives up.
<1>3. ASSUME NEW outcome, request[q].at = "send", TryAgain(q, outcome)
      PROVE  RequestStep(q)
  BY <1>3 DEF TryAgain, GiveUp, Again, RequestStep, TypeOK
<1>4. ASSUME NEW x \in Requests, NEW outcome \in Outcomes, Ask(x, outcome)
      PROVE  RequestStep(q)
  <2>1. CASE x # q
    <3>1. request'[q] = request[q]
      BY <1>4, <2>1 DEF Ask, TryAgain, GiveUp, TypeOK
    <3>2. QED
      BY <3>1, <1>1
  <2>2. CASE x = q /\ outcome = "ok"
    <3>1. /\ request[q].at = "send" /\ UNCHANGED orders
          /\ request'[q] = [request[q] EXCEPT !.at = "write", !.answer = orders[request[q].seen.id]]
      BY <1>4, <2>2 DEF Ask, TypeOK
    <3>2. PICK i \in Ids : i = request[q].seen.id /\ orders[i] \in Order
      BY <3>1, <1>2 DEF Holds
    <3>3. PICK a \in Order : a = orders[i]
      BY <3>2
    <3>4. Tells(a, i)'
      BY <3>1, <3>2, <3>3, <1>2 DEF Tells
    <3>5. QED
      BY <3>1, <3>2, <3>3, <3>4 DEF RequestStep
  <2>3. CASE x = q /\ outcome # "ok"
    BY <1>3, <1>4, <2>3 DEF Ask
  <2>4. QED
    BY <2>1, <2>2, <2>3
<1>5. ASSUME NEW x \in Requests, NEW outcome \in Outcomes, Cancel(x, outcome)
      PROVE  RequestStep(q)
  <2>1. CASE x # q
    <3>1. request'[q] = request[q]
      BY <1>5, <2>1 DEF Cancel, TryAgain, GiveUp, TypeOK
    <3>2. QED
      BY <3>1, <1>1
  <2>2. CASE x = q /\ outcome = "ok"
    <3> DEFINE a == [status |-> "cancelled", filled |-> request[q].seen.filled]
    <3>1. /\ request[q].at = "send"
          /\ orders' = [orders EXCEPT ![request[q].seen.id].status = "cancelled"]
          /\ request'[q] = [request[q] EXCEPT !.at = "write", !.answer = a]
      BY <1>5, <2>2 DEF Cancel, CarriedOut, TypeOK
    <3>2. PICK i \in Ids : /\ i = request[q].seen.id /\ orders[i] \in Order
                           /\ request[q].seen.filled <= orders[i].filled
                           /\ request[q].seen.filled \in Fills
      BY <3>1, <1>2 DEF Holds
    <3>3. orders'[i] = [status |-> "cancelled", filled |-> orders[i].filled]
      BY <3>1, <3>2, OrderTypes DEF TypeOK
    <3>4. a \in Order /\ orders'[i] \in Order
      BY <3>2, <3>3, OrderTypes DEF Statuses
    <3>5. a.filled = request[q].seen.filled /\ a.status = "cancelled"
      OBVIOUS
    <3> HIDE DEF a
    <3>6. PICK b \in Order : b = a
      BY <3>4
    <3>7. Tells(b, i)'
      BY <3>2, <3>3, <3>4, <3>5, <3>6 DEF Tells
    <3>8. QED
      BY <3>1, <3>2, <3>6, <3>7 DEF RequestStep
  <2>3. CASE x = q /\ outcome # "ok"
    BY <1>3, <1>5, <2>3 DEF Cancel
  <2>4. QED
    BY <2>1, <2>2, <2>3
<1>6. ASSUME NEW x \in Requests, CancelLate(x)
      PROVE  RequestStep(q)
  BY <1>6 DEF CancelLate, GiveUp, RequestStep, TypeOK
<1>7. ASSUME NEW x \in Requests, NEW written \in Written, Write(x, written)
      PROVE  RequestStep(q)
  BY <1>7 DEF Write, RequestStep, TypeOK
<1>8. ASSUME NEW x \in Requests, NEW r \in Rows, NEW kind \in {"get", "cancel"}, Read(x, kind, r)
      PROVE  RequestStep(q)
  <2>1. row[r] \in Row /\ row[r].id # None
    BY <1>8 DEF Read, TypeOK
  <2>2. request'[q] = request[q] \/
        request'[q] = [Idle EXCEPT !.at = "send", !.kind = kind, !.row = r, !.seen = row[r]]
    BY <1>8 DEF Read, TypeOK
  <2>3. QED
    BY <2>1, <2>2 DEF RequestStep
<1>9. CASE Restart
  BY <1>9 DEF Restart, RequestStep
<1>10. ASSUME UNCHANGED request
       PROVE  RequestStep(q)
  BY <1>10, <1>1
<1>11. QED
  BY <1>4, <1>5, <1>6, <1>7, <1>8, <1>9, <1>10
     DEF Next, PlaceOrder, Serve, Create, Send, Update, Reject, Fill, Withdraw, vars

LEMMA StepRequestInv == ASSUME IInv, Stepped, \A q \in Requests : RequestStep(q) PROVE RequestInv'
<1> SUFFICES ASSUME NEW q \in Requests, request'[q] # Idle
             PROVE  Holds(q)'
  BY DEF RequestInv
<1> USE DEF IInv
\* A POST that is done stays done.
<1>1. \A r \in Rows : place[r].at = "done" => place'[r].at = "done"
  <2> HIDE DEF IInv
  <2>1. ASSUME NEW r \in Rows, place[r].at = "done", PlaceStep(r),
               place[r] \in [at : {"none", "send", "update", "reject", "done"},
                             attempt : Attempts, answer : Order \cup {NoOrder}]
        PROVE  place'[r].at = "done"
    BY <2>1 DEF PlaceStep
  <2>2. QED
    BY <2>1 DEF Stepped, IInv, TypeOK
\* What is known of an order stays true.
<1>2. ASSUME NEW i \in Ids, orders[i] \in Order, NEW f \in Fills, f <= orders[i].filled
      PROVE  orders'[i] \in Order /\ f <= orders'[i].filled
  <2>1. Kept(i)
    BY DEF Stepped
  <2>2. orders'[i] \in Order /\ orders[i].filled <= orders'[i].filled
    BY <1>2, <2>1 DEF Kept
  <2>3. orders[i].filled \in Fills /\ orders'[i].filled \in Fills
    BY <1>2, <2>2, OrderTypes
  <2>4. QED
    BY <1>2, <2>2, <2>3 DEF Fills
<1>3. ASSUME request[q] # Idle
      PROVE  LET i == request[q].seen.id IN
             /\ i \in Ids /\ i[1] = request[q].row
             /\ place'[request[q].row].at = "done"
             /\ orders'[i] \in Order /\ request[q].seen.filled <= orders'[i].filled
  <2>1. Holds(q) /\ request[q].row \in Rows /\ request[q].seen \in Row
    BY <1>3 DEF RequestInv, TypeOK
  <2>2. request[q].seen.filled \in Fills
    BY <2>1, RowTypes
  <2>3. QED
    BY <2>1, <2>2, <1>1, <1>2 DEF Holds
<1>4. CASE request'[q] = request[q]
  <2>1. request[q].at = "write" => Tells(request[q].answer, request[q].seen.id)
    BY <1>4 DEF RequestInv, Holds
  <2>2. request[q].at = "write" =>
            \A a, i : a = request[q].answer /\ i = request[q].seen.id => Tells(a, i)'
    <3> SUFFICES ASSUME request[q].at = "write", NEW a, NEW i, a = request[q].answer, i = request[q].seen.id
                 PROVE  Tells(a, i)'
      OBVIOUS
    <3>1. Tells(a, i) /\ i \in Ids
      BY <2>1, <1>3, <1>4
    <3>2. Kept(i)
      BY <3>1 DEF Stepped
    <3>3. QED
      BY <3>1, <3>2, TellsStays
  <2>3. QED
    BY <1>3, <1>4, <2>2 DEF Holds, Tells
<1>5. CASE \E kind \in {"get", "cancel"}, r \in Rows :
        /\ row[r] \in Row /\ row[r].id # None
        /\ request'[q] = [Idle EXCEPT !.at = "send", !.kind = kind, !.row = r, !.seen = row[r]]
  <2>1. PICK kind \in {"get", "cancel"}, r \in Rows :
        /\ row[r] \in Row /\ row[r].id # None
        /\ request'[q] = [Idle EXCEPT !.at = "send", !.kind = kind, !.row = r, !.seen = row[r]]
    BY <1>5
  <2>2. row[r].id \in Ids /\ row[r].filled \in Fills
    BY <2>1, RowTypes
  <2>3. /\ row[r].id[1] = r /\ orders[row[r].id] \in Order
        /\ row[r].filled <= orders[row[r].id].filled
        /\ place'[r].at = "done"
    BY <2>1, <2>2, <1>1 DEF TypeOK, RowTellsNoMore, PlaceInv
  <2>4. orders'[row[r].id] \in Order /\ row[r].filled <= orders'[row[r].id].filled
    BY <2>2, <2>3, <1>2
  <2>5. request'[q].at = "send" /\ request'[q].seen = row[r] /\ request'[q].row = r
    BY <2>1 DEF Idle
  <2>6. QED
    BY <2>2, <2>3, <2>4, <2>5 DEF Holds
<1>6. CASE request[q].at = "send" /\ request'[q] = [request[q] EXCEPT !.attempt = @ + 1]
  <2>1. request[q] # Idle
    BY <1>6 DEF Idle
  <2>2. request'[q].at = "send" /\ request'[q].seen = request[q].seen /\ request'[q].row = request[q].row
    BY <1>6, <2>1 DEF TypeOK
  <2>3. QED
    BY <2>1, <2>2, <1>3 DEF Holds
<1>7. CASE \E a \in Order, i \in Ids :
        /\ request[q].at = "send" /\ request[q].seen.id = i
        /\ request'[q] = [request[q] EXCEPT !.at = "write", !.answer = a]
        /\ Tells(a, i)'
  <2>1. PICK a \in Order, i \in Ids :
        /\ request[q].at = "send" /\ request[q].seen.id = i
        /\ request'[q] = [request[q] EXCEPT !.at = "write", !.answer = a]
        /\ Tells(a, i)'
    BY <1>7
  <2>2. request[q] # Idle
    BY <2>1 DEF Idle
  <2>3. /\ request'[q].seen = request[q].seen /\ request'[q].row = request[q].row
        /\ request'[q].answer = a
    BY <2>1, <2>2 DEF TypeOK
  <2>4. QED
    BY <2>1, <2>2, <2>3, <1>3 DEF Holds, Tells
<1>8. QED
  BY <1>4, <1>5, <1>6, <1>7 DEF RequestStep

LEMMA StepTells ==
    ASSUME IInv, Stepped, NEW r \in Rows, row'[r].id # None
    PROVE  /\ row'[r].id \in Ids /\ row'[r].id[1] = r /\ orders'[row'[r].id] \in Order
           /\ row'[r].filled <= orders'[row'[r].id].filled
           /\ row'[r].status \in {"filled", "cancelled"} => orders'[row'[r].id].status = row'[r].status
<1> DEFINE True(st, f, i) == /\ i \in Ids /\ i[1] = r /\ orders'[i] \in Order
                             /\ f <= orders'[i].filled
                             /\ st \in {"filled", "cancelled"} => orders'[i].status = st
<1> SUFFICES True(row'[r].status, row'[r].filled, row'[r].id)
  OBVIOUS
<1> USE DEF IInv
<1>1. ASSUME NEW a, NEW i \in Ids, i[1] = r, Tells(a, i)
      PROVE  True(a.status, a.filled, i)
  BY <1>1, TellsStays DEF Stepped, Tells
<1>2. row[r] \in Row \cup {NoRow}
  BY DEF TypeOK
<1>3. CASE row'[r] = row[r]
  <2>1. /\ row[r] \in Row /\ row[r].id \in Ids /\ row[r].id[1] = r /\ orders[row[r].id] \in Order
    BY <1>2, <1>3, RowTypes DEF TypeOK
  <2>2. /\ row[r].filled <= orders[row[r].id].filled /\ row[r].filled \in Fills
        /\ row[r].status \in {"filled", "cancelled"} => orders[row[r].id].status = row[r].status
    BY <1>3, <2>1, RowTypes DEF RowTellsNoMore
  <2>3. Kept(row[r].id)
    BY <2>1 DEF Stepped
  <2>4. /\ orders[row[r].id].filled \in Fills /\ orders'[row[r].id].filled \in Fills
    BY <2>1, <2>3, OrderTypes DEF Kept
  <2>5. row[r].filled <= orders'[row[r].id].filled
    BY <2>1, <2>2, <2>3, <2>4 DEF Kept, Fills
  <2>6. QED
    BY <1>3, <2>1, <2>2, <2>3, <2>5 DEF Kept
<1>4. CASE row'[r] = [status |-> "new", id |-> None, filled |-> 0]
  BY <1>4
<1>5. CASE /\ place[r].at = "update"
           /\ row'[r] = [status |-> place[r].answer.status, filled |-> place[r].answer.filled,
                         id |-> <<r, place[r].attempt>>]
  <2>1. Tells(place[r].answer, <<r, place[r].attempt>>) /\ <<r, place[r].attempt>> \in Ids
    BY <1>5 DEF PlaceTold, TypeOK, Ids
  <2>2. True(place[r].answer.status, place[r].answer.filled, <<r, place[r].attempt>>)
    BY <2>1, <1>1
  <2>3. QED
    BY <1>5, <2>2
<1>6. CASE place[r].at = "reject" /\ row'[r] = [row[r] EXCEPT !.status = "rejected"]
  <2>1. row[r] \in Row /\ row[r].id = None
    BY <1>2, <1>6 DEF PlaceInv
  <2>2. row'[r].id = None
    BY <1>6, <2>1, RowTypes
  <2>3. QED
    BY <2>2
<1>7. CASE \E q \in Requests :
        /\ request[q].at = "write" /\ request[q].row = r
        /\ row'[r] = [status |-> request[q].answer.status, filled |-> request[q].answer.filled,
                      id |-> request[q].seen.id]
  <2>1. PICK q \in Requests :
        /\ request[q].at = "write" /\ request[q].row = r
        /\ row'[r] = [status |-> request[q].answer.status, filled |-> request[q].answer.filled,
                      id |-> request[q].seen.id]
    BY <1>7
  <2>2. /\ request[q].seen.id \in Ids /\ request[q].seen.id[1] = r
        /\ Tells(request[q].answer, request[q].seen.id)
    BY <2>1 DEF Idle, RequestInv, Holds
  <2>3. True(request[q].answer.status, request[q].answer.filled, request[q].seen.id)
    BY <2>2, <1>1
  <2>4. QED
    BY <2>1, <2>3
<1>8. RowStep(r)
  BY DEF Stepped
<1>9. QED
  BY <1>3, <1>4, <1>5, <1>6, <1>7, <1>8 DEF RowStep

LEMMA StepTypeOK == ASSUME IInv, [Next]_vars PROVE TypeOK'
<1> USE DEF IInv
<1>1. Stepped /\ (\A q \in Requests : RequestStep(q)) /\ TypeOK /\ IInv
  BY StepStepped, StepRequestStep
<1>2. orders' \in [Ids -> Order \cup {NoOrder}]
  BY <1>1 DEF Stepped
<1>3. lost' \in 0..MaxFailures /\ failures' \in 0..MaxFailures
  BY StepFaults
<1>4. \A r \in Rows : row'[r].id # None => row'[r].id[1] = r /\ orders'[row'[r].id] # NoOrder
  BY <1>1, StepTells, OrderTypes
<1>5. row' = [r \in Rows |-> row'[r]] /\ place' = [r \in Rows |-> place'[r]]
      /\ request' = [q \in Requests |-> request'[q]]
  BY DEF TypeOK, Next, PlaceOrder, Serve, Create, Send, Update, Reject, Ask, Cancel, CancelLate, Write, Read,
         Fill, Withdraw, Restart, TryAgain, GiveUp, vars
<1>6. ASSUME NEW r \in Rows
      PROVE  row'[r] \in Row \cup {NoRow}
  <2>1. row[r] \in Row \cup {NoRow} /\ RowStep(r)
    BY <1>1 DEF Stepped, TypeOK
  <2>2. place[r].at = "update" => place[r].answer \in Order /\ <<r, place[r].attempt>> \in Ids
    BY DEF PlaceTold, Tells, TypeOK, Ids
  <2>3. place[r].at = "reject" => row[r] \in Row
    BY <2>1, RowTypes DEF PlaceInv
  <2>4. \A q \in Requests : request[q].at = "write" =>
            request[q].answer \in Order /\ request[q].seen.id \in Ids
    BY DEF Idle, RequestInv, Holds, Tells
  <2>5. /\ place[r].at = "update" =>
            [status |-> place[r].answer.status, filled |-> place[r].answer.filled,
             id |-> <<r, place[r].attempt>>] \in Row
        /\ place[r].at = "reject" => [row[r] EXCEPT !.status = "rejected"] \in Row
        /\ \A q \in Requests : request[q].at = "write" =>
            [status |-> request[q].answer.status, filled |-> request[q].answer.filled,
             id |-> request[q].seen.id] \in Row
    BY <2>2, <2>3, <2>4, RowTypes
  <2>6. [status |-> "new", id |-> None, filled |-> 0] \in Row
    BY RowTypes
  <2> HIDE DEF IInv
  <2>7. QED
    BY <2>1, <2>5, <2>6 DEF RowStep
<1>7. ASSUME NEW r \in Rows
      PROVE  place'[r] \in [at : {"none", "send", "update", "reject", "done"},
                            attempt : Attempts, answer : Order \cup {NoOrder}]
  <2>1. /\ place[r] \in [at : {"none", "send", "update", "reject", "done"},
                         attempt : Attempts, answer : Order \cup {NoOrder}]
        /\ PlaceStep(r)
    BY <1>1 DEF Stepped, TypeOK
  <2> DEFINE Typed == [at : {"none", "send", "update", "reject", "done"},
                       attempt : Attempts, answer : Order \cup {NoOrder}]
  <2>2. \A x \in {"send", "reject", "done"} : [place[r] EXCEPT !.at = x] \in Typed
    BY <2>1
  <2>3. \A a \in Order : [place[r] EXCEPT !.at = "update", !.answer = a] \in Typed
    BY <2>1
  <2>4. place[r].attempt < Retries => [place[r] EXCEPT !.attempt = @ + 1] \in Typed
    BY <2>1, RetriesAssumption DEF Attempts
  <2> HIDE DEF IInv, Typed
  <2>5. CASE place'[r] = place[r] \/ \E x \in {"send", "reject", "done"} : place'[r] = [place[r] EXCEPT !.at = x]
    BY <2>1, <2>2, <2>5 DEF Typed
  <2>6. CASE \E a \in Order : place'[r] = [place[r] EXCEPT !.at = "update", !.answer = a]
    BY <2>3, <2>6 DEF Typed
  <2>7. CASE place[r].attempt < Retries /\ place'[r] = [place[r] EXCEPT !.attempt = @ + 1]
    BY <2>4, <2>7 DEF Typed
  <2>8. QED
    BY <2>1, <2>5, <2>6, <2>7 DEF PlaceStep
<1>8. ASSUME NEW q \in Requests
      PROVE  request'[q] \in {Idle} \cup
                [at : {"send", "write"}, kind : {"get", "cancel"}, row : Rows, seen : Row,
                 attempt : Attempts, answer : Order \cup {NoOrder}]
  <2>1. /\ request[q] \in {Idle} \cup
                [at : {"send", "write"}, kind : {"get", "cancel"}, row : Rows, seen : Row,
                 attempt : Attempts, answer : Order \cup {NoOrder}]
        /\ RequestStep(q)
    BY <1>1 DEF TypeOK
  <2> DEFINE Typed == [at : {"send", "write"}, kind : {"get", "cancel"}, row : Rows, seen : Row,
                       attempt : Attempts, answer : Order \cup {NoOrder}]
  <2>2. request[q].at = "send" => request[q] \in Typed
    BY <2>1 DEF Idle
  <2>3. CASE \E kind \in {"get", "cancel"}, r \in Rows :
            /\ row[r] \in Row /\ row[r].id # None
            /\ request'[q] = [Idle EXCEPT !.at = "send", !.kind = kind, !.row = r, !.seen = row[r]]
    <3>1. PICK kind \in {"get", "cancel"}, r \in Rows :
            /\ row[r] \in Row
            /\ request'[q] = [Idle EXCEPT !.at = "send", !.kind = kind, !.row = r, !.seen = row[r]]
      BY <2>3
    <3>2. request'[q] = [at |-> "send", kind |-> kind, row |-> r, seen |-> row[r],
                         attempt |-> 0, answer |-> NoOrder]
      BY <3>1 DEF Idle
    <3>3. 0 \in Attempts
      BY RetriesAssumption DEF Attempts
    <3>4. [at |-> "send", kind |-> kind, row |-> r, seen |-> row[r],
           attempt |-> 0, answer |-> NoOrder] \in Typed
      BY <3>1, <3>3
    <3> HIDE DEF IInv
    <3>5. QED
      BY <3>2, <3>4
  <2>4. request[q].at = "send" /\ request[q].attempt < Retries =>
            [request[q] EXCEPT !.attempt = @ + 1] \in Typed
    BY <2>2, RetriesAssumption DEF Attempts
  <2>5. \A a \in Order : request[q].at = "send" =>
            [request[q] EXCEPT !.at = "write", !.answer = a] \in Typed
    BY <2>2
  <2>6. request[q] \in {Idle} \cup Typed
    BY <2>1
  <2> HIDE DEF IInv, Typed
  <2>7. CASE request'[q] \in {request[q], Idle}
    BY <2>6, <2>7 DEF Typed
  <2>8. CASE /\ request[q].at = "send" /\ request[q].attempt < Retries
             /\ request'[q] = [request[q] EXCEPT !.attempt = @ + 1]
    BY <2>4, <2>8 DEF Typed
  <2>9. CASE \E a \in Order, i \in Ids :
            /\ request[q].at = "send" /\ request[q].seen.id = i
            /\ request'[q] = [request[q] EXCEPT !.at = "write", !.answer = a]
            /\ Tells(a, i)'
    BY <2>5, <2>9 DEF Typed
  <2>10. QED
    BY <2>1, <2>3, <2>7, <2>8, <2>9 DEF RequestStep
<1>9. QED
  BY <1>2, <1>3, <1>4, <1>5, <1>6, <1>7, <1>8 DEF TypeOK

(***************************************************************************)
(* The invariant holds.                                                    *)
(***************************************************************************)
LEMMA InitIInv == Init => IInv
<1> SUFFICES ASSUME Init
             PROVE  IInv
  OBVIOUS
<1>1. 0 \in Attempts
  BY RetriesAssumption DEF Attempts
<1>2. TypeOK
  BY <1>1, FailuresAssumption DEF Init, TypeOK, NoRow, NoPlace
<1>3. QED
  BY <1>2 DEF Init, IInv, RowTellsNoMore, OrdersInv, PlaceInv, PlaceTold, RequestInv,
              NoRow, NoOrder, NoPlace, Idle, Ids

LEMMA StepIInv == ASSUME IInv, [Next]_vars PROVE IInv'
<1>1. Stepped /\ \A q \in Requests : RequestStep(q)
  BY StepStepped, StepRequestStep
<1>2. TypeOK' /\ PlaceInv' /\ PlaceTold' /\ RequestInv'
  BY <1>1, StepTypeOK, StepPlaceInv, StepTold, StepRequestInv
<1>3. OrdersInv'
  BY StepOrders
<1>4. RowTellsNoMore'
  BY <1>1, StepTells DEF RowTellsNoMore
<1>5. QED
  BY <1>2, <1>3, <1>4 DEF IInv

LEMMA Invariant == Spec => []IInv
BY InitIInv, StepIInv, PTL DEF Spec

(***************************************************************************)
(* However many handlers, retries, failures and restarts there are, a POST *)
(* has its row for itself, and what is ever written to a row, however late *)
(* it was read, tells of no more than has happened on the exchange.        *)
(***************************************************************************)
THEOREM RowsTellTheTruth == Spec => []Inv
<1>1. IInv => Inv
  <2> SUFFICES ASSUME IInv
               PROVE  PlaceIsAlone
    BY DEF IInv, Inv
  <2>1. \A q \in Requests : request[q] # Idle => place[request[q].row].at = "done"
    BY DEF IInv, RequestInv, Holds
  <2>2. QED
    BY <2>1 DEF PlaceIsAlone
<1>2. QED
  BY <1>1, Invariant, PTL

-----------------------------------------------------------------------------
(***************************************************************************)
(* The orders placed for a row are counted.                                *)
(***************************************************************************)
LEMMA PlacedFinite == ASSUME NEW r \in Rows PROVE IsFiniteSet(Placed(r)) /\ IsFiniteSet(Placed(r)')
<1>1. IsFiniteSet(Attempts)
  BY FS_Interval, RetriesAssumption DEF Attempts
<1>2. Placed(r) \subseteq Attempts /\ Placed(r)' \subseteq Attempts
  BY DEF Placed
<1>3. QED
  BY <1>1, <1>2, FS_Subset

\* A step places the order of the attempt that is being sent, or none.
LEMMA StepPlaced ==
    ASSUME IInv, Stepped, NEW r \in Rows
    PROVE  \/ Placed(r)' = Placed(r)
           \/ /\ place[r].at = "send" /\ Placed(r)' \subseteq Placed(r) \cup {place[r].attempt}
              /\ orders'[<<r, place[r].attempt>>] # orders[<<r, place[r].attempt>>]
<1>1. \A a \in Attempts : <<r, a>> \in Ids /\ <<r, a>>[1] = r /\ <<r, a>>[2] = a
  BY DEF Ids
<1>2. \A a \in Attempts : orders[<<r, a>>] # NoOrder => orders'[<<r, a>>] # NoOrder
  BY <1>1, OrderTypes DEF Stepped, Kept, IInv, TypeOK
<1>3. \A a \in Attempts : orders[<<r, a>>] = NoOrder /\ orders'[<<r, a>>] # NoOrder =>
          place[r].at = "send" /\ a = place[r].attempt
  BY <1>1 DEF Stepped
<1>4. Placed(r) \subseteq Placed(r)'
  BY <1>2 DEF Placed
<1>5. \A a \in Placed(r)' : a \notin Placed(r) =>
          /\ place[r].at = "send" /\ a = place[r].attempt
          /\ orders'[<<r, a>>] # orders[<<r, a>>]
  BY <1>3 DEF Placed
<1>6. QED
  BY <1>4, <1>5

\* What its POST was told of stays known.
LEMMA StepKnown ==
    ASSUME IInv, Stepped, PlaceInv', NEW r \in Rows
    PROVE  Known(r) <= Known(r)'
<1> SUFFICES ASSUME Known(r) = 1
             PROVE  Known(r)' = 1
  BY DEF Known
<1>1. /\ place[r] \in [at : {"none", "send", "update", "reject", "done"},
                       attempt : Attempts, answer : Order \cup {NoOrder}]
      /\ PlaceStep(r) /\ RowStep(r)
  BY DEF IInv, TypeOK, Stepped
<1>2. place[r].at \in {"update", "done"} /\ row[r].status # "rejected"
  BY DEF Known, IInv, PlaceInv
<1>3. place[r].at = "update" => place[r].answer.status # "rejected"
  BY OrderTypes DEF IInv, PlaceTold, Tells, Statuses
<1>4. \A q \in Requests : request[q].at = "write" => request[q].answer.status # "rejected"
  BY OrderTypes DEF IInv, Idle, RequestInv, Holds, Tells, Statuses
<1>5. row'[r].status # "rejected"
  <2>1. CASE row'[r] = row[r]
    BY <1>2, <2>1
  <2>2. CASE row'[r] = [status |-> "new", id |-> None, filled |-> 0]
    BY <2>2
  <2>3. CASE /\ place[r].at = "update"
             /\ row'[r] = [status |-> place[r].answer.status, filled |-> place[r].answer.filled,
                           id |-> <<r, place[r].attempt>>]
    BY <1>3, <2>3
  <2>4. CASE \E q \in Requests :
            /\ request[q].at = "write"
            /\ row'[r] = [status |-> request[q].answer.status, filled |-> request[q].answer.filled,
                          id |-> request[q].seen.id]
    BY <1>4, <2>4
  <2>5. \/ row'[r] = row[r]
        \/ row'[r] = [status |-> "new", id |-> None, filled |-> 0]
        \/ /\ place[r].at = "update"
           /\ row'[r] = [status |-> place[r].answer.status, filled |-> place[r].answer.filled,
                         id |-> <<r, place[r].attempt>>]
        \/ \E q \in Requests :
            /\ request[q].at = "write"
            /\ row'[r] = [status |-> request[q].answer.status, filled |-> request[q].answer.filled,
                          id |-> request[q].seen.id]
    BY <1>1, <1>2 DEF RowStep
  <2>6. QED
    BY <2>1, <2>2, <2>3, <2>4, <2>5
<1>6. place'[r].at \in {"update", "done"}
  BY <1>1, <1>2 DEF PlaceStep
<1>7. QED
  BY <1>5, <1>6 DEF Known

LEMMA StepCount == ASSUME IInv, CountInv, [Next]_vars PROVE CountInv'
<1> SUFFICES ASSUME NEW r \in Rows
             PROVE  Cardinality(Placed(r)') <= lost' + Known(r)'
  BY DEF CountInv
<1>1. Stepped /\ PlaceInv' /\ lost \in Nat /\ lost' \in Nat /\ lost <= lost'
  BY StepStepped, StepPlaceInv, StepFaults DEF IInv, TypeOK
<1>2. Known(r) \in {0, 1} /\ Known(r)' \in {0, 1} /\ Known(r) <= Known(r)'
  BY <1>1, StepKnown DEF Known
<1>3. Cardinality(Placed(r)) \in Nat /\ Cardinality(Placed(r)') \in Nat
  BY PlacedFinite, FS_CardinalityType
<1>4. Cardinality(Placed(r)) <= lost + Known(r)
  BY DEF CountInv
<1>5. CASE Placed(r)' = Placed(r)
  BY <1>1, <1>2, <1>3, <1>4, <1>5
<1>6. CASE /\ place[r].at = "send" /\ Placed(r)' \subseteq Placed(r) \cup {place[r].attempt}
           /\ orders'[<<r, place[r].attempt>>] # orders[<<r, place[r].attempt>>]
  <2>1. Cardinality(Placed(r)') <= Cardinality(Placed(r)) + 1
    <3>1. IsFiniteSet(Placed(r) \cup {place[r].attempt})
          /\ Cardinality(Placed(r) \cup {place[r].attempt}) \in {Cardinality(Placed(r)), Cardinality(Placed(r)) + 1}
      BY PlacedFinite, FS_AddElement
    <3>2. Cardinality(Placed(r)') <= Cardinality(Placed(r) \cup {place[r].attempt})
      BY <3>1, <1>6, FS_Subset
    <3>3. QED
      BY <3>1, <3>2, <1>3
  <2>2. Known(r) = 0
    BY <1>6 DEF Known
  <2>3. lost' = lost + 1 \/ (lost' = lost /\ place'[r].at = "update")
    <3>1. PlaceStep(r) /\ place[r] \in [at : {"none", "send", "update", "reject", "done"},
                                        attempt : Attempts, answer : Order \cup {NoOrder}]
      BY <1>1 DEF Stepped, IInv, TypeOK
    <3>2. QED
      BY <3>1, <1>6 DEF PlaceStep
  <2>4. lost' = lost => Known(r)' = 1
    BY <2>3, <1>1 DEF Known
  <2>5. QED
    BY <2>1, <2>2, <2>3, <2>4, <1>1, <1>2, <1>3, <1>4
<1>7. QED
  BY <1>1, <1>5, <1>6, StepPlaced

(***************************************************************************)
(* Retries, failed statements and restarts place no order by themselves:   *)
(* for any row, each order on the exchange beyond the one asked for, and   *)
(* each order of a row that says rejected, is one whose answer was lost.   *)
(***************************************************************************)
THEOREM OrdersAreAccountedFor == Spec => []OrdersAccountedFor
<1>1. Init => CountInv
  <2> SUFFICES ASSUME Init, NEW r \in Rows
               PROVE  Cardinality(Placed(r)) <= lost + Known(r)
    BY DEF CountInv
  <2>1. Placed(r) = {} /\ lost = 0 /\ Known(r) = 0
    BY DEF Init, Placed, Known, NoPlace, Ids
  <2>2. QED
    BY <2>1, FS_EmptySet
<1>2. IInv /\ CountInv => OrdersAccountedFor
  <2> SUFFICES ASSUME IInv, CountInv, NEW r \in Rows
               PROVE  Cardinality(Placed(r)) <= lost + (IF row[r].status = "rejected" THEN 0 ELSE 1)
    BY DEF OrdersAccountedFor
  <2>1. Cardinality(Placed(r)) \in Nat /\ lost \in Nat
    BY PlacedFinite, FS_CardinalityType DEF IInv, TypeOK
  <2>2. Cardinality(Placed(r)) <= lost + Known(r)
    BY DEF CountInv
  <2>3. row[r].status = "rejected" => Known(r) = 0
    BY DEF IInv, PlaceInv, Known
  <2>4. QED
    BY <2>1, <2>2, <2>3 DEF Known
<1>3. QED
  BY <1>1, <1>2, Invariant, StepCount, PTL DEF Spec
=============================================================================
