--------------------------- MODULE GridBotProofs ---------------------------
(***************************************************************************)
(* Proofs about GridBot, for any handlers, checkers, grids and bounds.     *)
(***************************************************************************)
EXTENDS GridBot, FiniteSetTheorems, SequenceTheorems, TLAPS

HandlerSteps == {"idle", "clear", "create", "place", "open", "list", "cancel", "drop", "halt"}
CheckerSteps == {"idle", "check", "ask", "fill", "profit", "counter", "insert"}

(***************************************************************************)
(* What a goroutine has in hand: a row where it needs one, and an order id *)
(* between the exchange's answer and the row it is stored in, which is of  *)
(* the side and the price that row is to have.                             *)
(***************************************************************************)
Holds(p) ==
    /\ p \in Handlers => pc[p] \in HandlerSteps
    /\ p \in Checkers => pc[p] \in CheckerSteps
    /\ pc[p] \in {"open", "fill", "profit", "counter", "insert"} => at[p] # 0
    /\ pc[p] \in {"idle", "clear"} => work[p] = {}
    /\ pc[p] = "create" => Cardinality(work[p]) <= Grids
    /\ oid[p] # 0 <=> pc[p] \in {"open", "insert"}
    /\ pc[p] = "open" => /\ book[oid[p]].side = rows[at[p]].side
                         /\ book[oid[p]].price = rows[at[p]].price
    /\ pc[p] = "insert" => /\ InRange(rows[at[p]])
                           /\ book[oid[p]].side = CounterSide(rows[at[p]])
                           /\ book[oid[p]].price = CounterPrice(rows[at[p]])

HoldsInv == \A p \in Procs : Holds(p)

\* An order id that is not stored yet is in one goroutine's hands only.
FreshInv ==
    \A p \in Procs : oid[p] # 0 =>
        /\ \A i \in DOMAIN rows : rows[i].oid # oid[p]
        /\ \A q \in Procs \ {p} : oid[q] # oid[p]

IInv == TypeOK /\ RowsTellOrders /\ HoldsInv /\ FreshInv

-----------------------------------------------------------------------------
\* The rows that a start is still to store order ids in.
Mine(h) ==
    (IF pc[h] \in {"create", "place", "open"} THEN work[h] ELSE {})
    \cup (IF pc[h] = "open" THEN {at[h]} ELSE {})

MineInv ==
    /\ \A h \in Handlers : \A i \in Mine(h) :
        rows[i].oid = 0 /\ \A g \in Handlers \ {h} : i \notin Mine(g)
    /\ \A h \in Handlers : pc[h] = "open" => at[h] \notin work[h]

\* A row that is open, or listed as such, names an order; one that is acted
\* upon, an order that is filled.
FilledInv ==
    /\ \A i \in DOMAIN rows : rows[i].status = "open" => rows[i].oid # 0
    /\ \A c \in Checkers :
        /\ pc[c] # "idle" => \A i \in work[c] : rows[i].oid # 0
        /\ pc[c] \in {"fill", "profit", "counter", "insert"} =>
            rows[at[c]].oid # 0 /\ book[rows[at[c]].oid].state = "filled"

\* With one checker.
CountedInv ==
    /\ \A o \in DOMAIN book : /\ profit[o] <= faults + 1
                              /\ profit[o] > 0 => book[o].state = "filled"
    /\ \A i \in DOMAIN rows : rows[i].status = "open" => profit[rows[i].oid] <= faults
    /\ \A p \in Procs : oid[p] # 0 => profit[oid[p]] <= faults
    /\ \A c \in Checkers :
        /\ pc[c] # "idle" => \A i \in work[c] : profit[rows[i].oid] <= faults
        /\ pc[c] \in {"fill", "profit", "counter", "insert"} => at[c] \notin work[c]
        /\ pc[c] \in {"fill", "profit"} => profit[rows[at[c]].oid] <= faults
        /\ pc[c] = "profit" /\ rows[at[c]].status = "open" => profit[rows[at[c]].oid] < faults

\* With one handler, and no fault: where the orders of a start are.
Started    == {o \in Live : book[o].by = "start"}
OpenFor(o) == \E i \in Open : rows[i].oid = o
Tracked(h) ==
    /\ pc[h] \in {"clear", "create", "place", "open"} => status = "stopped"
    /\ pc[h] # "drop"
    /\ \A o \in Started :
        /\ pc[h] \notin {"clear", "create", "halt"}
        /\ pc[h] = "idle" => status = "running"
        /\ pc[h] \in {"idle", "place", "list"} => OpenFor(o)
        /\ pc[h] = "open" => o = oid[h] \/ OpenFor(o)
        /\ pc[h] = "cancel" => \E i \in work[h] : rows[i].oid = o

StartedInv == faults = 0 => \A h \in Handlers : Tracked(h)

-----------------------------------------------------------------------------
(***************************************************************************)
(* What a step does to the table and the exchange.                         *)
(***************************************************************************)
LEMMA Appending ==
    ASSUME NEW S, NEW s \in Seq(S), NEW e \in S
    PROVE  /\ Append(s, e) \in Seq(S) /\ Len(s) \in Nat
           /\ DOMAIN s = 1..Len(s) /\ DOMAIN Append(s, e) = 1..(Len(s) + 1)
           /\ Len(Append(s, e)) = Len(s) + 1
           /\ \A i \in 1..Len(s) : Append(s, e)[i] = s[i]
           /\ Append(s, e)[Len(s) + 1] = e
BY AppendProperties, LenProperties

LEMMA Mapped ==
    ASSUME NEW S, NEW n \in Nat, NEW f \in [1..n -> S]
    PROVE  f \in Seq(S) /\ Len(f) = n /\ DOMAIN f = 1..n
OBVIOUS

LEMMA Sizes ==
    ASSUME TypeOK
    PROVE  /\ Len(rows) \in Nat /\ DOMAIN rows = 1..Len(rows)
           /\ Len(book) \in Nat /\ DOMAIN book = 1..Len(book)
           /\ \A i \in DOMAIN rows : rows[i] \in Row /\ rows[i].oid \in 0..Len(book)
           /\ \A o \in DOMAIN book : book[o] \in Order /\ profit[o] \in Nat
<1>1. /\ Len(rows) \in Nat /\ DOMAIN rows = 1..Len(rows) /\ rows \in [1..Len(rows) -> Row]
      /\ Len(book) \in Nat /\ DOMAIN book = 1..Len(book) /\ book \in [1..Len(book) -> Order]
  BY LenProperties DEF TypeOK
<1>2. \A i \in DOMAIN rows : rows[i] \in Row /\ rows[i].oid \in Nat /\ rows[i].oid <= Len(book)
  BY <1>1 DEF TypeOK, Row
<1>3. \A o \in DOMAIN book : book[o] \in Order /\ profit[o] \in Nat
  BY <1>1 DEF TypeOK
<1>4. QED
  BY <1>1, <1>2, <1>3

\* Nothing is forgotten of a row or of an order.
Grew ==
    /\ rows' \in Seq(Row) /\ Len(rows) <= Len(rows')
    /\ \A i \in DOMAIN rows : rows'[i].side = rows[i].side /\ rows'[i].price = rows[i].price
    /\ book' \in Seq(Order) /\ Len(book) <= Len(book')
    /\ \A o \in DOMAIN book : book'[o].side = book[o].side /\ book'[o].price = book[o].price

Accounts ==
    /\ Grew
    /\ \A i \in DOMAIN rows' : rows'[i].oid <= Len(book')
    /\ profit' \in [DOMAIN book' -> Nat]
    /\ RowsTellOrders'
    /\ FreshInv'

\* Only statuses and states change.
RowsQuiet ==
    /\ rows' \in Seq(Row) /\ Len(rows') = Len(rows)
    /\ \A i \in DOMAIN rows : /\ rows'[i].side = rows[i].side /\ rows'[i].price = rows[i].price
                              /\ rows'[i].oid = rows[i].oid
BookQuiet ==
    /\ book' \in Seq(Order) /\ Len(book') = Len(book)
    /\ \A o \in DOMAIN book : book'[o].side = book[o].side /\ book'[o].price = book[o].price

LEMMA Quiet ==
    ASSUME IInv, RowsQuiet, BookQuiet, profit' \in [DOMAIN book -> Nat],
           \A p \in Procs : oid'[p] \in {oid[p], 0}
    PROVE  Accounts
<1>1. DOMAIN rows' = DOMAIN rows /\ DOMAIN book' = DOMAIN book
  BY Sizes, LenProperties DEF IInv, RowsQuiet, BookQuiet
<1>2. Grew /\ \A i \in DOMAIN rows' : rows'[i].oid <= Len(book')
  BY <1>1, Sizes DEF IInv, RowsQuiet, BookQuiet, Grew
<1>3. RowsTellOrders'
  BY <1>1, Sizes DEF IInv, RowsQuiet, BookQuiet, RowsTellOrders
<1>4. FreshInv'
  BY <1>1 DEF IInv, RowsQuiet, FreshInv
<1>5. QED
  BY <1>1, <1>2, <1>3, <1>4 DEF Accounts

\* A row without an order.
LEMMA Created ==
    ASSUME IInv, NEW new \in Row, new.oid = 0, rows' = Append(rows, new), UNCHANGED <<book, profit, oid>>
    PROVE  Accounts
<1>1. /\ rows' \in Seq(Row) /\ DOMAIN rows = 1..Len(rows) /\ DOMAIN rows' = 1..(Len(rows) + 1)
      /\ Len(rows') = Len(rows) + 1 /\ Len(rows) \in Nat
      /\ \A i \in 1..Len(rows) : rows'[i] = rows[i]
      /\ rows'[Len(rows) + 1] = new
  BY Appending DEF IInv, TypeOK
<1>2. Grew /\ (\A i \in DOMAIN rows' : rows'[i].oid <= Len(book')) /\ profit' \in [DOMAIN book' -> Nat]
  BY <1>1, Sizes DEF IInv, TypeOK, Grew
<1>3. RowsTellOrders'
  BY <1>1 DEF IInv, RowsTellOrders
<1>4. FreshInv'
  BY <1>1 DEF IInv, FreshInv
<1>5. QED
  BY <1>2, <1>3, <1>4 DEF Accounts

\* An order of which a goroutine has the id, or nobody.
LEMMA Ordered ==
    ASSUME IInv, NEW p \in Procs, NEW new \in Order, UNCHANGED rows,
           book' = Append(book, new), profit' = Append(profit, 0),
           NEW o \in {0, Len(book) + 1}, oid' = [oid EXCEPT ![p] = o]
    PROVE  Accounts
<1>1. /\ book' \in Seq(Order) /\ DOMAIN book = 1..Len(book) /\ DOMAIN book' = 1..(Len(book) + 1)
      /\ Len(book') = Len(book) + 1 /\ Len(book) \in Nat
      /\ \A i \in 1..Len(book) : book'[i] = book[i]
  BY Appending DEF IInv, TypeOK
<1>2. profit' \in [DOMAIN book' -> Nat]
  <2>1. profit \in Seq(Nat) /\ Len(profit) = Len(book)
    BY <1>1, Mapped DEF IInv, TypeOK
  <2>2. profit' \in Seq(Nat) /\ Len(profit') = Len(book) + 1
    BY <2>1, Appending
  <2>3. QED
    BY <1>1, <2>2, LenProperties
<1>3. \A i \in DOMAIN rows : rows[i].oid \in 0..Len(book)
  BY Sizes DEF IInv
<1>4. Grew /\ \A i \in DOMAIN rows' : rows'[i].oid <= Len(book')
  BY <1>1, <1>3 DEF IInv, TypeOK, Grew
<1>5. RowsTellOrders'
  BY <1>1, <1>3 DEF IInv, RowsTellOrders
<1>6. FreshInv'
  <2>1. /\ oid'[p] = o /\ \A q \in Procs \ {p} : oid'[q] = oid[q]
        /\ \A q \in Procs : oid[q] \in 0..Len(book)
    BY DEF IInv, TypeOK
  <2>2. \A q \in Procs : oid[q] # Len(book) + 1
    BY <1>1, <2>1
  <2>3. \A i \in DOMAIN rows : rows[i].oid # Len(book) + 1
    BY <1>1, <1>3
  <2>4. QED
    BY <2>1, <2>2, <2>3 DEF IInv, FreshInv
<1>7. QED
  BY <1>2, <1>4, <1>5, <1>6 DEF Accounts

\* An order id goes from a goroutine to the row of the order.
LEMMA Stored ==
    ASSUME IInv, NEW p \in Procs, oid[p] # 0, oid' = [oid EXCEPT ![p] = 0], UNCHANGED <<book, profit>>,
           rows' \in Seq(Row), Len(rows) <= Len(rows'), NEW i \in DOMAIN rows',
           \A j \in DOMAIN rows' \ {i} : j \in DOMAIN rows /\ rows'[j] = rows[j],
           i \in DOMAIN rows => rows'[i].side = rows[i].side /\ rows'[i].price = rows[i].price,
           rows'[i].oid = oid[p], rows'[i].side = book[oid[p]].side, rows'[i].price = book[oid[p]].price
    PROVE  Accounts
<1>1. DOMAIN rows' = 1..Len(rows') /\ DOMAIN rows = 1..Len(rows) /\ Len(rows') \in Nat /\ Len(rows) \in Nat
  BY Sizes, LenProperties DEF IInv
<1>2. \A j \in DOMAIN rows : j \in DOMAIN rows'
  BY <1>1
<1>3. oid[p] \in 0..Len(book) /\ \A j \in DOMAIN rows : rows[j].oid \in 0..Len(book)
  BY Sizes DEF IInv, TypeOK
<1>4. Grew
  BY <1>2 DEF IInv, TypeOK, Grew
<1>5. (\A j \in DOMAIN rows' : rows'[j].oid <= Len(book')) /\ profit' \in [DOMAIN book' -> Nat]
  BY <1>3 DEF IInv, TypeOK
<1>6. \A j \in DOMAIN rows : rows[j].oid # oid[p]
  BY DEF IInv, FreshInv
<1>7. RowsTellOrders'
  BY <1>6 DEF IInv, RowsTellOrders
<1>8. FreshInv'
  <2>1. oid'[p] = 0 /\ \A q \in Procs \ {p} : oid'[q] = oid[q]
    BY DEF IInv, TypeOK
  <2>2. \A q \in Procs \ {p} : oid[q] # oid[p]
    BY DEF IInv, FreshInv
  <2>3. QED
    BY <2>1, <2>2 DEF IInv, FreshInv
<1>9. QED
  BY <1>4, <1>5, <1>7, <1>8 DEF Accounts

-----------------------------------------------------------------------------
(***************************************************************************)
(* What a step does to its goroutine, and to the others.                   *)
(***************************************************************************)
LocalOK ==
    /\ pc \in [Procs -> Steps]
    /\ work \in [Procs -> SUBSET DOMAIN rows]
    /\ at \in [Procs -> 0..Len(rows)]
    /\ oid \in [Procs -> 0..Len(book)]
    /\ price \in [Procs -> Nat]
CountersOK ==
    /\ status \in {"running", "stopped"}
    /\ requests \in 0..MaxRequests /\ settled \in 0..MaxSettled /\ faults \in 0..MaxFaults

Same(q) == pc'[q] = pc[q] /\ work'[q] = work[q] /\ at'[q] = at[q] /\ oid'[q] = oid[q]

LEMMA HoldsStays ==
    ASSUME IInv, Accounts, NEW q \in Procs, Same(q)
    PROVE  Holds(q)'
<1>1. Holds(q) /\ at[q] \in 0..Len(rows) /\ oid[q] \in 0..Len(book)
  BY DEF IInv, HoldsInv, TypeOK
<1>2. at[q] # 0 => rows'[at[q]].side = rows[at[q]].side /\ rows'[at[q]].price = rows[at[q]].price
  BY <1>1, Sizes DEF IInv, Accounts, Grew
<1>3. oid[q] # 0 => book'[oid[q]].side = book[oid[q]].side /\ book'[oid[q]].price = book[oid[q]].price
  BY <1>1, Sizes DEF IInv, Accounts, Grew
<1>4. at[q] # 0 => /\ InRange(rows[at[q]]) <=> InRange(rows'[at[q]])
                   /\ CounterSide(rows[at[q]]) = CounterSide(rows'[at[q]])
                   /\ CounterPrice(rows[at[q]]) = CounterPrice(rows'[at[q]])
  BY <1>2 DEF InRange, CounterSide, CounterPrice
<1>5. QED
  BY <1>1, <1>2, <1>3, <1>4 DEF Holds, Same

LEMMA Invariance ==
    ASSUME IInv, Accounts, LocalOK', CountersOK', \A q \in Procs : Same(q) \/ Holds(q)'
    PROVE  IInv'
<1>1. TypeOK'
  BY DEF Accounts, Grew, LocalOK, CountersOK, TypeOK
<1>2. HoldsInv'
  BY HoldsStays DEF HoldsInv
<1>3. QED
  BY <1>1, <1>2 DEF IInv, Accounts

\* What a goroutine holds stays typed as the table and the book grow.
LEMMA LocalGrows ==
    ASSUME IInv, Accounts
    PROVE  /\ Len(rows) \in Nat /\ Len(rows') \in Nat /\ Len(rows) <= Len(rows')
           /\ Len(book) \in Nat /\ Len(book') \in Nat /\ Len(book) <= Len(book')
           /\ DOMAIN rows = 1..Len(rows) /\ DOMAIN rows' = 1..Len(rows')
           /\ DOMAIN book = 1..Len(book) /\ DOMAIN book' = 1..Len(book')
           /\ work \in [Procs -> SUBSET DOMAIN rows']
           /\ at \in [Procs -> 0..Len(rows')]
           /\ oid \in [Procs -> 0..Len(book')]
<1>1. /\ Len(rows) \in Nat /\ Len(rows') \in Nat /\ Len(rows) <= Len(rows')
      /\ Len(book) \in Nat /\ Len(book') \in Nat /\ Len(book) <= Len(book')
      /\ DOMAIN rows = 1..Len(rows) /\ DOMAIN rows' = 1..Len(rows')
      /\ DOMAIN book = 1..Len(book) /\ DOMAIN book' = 1..Len(book')
  BY Sizes, LenProperties DEF IInv, Accounts, Grew
<1>2. DOMAIN rows \subseteq DOMAIN rows' /\ 0..Len(rows) \subseteq 0..Len(rows')
      /\ 0..Len(book) \subseteq 0..Len(book')
  BY <1>1
<1>3. work \in [Procs -> SUBSET DOMAIN rows']
  BY <1>2 DEF IInv, TypeOK
<1>4. at \in [Procs -> 0..Len(rows')] /\ oid \in [Procs -> 0..Len(book')]
  BY <1>2 DEF IInv, TypeOK
<1>5. QED
  BY <1>1, <1>3, <1>4

\* A goroutine goes on with step st, list w, row a, order id o and price n.
Moves(p, st, w, a, o, n) ==
    /\ pc' = [pc EXCEPT ![p] = st] /\ work' = [work EXCEPT ![p] = w] /\ at' = [at EXCEPT ![p] = a]
    /\ oid' = [oid EXCEPT ![p] = o] /\ price' = [price EXCEPT ![p] = n]

Typed(st, w, a, o, n) ==
    /\ st \in Steps /\ w \in SUBSET DOMAIN rows' /\ a \in 0..Len(rows')
    /\ o \in 0..Len(book') /\ n \in Nat

LEMMA Unmoved ==
    ASSUME IInv, NEW p \in Procs
    PROVE  /\ pc = [pc EXCEPT ![p] = pc[p]] /\ work = [work EXCEPT ![p] = work[p]]
           /\ at = [at EXCEPT ![p] = at[p]] /\ oid = [oid EXCEPT ![p] = oid[p]]
           /\ price = [price EXCEPT ![p] = price[p]]
BY DEF IInv, TypeOK

\* What a goroutine has, and what it has when it has nothing, is typed.
LEMMA InHand ==
    ASSUME IInv, Accounts, NEW p \in Procs
    PROVE  /\ work[p] \in SUBSET DOMAIN rows' /\ at[p] \in 0..Len(rows') /\ oid[p] \in 0..Len(book')
           /\ price[p] \in Nat /\ pc[p] \in Steps
           /\ {} \in SUBSET DOMAIN rows' /\ 0 \in 0..Len(rows') /\ 0 \in 0..Len(book') /\ 0 \in Nat
BY LocalGrows DEF IInv, TypeOK

LEMMA Moving ==
    ASSUME IInv, Accounts, CountersOK', NEW p \in Procs, NEW st, NEW w, NEW a, NEW o, NEW n,
           Moves(p, st, w, a, o, n), Typed(st, w, a, o, n)
    PROVE  /\ pc'[p] = st /\ work'[p] = w /\ at'[p] = a /\ oid'[p] = o
           /\ \A q \in Procs \ {p} : Same(q)
           /\ Holds(p)' => IInv'
<1>1. work \in [Procs -> SUBSET DOMAIN rows'] /\ at \in [Procs -> 0..Len(rows')]
      /\ oid \in [Procs -> 0..Len(book')] /\ pc \in [Procs -> Steps] /\ price \in [Procs -> Nat]
  BY LocalGrows DEF IInv, TypeOK
<1>2. /\ work' \in [Procs -> SUBSET DOMAIN rows'] /\ at' \in [Procs -> 0..Len(rows')]
      /\ oid' \in [Procs -> 0..Len(book')] /\ pc' \in [Procs -> Steps] /\ price' \in [Procs -> Nat]
  BY <1>1 DEF Moves, Typed
<1>3. pc'[p] = st /\ work'[p] = w /\ at'[p] = a /\ oid'[p] = o
  BY <1>1 DEF Moves
<1>4. \A q \in Procs \ {p} : Same(q)
  BY <1>1 DEF Moves, Same
<1>5. LocalOK'
  BY <1>2 DEF LocalOK
<1>6. QED
  BY <1>3, <1>4, <1>5, Invariance

LEMMA Calls ==
    ASSUME TypeOK, NEW ok \in BOOLEAN, Call(ok)
    PROVE  faults' \in 0..MaxFaults /\ (ok => faults' = faults) /\ (~ok => faults' = faults + 1)
BY BoundsAssumption DEF TypeOK, Call

LEMMA CancellingAll ==
    ASSUME TypeOK, NEW ok \in BOOLEAN, CancelAllGrids(ok)
    PROVE  RowsQuiet /\ faults' \in 0..MaxFaults
<1>1. Len(rows) \in Nat /\ DOMAIN rows = 1..Len(rows) /\ \A i \in DOMAIN rows : rows[i] \in Row
  BY Sizes
<1>2. CASE ok
  <2>1. rows' = [i \in DOMAIN rows |->
                    IF rows[i].status \in {"pending", "open"}
                    THEN [rows[i] EXCEPT !.status = "cancelled"] ELSE rows[i]]
    BY <1>2 DEF CancelAllGrids
  <2>2. \A i \in DOMAIN rows : [rows[i] EXCEPT !.status = "cancelled"] \in Row
    BY <1>1 DEF Row, RowStatus
  <2>3. rows' \in [1..Len(rows) -> Row]
    BY <1>1, <2>1, <2>2
  <2>4. rows' \in Seq(Row) /\ Len(rows') = Len(rows)
    BY <1>1, <2>3, Mapped
  <2>5. \A i \in DOMAIN rows : /\ rows'[i].side = rows[i].side /\ rows'[i].price = rows[i].price
                              /\ rows'[i].oid = rows[i].oid
    BY <1>1, <2>1 DEF Row
  <2>6. QED
    BY <2>4, <2>5, Calls DEF RowsQuiet, CancelAllGrids
<1>3. CASE ~ok
  BY <1>3, Calls DEF CancelAllGrids, RowsQuiet, TypeOK
<1>4. QED
  BY <1>2, <1>3

LEMMA Placing ==
    ASSUME IInv, NEW p \in Procs, NEW reply \in Replies, NEW side \in Sides, NEW pr \in Nat,
           NEW by \in {"start", "check"}, PlaceOrder(p, reply, side, pr, by), UNCHANGED rows
    PROVE  /\ Accounts /\ faults' \in 0..MaxFaults
           /\ reply # "ok" => oid' = [oid EXCEPT ![p] = 0]
           /\ reply = "ok" => /\ oid' = [oid EXCEPT ![p] = Len(book)+1]
                              /\ Len(book') = Len(book) + 1
                              /\ book'[Len(book)+1].side = side /\ book'[Len(book)+1].price = pr
<1> DEFINE new == [side |-> side, price |-> pr, state |-> "live", by |-> by]
<1>1. new \in Order
  BY DEF Order
<1>2. faults' \in 0..MaxFaults
  BY Calls DEF PlaceOrder, IInv
<1>3. CASE reply = "refused"
  <2>1. UNCHANGED <<book, profit>> /\ oid' = [oid EXCEPT ![p] = 0]
    BY <1>3 DEF PlaceOrder
  <2>2. RowsQuiet /\ BookQuiet /\ profit' \in [DOMAIN book -> Nat]
    BY <2>1 DEF IInv, TypeOK, RowsQuiet, BookQuiet
  <2>3. \A q \in Procs : oid'[q] \in {oid[q], 0}
    BY <2>1 DEF IInv, TypeOK
  <2>4. QED
    BY <1>2, <1>3, <2>1, <2>2, <2>3, Quiet
<1>4. CASE reply # "refused"
  <2>1. book' = Append(book, new) /\ profit' = Append(profit, 0)
    BY <1>4 DEF PlaceOrder
  <2>2. PICK o \in {0, Len(book) + 1} : oid' = [oid EXCEPT ![p] = o] /\ o = (IF reply = "ok" THEN Len(book) + 1 ELSE 0)
    BY DEF PlaceOrder
  <2>3. Len(book') = Len(book) + 1 /\ book'[Len(book) + 1] = new
    BY <1>1, <2>1, Appending DEF IInv, TypeOK
  <2>4. new.side = side /\ new.price = pr
    OBVIOUS
  <2> HIDE DEF new
  <2>5. Accounts
    BY <1>1, <2>1, <2>2, Ordered
  <2>6. QED
    BY <1>2, <2>2, <2>3, <2>4, <2>5
<1>5. QED
  BY <1>3, <1>4

LEMMA Still ==
    ASSUME IInv, UNCHANGED <<rows, book, profit>>, \A p \in Procs : oid'[p] \in {oid[p], 0}
    PROVE  Accounts
BY Quiet DEF IInv, TypeOK, RowsQuiet, BookQuiet

\* A change of one order's state.  (A row without an order names order 0,
\* which is none, and changes nothing.)
LEMMA Struck ==
    ASSUME TypeOK, NEW o, NEW state \in {"live", "filled", "cancelled"},
           book' = [book EXCEPT ![o].state = state] \/ UNCHANGED book
    PROVE  BookQuiet
<1>1. Len(book) \in Nat /\ book \in [1..Len(book) -> Order] /\ DOMAIN book = 1..Len(book)
  BY LenProperties DEF TypeOK
<1>2. CASE book' = [book EXCEPT ![o].state = state]
  <2>1. book' = [j \in 1..Len(book) |-> IF j = o THEN [book[o] EXCEPT !.state = state] ELSE book[j]]
    BY <1>1, <1>2
  <2>2. \A j \in 1..Len(book) : book'[j] \in Order /\ book'[j].side = book[j].side
                                /\ book'[j].price = book[j].price
    <3>1. SUFFICES ASSUME NEW j \in 1..Len(book)
                   PROVE  /\ book'[j] \in Order
                          /\ book'[j].side = book[j].side /\ book'[j].price = book[j].price
      OBVIOUS
    <3>2. book[j] \in Order /\ [book[j] EXCEPT !.state = state] \in Order
      BY <1>1 DEF Order
    <3>3. book'[j] = [book[j] EXCEPT !.state = state] \/ book'[j] = book[j]
      BY <2>1
    <3>4. QED
      BY <3>2, <3>3 DEF Order
  <2>3. book' \in [1..Len(book) -> Order]
    BY <2>1, <2>2
  <2>4. book' \in Seq(Order) /\ Len(book') = Len(book)
    BY <1>1, <2>3, Mapped
  <2>5. QED
    BY <1>1, <2>2, <2>4 DEF BookQuiet
<1>3. CASE UNCHANGED book
  BY <1>3 DEF BookQuiet, TypeOK
<1>4. QED
  BY <1>2, <1>3

-----------------------------------------------------------------------------
(***************************************************************************)
(* The requests.                                                           *)
(***************************************************************************)
LEMMA HandlerHolds ==
    ASSUME IInv, NEW h \in Handlers
    PROVE  h \in Procs /\ h \notin Checkers /\ Holds(h)
BY ProcsAssumption DEF Procs, IInv, HoldsInv

LEMMA StepRequest ==
    ASSUME IInv, NEW h \in Handlers, RequestStart(h) \/ RequestDelete(h)
    PROVE  IInv'
<1>1. h \in Procs /\ h \notin Checkers /\ Holds(h)
  BY HandlerHolds
<1>2. /\ pc[h] = "idle" /\ UNCHANGED <<status, rows, profit, book, work, at, oid, settled, faults>>
      /\ requests' = requests + 1 /\ requests < MaxRequests
  BY DEF RequestStart, RequestDelete, Request
<1>3. Accounts /\ CountersOK'
  BY <1>2, Still, BoundsAssumption DEF IInv, TypeOK, CountersOK
<1>4. PICK st \in {"clear", "halt"}, n \in Nat : pc' = [pc EXCEPT ![h] = st] /\ price' = [price EXCEPT ![h] = n]
  <2>1. CASE RequestStart(h)
    BY <2>1, GridsAssumption DEF RequestStart, Goto
  <2>2. CASE RequestDelete(h)
    <3>1. price' = [price EXCEPT ![h] = price[h]] /\ price[h] \in Nat
      BY <1>1, <2>2, Unmoved DEF RequestDelete, IInv, TypeOK
    <3>2. QED
      BY <2>2, <3>1 DEF RequestDelete, Goto
  <2>3. QED
    BY <2>1, <2>2
<1>5. Moves(h, st, work[h], at[h], oid[h], n) /\ Typed(st, work[h], at[h], oid[h], n)
  BY <1>1, <1>2, <1>3, <1>4, Unmoved, InHand DEF Moves, Typed, Steps
<1>6. pc'[h] = st /\ work'[h] = work[h] /\ oid'[h] = oid[h] /\ (Holds(h)' => IInv')
  BY <1>1, <1>3, <1>5, Moving
<1>7. Holds(h)'
  BY <1>1, <1>2, <1>6 DEF Holds, HandlerSteps
<1>8. QED
  BY <1>6, <1>7

LEMMA StepClear ==
    ASSUME IInv, NEW h \in Handlers, NEW ok \in BOOLEAN, Clear(h, ok)
    PROVE  IInv'
<1>1. h \in Procs /\ h \notin Checkers /\ Holds(h)
  BY HandlerHolds
<1>2. /\ pc[h] = "clear" /\ pc' = [pc EXCEPT ![h] = "create"]
      /\ UNCHANGED <<status, profit, book, work, at, oid, price, requests, settled>>
  BY DEF Clear, Goto
<1>3. Accounts /\ CountersOK'
  BY <1>2, CancellingAll, Quiet DEF Clear, IInv, TypeOK, BookQuiet, CountersOK
<1>4. /\ Moves(h, "create", work[h], at[h], oid[h], price[h])
      /\ Typed("create", work[h], at[h], oid[h], price[h])
  BY <1>1, <1>2, <1>3, Unmoved, InHand DEF Moves, Typed, Steps
<1>5. pc'[h] = "create" /\ work'[h] = work[h] /\ oid'[h] = oid[h] /\ (Holds(h)' => IInv')
  BY <1>1, <1>3, <1>4, Moving
<1>6. Cardinality({}) <= Grids
  BY FS_EmptySet, GridsAssumption
<1>7. Holds(h)'
  BY <1>1, <1>2, <1>5, <1>6 DEF Holds, HandlerSteps
<1>8. QED
  BY <1>5, <1>7

\* The level of the row that CreateGrid appends.
LEMMA NextLevel ==
    ASSUME IInv, NEW h \in Handlers, pc[h] = "create"
    PROVE  /\ Cardinality(work[h]) \in 0..Grids
           /\ Cardinality(work[h] \cup {Len(rows) + 1}) = Cardinality(work[h]) + 1
<1>1. work[h] \subseteq 1..Len(rows) /\ Len(rows) \in Nat
  BY HandlerHolds, Sizes DEF IInv, TypeOK
<1>2. Cardinality(work[h]) <= Grids
  BY HandlerHolds DEF Holds
<1>3. IsFiniteSet(1..Len(rows))
  BY <1>1, FS_Interval
<1>4. IsFiniteSet(work[h])
  BY <1>1, <1>3, FS_Subset
<1>5. Cardinality(work[h]) \in Nat
  BY <1>4, FS_CardinalityType
<1>6. Len(rows) + 1 \notin work[h]
  BY <1>1
<1>7. Cardinality(work[h] \cup {Len(rows) + 1}) = Cardinality(work[h]) + 1
  BY <1>4, <1>6, FS_AddElement
<1>8. QED
  BY <1>2, <1>5, <1>7, GridsAssumption

LEMMA NewRow ==
    ASSUME IInv, NEW h \in Handlers, NEW ok \in BOOLEAN, ok, CreateGrid(h, ok)
    PROVE  \E new \in Row : rows' = Append(rows, new) /\ new.oid = 0 /\ new.status = "pending"
<1> DEFINE level  == Cardinality(work[h])
           new(s) == [level |-> level, price |-> 2 * level, oid |-> 0, status |-> "pending", side |-> s]
<1>1. level \in 0..Grids /\ Grids \in Nat
  BY NextLevel, GridsAssumption DEF CreateGrid
<1>2. PICK s \in Sides : rows' = Append(rows, new(s))
  BY DEF CreateGrid, Sides
<1> HIDE DEF level
<1>3. new(s) \in Row
  BY <1>1 DEF Row, RowStatus
<1>4. QED
  BY <1>2, <1>3

LEMMA StepCreateGrid ==
    ASSUME IInv, NEW h \in Handlers, NEW ok \in BOOLEAN, CreateGrid(h, ok)
    PROVE  IInv'
<1> DEFINE level == Cardinality(work[h])
           list  == work[h] \cup {Len(rows) + 1}
<1>1. h \in Procs /\ h \notin Checkers /\ Holds(h)
  BY HandlerHolds
<1>2. pc[h] = "create" /\ UNCHANGED <<status, profit, book, requests, settled>> /\ CountersOK'
  BY Calls DEF CreateGrid, IInv, TypeOK, CountersOK
<1>3. CASE ok
  <2>1. /\ UNCHANGED <<at, oid, price>> /\ work' = [work EXCEPT ![h] = list]
        /\ pc' = [pc EXCEPT ![h] = IF level = Grids THEN "place" ELSE "create"]
    BY <1>3 DEF CreateGrid, Goto
  <2>2. level \in 0..Grids /\ Cardinality(list) = level + 1
    BY <1>2, NextLevel
  <2>3. PICK new \in Row : rows' = Append(rows, new) /\ new.oid = 0
    BY <1>3, NewRow
  <2> HIDE DEF level
  <2>4. Accounts
    BY <1>2, <2>1, <2>3, Created
  <2>5. list \in SUBSET DOMAIN rows'
    <3>1. Len(rows') = Len(rows) + 1
      BY <2>3, Appending DEF IInv, TypeOK
    <3>2. work[h] \in SUBSET DOMAIN rows'
      BY <1>1, <2>4, InHand
    <3>3. QED
      BY <2>4, <3>1, <3>2, LocalGrows
  <2> HIDE DEF list
  <2>6. PICK st \in {"place", "create"} : /\ pc' = [pc EXCEPT ![h] = st]
                                          /\ st = "create" => level # Grids
    BY <2>1
  <2>7. Moves(h, st, list, at[h], oid[h], price[h]) /\ Typed(st, list, at[h], oid[h], price[h])
    BY <1>1, <2>1, <2>4, <2>5, <2>6, Unmoved, InHand DEF Moves, Typed, Steps
  <2>8. pc'[h] = st /\ work'[h] = list /\ oid'[h] = oid[h] /\ (Holds(h)' => IInv')
    BY <1>1, <1>2, <2>4, <2>7, Moving
  <2>9. st = "create" => Cardinality(list) <= Grids
    BY <2>2, <2>6, GridsAssumption
  <2>10. Holds(h)'
    BY <1>1, <1>2, <2>6, <2>8, <2>9 DEF Holds, HandlerSteps
  <2>11. QED
    BY <2>8, <2>10
<1>4. CASE ~ok
  <2>1. /\ UNCHANGED <<rows, at, oid>> /\ pc' = [pc EXCEPT ![h] = "idle"]
        /\ work' = [work EXCEPT ![h] = {}] /\ price' = [price EXCEPT ![h] = 0]
    BY <1>4 DEF CreateGrid, Finish, Goto
  <2>2. Accounts
    BY <1>2, <2>1, Still
  <2>3. Moves(h, "idle", {}, at[h], oid[h], 0) /\ Typed("idle", {}, at[h], oid[h], 0)
    BY <1>1, <2>1, <2>2, Unmoved, InHand DEF Moves, Typed, Steps
  <2>4. pc'[h] = "idle" /\ work'[h] = {} /\ oid'[h] = oid[h] /\ (Holds(h)' => IInv')
    BY <1>1, <1>2, <2>2, <2>3, Moving
  <2>5. Holds(h)'
    BY <1>1, <1>2, <2>4 DEF Holds, HandlerSteps
  <2>6. QED
    BY <2>4, <2>5
<1>5. QED
  BY <1>3, <1>4

LEMMA StepPlaceLevel ==
    ASSUME IInv, NEW h \in Handlers, NEW reply \in Replies, PlaceLevel(h, reply)
    PROVE  IInv'
<1>1. h \in Procs /\ h \notin Checkers /\ Holds(h)
  BY HandlerHolds
<1>2. pc[h] = "place" /\ UNCHANGED <<status, rows, price, requests, settled>>
  BY DEF PlaceLevel
<1>3. PICK i \in Heads(h) :
        /\ work' = [work EXCEPT ![h] = @ \ {i}]
        /\ IF rows[i].price = price[h]
           THEN reply = "refused" /\ UNCHANGED <<profit, book, pc, at, oid, faults>>
           ELSE /\ PlaceOrder(h, reply, rows[i].side, rows[i].price, "start")
                /\ Goto(h, IF reply = "ok" THEN "open" ELSE "place")
                /\ at' = [at EXCEPT ![h] = IF reply = "ok" THEN i ELSE 0]
  BY DEF PlaceLevel
<1> DEFINE list == work[h] \ {i}
<1>4. i \in DOMAIN rows /\ i \in 1..Len(rows) /\ rows[i] \in Row /\ list \in SUBSET DOMAIN rows
  BY <1>1, Sizes DEF Heads, IInv, TypeOK
<1>5. work' = [work EXCEPT ![h] = list]
  BY <1>3
<1> HIDE DEF list
<1>6. CASE rows[i].price = price[h]
  <2>1. Accounts /\ CountersOK'
    BY <1>2, <1>3, <1>6, Still DEF IInv, TypeOK, CountersOK
  <2>2. Moves(h, pc[h], list, at[h], oid[h], price[h])
    BY <1>1, <1>2, <1>3, <1>5, <1>6, Unmoved DEF Moves
  <2>3. Typed(pc[h], list, at[h], oid[h], price[h])
    BY <1>1, <1>2, <1>4, <2>1, InHand DEF Typed
  <2>4. pc'[h] = "place" /\ oid'[h] = oid[h] /\ (Holds(h)' => IInv')
    BY <1>1, <1>2, <2>1, <2>2, <2>3, Moving
  <2>5. Holds(h)'
    BY <1>1, <1>2, <2>4 DEF Holds, HandlerSteps
  <2>6. QED
    BY <2>4, <2>5
<1>7. CASE rows[i].price # price[h]
  <2>1. /\ PlaceOrder(h, reply, rows[i].side, rows[i].price, "start")
        /\ pc' = [pc EXCEPT ![h] = IF reply = "ok" THEN "open" ELSE "place"]
        /\ at' = [at EXCEPT ![h] = IF reply = "ok" THEN i ELSE 0]
    BY <1>3, <1>7 DEF Goto
  <2>2. rows[i].side \in Sides /\ rows[i].price \in Nat
    BY <1>4 DEF Row
  <2>3. /\ Accounts /\ faults' \in 0..MaxFaults
        /\ reply # "ok" => oid' = [oid EXCEPT ![h] = 0]
        /\ reply = "ok" => /\ oid' = [oid EXCEPT ![h] = Len(book)+1]
                           /\ Len(book') = Len(book) + 1
                           /\ book'[Len(book)+1].side = rows[i].side
                           /\ book'[Len(book)+1].price = rows[i].price
    BY <1>1, <1>2, <2>1, <2>2, Placing
  <2>4. CountersOK' /\ list \in SUBSET DOMAIN rows'
    BY <1>2, <1>4, <2>3 DEF IInv, TypeOK, CountersOK
  <2>5. CASE reply = "ok"
    <3>1. Moves(h, "open", list, i, Len(book) + 1, price[h])
      BY <1>1, <1>2, <1>5, <2>1, <2>3, <2>5, Unmoved DEF Moves
    <3>2. Len(book) + 1 \in 0..Len(book') /\ Len(book) + 1 # 0 /\ i \in 0..Len(rows') /\ i # 0
      BY <1>2, <1>4, <2>3, <2>5, Sizes DEF IInv
    <3>3. Typed("open", list, i, Len(book) + 1, price[h])
      BY <1>1, <2>3, <2>4, <3>2, InHand DEF Typed, Steps
    <3>4. pc'[h] = "open" /\ at'[h] = i /\ oid'[h] = Len(book) + 1 /\ (Holds(h)' => IInv')
      BY <1>1, <2>3, <2>4, <3>1, <3>3, Moving
    <3>5. Holds(h)'
      BY <1>1, <1>2, <2>3, <2>5, <3>2, <3>4 DEF Holds, HandlerSteps
    <3>6. QED
      BY <3>4, <3>5
  <2>6. CASE reply # "ok"
    <3>1. Moves(h, "place", list, 0, 0, price[h]) /\ Typed("place", list, 0, 0, price[h])
      BY <1>1, <1>2, <1>5, <2>1, <2>3, <2>4, <2>6, Unmoved, InHand DEF Moves, Typed, Steps
    <3>2. pc'[h] = "place" /\ oid'[h] = 0 /\ (Holds(h)' => IInv')
      BY <1>1, <2>3, <2>4, <3>1, Moving
    <3>3. Holds(h)'
      BY <1>1, <3>2 DEF Holds, HandlerSteps
    <3>4. QED
      BY <3>2, <3>3
  <2>7. QED
    BY <2>5, <2>6
<1>8. QED
  BY <1>6, <1>7

LEMMA StepRecordOpen ==
    ASSUME IInv, NEW h \in Handlers, NEW ok \in BOOLEAN, RecordOpen(h, ok)
    PROVE  IInv'
<1>1. h \in Procs /\ h \notin Checkers /\ Holds(h)
  BY HandlerHolds
<1>2. /\ pc[h] = "open" /\ pc' = [pc EXCEPT ![h] = "place"]
      /\ at' = [at EXCEPT ![h] = 0] /\ oid' = [oid EXCEPT ![h] = 0]
      /\ UNCHANGED <<status, profit, book, work, price, requests, settled>>
      /\ faults' \in 0..MaxFaults
  BY Calls DEF RecordOpen, Goto, IInv
<1>3. /\ at[h] \in DOMAIN rows /\ rows[at[h]] \in Row /\ oid[h] # 0 /\ oid[h] \in Nat
      /\ book[oid[h]].side = rows[at[h]].side /\ book[oid[h]].price = rows[at[h]].price
  BY <1>1, <1>2, Sizes DEF Holds, IInv, TypeOK
<1>4. Accounts
  <2>1. CASE ok
    <3> DEFINE r == [rows[at[h]] EXCEPT !.oid = oid[h], !.status = "open"]
    <3>1. rows' = [rows EXCEPT ![at[h]] = r]
      BY <2>1 DEF RecordOpen
    <3>2. r \in Row /\ r.oid = oid[h] /\ r.side = rows[at[h]].side /\ r.price = rows[at[h]].price
      BY <1>3 DEF Row, RowStatus
    <3> HIDE DEF r
    <3>3. at[h] \in 1..Len(rows)
      BY <1>3, Sizes DEF IInv
    <3>4. /\ rows' \in Seq(Row) /\ Len(rows') = Len(rows)
          /\ \A j \in 1..Len(rows) : rows'[j] = IF j = at[h] THEN r ELSE rows[j]
      BY <3>1, <3>2, <3>3, ExceptSeq DEF IInv, TypeOK
    <3>5. DOMAIN rows' = DOMAIN rows /\ DOMAIN rows = 1..Len(rows) /\ Len(rows) \in Nat
      BY <3>4, Sizes, LenProperties DEF IInv
    <3>6. /\ at[h] \in DOMAIN rows' /\ Len(rows) <= Len(rows')
          /\ rows'[at[h]] = r
          /\ \A j \in DOMAIN rows' \ {at[h]} : j \in DOMAIN rows /\ rows'[j] = rows[j]
      BY <3>3, <3>4, <3>5
    <3>7. QED
      BY <1>1, <1>2, <1>3, <3>2, <3>4, <3>6, Stored
  <2>2. CASE ~ok
    <3>1. rows' = rows /\ \A q \in Procs : oid'[q] \in {oid[q], 0}
      BY <1>2, <2>2 DEF RecordOpen, IInv, TypeOK
    <3>2. QED
      BY <1>2, <3>1, Still
  <2>3. QED
    BY <2>1, <2>2
<1>5. CountersOK'
  BY <1>2 DEF IInv, TypeOK, CountersOK
<1>6. Moves(h, "place", work[h], 0, 0, price[h]) /\ Typed("place", work[h], 0, 0, price[h])
  BY <1>1, <1>2, <1>4, Unmoved, InHand DEF Moves, Typed, Steps
<1>7. pc'[h] = "place" /\ oid'[h] = 0 /\ (Holds(h)' => IInv')
  BY <1>1, <1>4, <1>5, <1>6, Moving
<1>8. Holds(h)'
  BY <1>1, <1>7 DEF Holds, HandlerSteps
<1>9. QED
  BY <1>7, <1>8

LEMMA NothingInHand ==
    ASSUME IInv, NEW p \in Procs, pc[p] \notin {"open", "insert"}
    PROVE  oid[p] = 0
BY DEF IInv, HoldsInv, Holds

\* The end of a request or of a pass.
LEMMA Finishing ==
    ASSUME IInv, NEW p \in Procs, pc[p] \notin {"open", "insert"}, Finish(p), CountersOK',
           UNCHANGED <<rows, book, profit>>
    PROVE  IInv'
<1>1. /\ pc' = [pc EXCEPT ![p] = "idle"] /\ work' = [work EXCEPT ![p] = {}]
      /\ price' = [price EXCEPT ![p] = 0] /\ UNCHANGED <<at, oid>>
  BY DEF Finish, Goto
<1>2. Accounts /\ oid[p] = 0
  BY <1>1, Still, NothingInHand
<1>3. Moves(p, "idle", {}, at[p], oid[p], 0) /\ Typed("idle", {}, at[p], oid[p], 0)
  BY <1>1, <1>2, Unmoved, InHand DEF Moves, Typed, Steps
<1>4. pc'[p] = "idle" /\ work'[p] = {} /\ oid'[p] = 0 /\ (Holds(p)' => IInv')
  BY <1>2, <1>3, Moving
<1>5. Holds(p)'
  BY <1>4 DEF Holds, HandlerSteps, CheckerSteps
<1>6. QED
  BY <1>4, <1>5

\* A step to a place where no order id is in hand, which leaves rows and
\* orders what they are.
LEMMA Walking ==
    ASSUME IInv, RowsQuiet, BookQuiet, profit' \in [DOMAIN book -> Nat], CountersOK',
           NEW p \in Procs, pc[p] \notin {"open", "insert"}, UNCHANGED <<oid, price>>,
           NEW st \in {"place", "list", "cancel", "drop", "halt",
                       "check", "ask", "fill", "profit", "counter"},
           p \in Handlers => st \in HandlerSteps, p \in Checkers => st \in CheckerSteps,
           NEW w \in SUBSET DOMAIN rows, NEW a \in 0..Len(rows),
           st \in {"fill", "profit", "counter"} => a # 0,
           pc' = [pc EXCEPT ![p] = st], work' = [work EXCEPT ![p] = w], at' = [at EXCEPT ![p] = a]
    PROVE  IInv'
<1>1. Accounts /\ oid[p] = 0
  BY Quiet, NothingInHand DEF IInv, TypeOK
<1>2. w \in SUBSET DOMAIN rows' /\ a \in 0..Len(rows')
  BY <1>1, LocalGrows
<1>3. Moves(p, st, w, a, oid[p], price[p]) /\ Typed(st, w, a, oid[p], price[p])
  BY <1>1, <1>2, Unmoved, InHand DEF Moves, Typed, Steps
<1>4. pc'[p] = st /\ at'[p] = a /\ oid'[p] = 0 /\ (Holds(p)' => IInv')
  BY <1>1, <1>3, Moving
<1>5. Holds(p)'
  BY <1>4 DEF Holds
<1>6. QED
  BY <1>4, <1>5

LEMMA StepSetStatus ==
    ASSUME IInv, NEW h \in Handlers, NEW ok \in BOOLEAN, SetRunning(h, ok) \/ SetStopped(h, ok)
    PROVE  IInv'
<1>1. h \in Procs
  BY HandlerHolds
<1>2. pc[h] \in {"place", "halt"} /\ Finish(h) /\ UNCHANGED <<rows, profit, book, requests, settled>>
  BY DEF SetRunning, SetStopped
<1>3. CountersOK'
  BY <1>2, Calls DEF SetRunning, SetStopped, IInv, TypeOK, CountersOK
<1>4. QED
  BY <1>1, <1>2, <1>3, Finishing

LEMMA Nothing ==
    ASSUME IInv
    PROVE  /\ UNCHANGED rows => RowsQuiet
           /\ UNCHANGED book => BookQuiet
           /\ UNCHANGED profit => profit' \in [DOMAIN book -> Nat]
           /\ Open \in SUBSET DOMAIN rows
BY DEF IInv, TypeOK, RowsQuiet, BookQuiet, Open

LEMMA StepListToCancel ==
    ASSUME IInv, NEW h \in Handlers, NEW ok \in BOOLEAN, RequestStop(h, ok) \/ ListToCancel(h, ok)
    PROVE  IInv'
<1>1. h \in Procs /\ h \notin Checkers
  BY HandlerHolds
<1>2. pc[h] \in {"idle", "list"} /\ UNCHANGED <<status, rows, profit, book, at, oid, price, settled>>
  BY DEF RequestStop, ListToCancel
<1>3. CountersOK'
  BY <1>2, Calls, BoundsAssumption DEF RequestStop, ListToCancel, IInv, TypeOK, CountersOK
<1>4. /\ at' = [at EXCEPT ![h] = at[h]] /\ at[h] \in 0..Len(rows) /\ work[h] \in SUBSET DOMAIN rows
  BY <1>1, <1>2, Unmoved DEF IInv, TypeOK
<1>5. PICK st \in {"list", "drop", "cancel"}, w \in SUBSET DOMAIN rows :
        pc' = [pc EXCEPT ![h] = st] /\ work' = [work EXCEPT ![h] = w]
  <2>1. work = [work EXCEPT ![h] = work[h]] /\ Open \in SUBSET DOMAIN rows
    BY <1>1, Unmoved, Nothing
  <2>2. QED
    BY <1>4, <2>1 DEF RequestStop, ListToCancel, Goto
<1>6. /\ RowsQuiet /\ BookQuiet /\ profit' \in [DOMAIN book -> Nat] /\ st \in HandlerSteps
      /\ pc[h] \notin {"open", "insert"} /\ UNCHANGED <<oid, price>>
  BY <1>2, Nothing DEF HandlerSteps
<1>7. QED
  BY <1>1, <1>3, <1>4, <1>5, <1>6, Walking

LEMMA StepCancelLevel ==
    ASSUME IInv, NEW h \in Handlers, NEW ok \in BOOLEAN, CancelLevel(h, ok)
    PROVE  IInv'
<1>1. h \in Procs /\ h \notin Checkers
  BY HandlerHolds
<1>2. pc[h] = "cancel" /\ UNCHANGED <<status, rows, profit, pc, at, oid, price, requests, settled>>
  BY DEF CancelLevel
<1>3. CountersOK'
  BY <1>2, Calls DEF CancelLevel, IInv, TypeOK, CountersOK
<1>4. /\ at' = [at EXCEPT ![h] = at[h]] /\ at[h] \in 0..Len(rows) /\ work[h] \in SUBSET DOMAIN rows
      /\ pc' = [pc EXCEPT ![h] = "cancel"]
  BY <1>1, <1>2, Unmoved DEF IInv, TypeOK
<1>5. PICK i \in Heads(h) :
        /\ work' = [work EXCEPT ![h] = @ \ {i}]
        /\ book' = IF ok /\ book[rows[i].oid].state = "live"
                   THEN [book EXCEPT ![rows[i].oid].state = "cancelled"] ELSE book
  BY DEF CancelLevel
<1>6. BookQuiet
  BY <1>5, Struck DEF IInv
<1>7. work' = [work EXCEPT ![h] = work[h] \ {i}] /\ work[h] \ {i} \in SUBSET DOMAIN rows
  BY <1>4, <1>5
<1>8. /\ RowsQuiet /\ profit' \in [DOMAIN book -> Nat] /\ "cancel" \in HandlerSteps
      /\ pc[h] \notin {"open", "insert"} /\ UNCHANGED <<oid, price>>
  BY <1>2, Nothing DEF HandlerSteps
<1>9. QED
  BY <1>1, <1>3, <1>4, <1>6, <1>7, <1>8, Walking

LEMMA StepDrop ==
    ASSUME IInv, NEW h \in Handlers, NEW ok \in BOOLEAN, Drop(h, ok)
    PROVE  IInv'
<1>1. h \in Procs /\ h \notin Checkers
  BY HandlerHolds
<1>2. /\ pc[h] \in {"drop", "cancel"} /\ pc' = [pc EXCEPT ![h] = "halt"]
      /\ UNCHANGED <<status, profit, book, work, at, oid, price, requests, settled>>
  BY DEF Drop, Goto
<1>3. RowsQuiet /\ CountersOK'
  BY <1>2, CancellingAll DEF Drop, IInv, TypeOK, CountersOK
<1>4. /\ at' = [at EXCEPT ![h] = at[h]] /\ at[h] \in 0..Len(rows) /\ work[h] \in SUBSET DOMAIN rows
      /\ work' = [work EXCEPT ![h] = work[h]]
  BY <1>1, <1>2, Unmoved DEF IInv, TypeOK
<1>5. /\ BookQuiet /\ profit' \in [DOMAIN book -> Nat] /\ "halt" \in HandlerSteps
      /\ pc[h] \notin {"open", "insert"} /\ pc' = [pc EXCEPT ![h] = "halt"] /\ UNCHANGED <<oid, price>>
  BY <1>2, Nothing DEF HandlerSteps
<1>6. QED
  BY <1>1, <1>3, <1>4, <1>5, Walking

-----------------------------------------------------------------------------
(***************************************************************************)
(* The checks, the market and restarts.                                    *)
(***************************************************************************)
LEMMA CheckerHolds ==
    ASSUME IInv, NEW c \in Checkers
    PROVE  c \in Procs /\ c \notin Handlers /\ Holds(c)
BY ProcsAssumption DEF Procs, IInv, HoldsInv

LEMMA StepListOpen ==
    ASSUME IInv, NEW c \in Checkers, NEW ok \in BOOLEAN, ListRunning(c) \/ ListOpenGrids(c, ok)
    PROVE  IInv'
<1>1. c \in Procs /\ c \notin Handlers
  BY CheckerHolds
<1>2. /\ pc[c] \in {"idle", "check"}
      /\ UNCHANGED <<status, rows, profit, book, at, oid, price, requests, settled>>
  BY DEF ListRunning, ListOpenGrids
<1>3. CountersOK'
  BY <1>2, Calls DEF ListRunning, ListOpenGrids, IInv, TypeOK, CountersOK
<1>4. /\ at' = [at EXCEPT ![c] = at[c]] /\ at[c] \in 0..Len(rows) /\ work[c] \in SUBSET DOMAIN rows
  BY <1>1, <1>2, Unmoved DEF IInv, TypeOK
<1>5. PICK st \in {"check", "ask"}, w \in SUBSET DOMAIN rows :
        pc' = [pc EXCEPT ![c] = st] /\ work' = [work EXCEPT ![c] = w]
  <2>1. work = [work EXCEPT ![c] = work[c]] /\ Open \in SUBSET DOMAIN rows
    BY <1>1, Unmoved, Nothing
  <2>2. QED
    BY <1>4, <2>1 DEF ListRunning, ListOpenGrids, Goto
<1>6. /\ RowsQuiet /\ BookQuiet /\ profit' \in [DOMAIN book -> Nat] /\ st \in CheckerSteps
      /\ pc[c] \notin {"open", "insert"} /\ UNCHANGED <<oid, price>>
  BY <1>2, Nothing DEF CheckerSteps
<1>7. QED
  BY <1>1, <1>3, <1>4, <1>5, <1>6, Walking

LEMMA StepAsk ==
    ASSUME IInv, NEW c \in Checkers, NEW ok \in BOOLEAN, Ask(c, ok)
    PROVE  IInv'
<1>1. c \in Procs /\ c \notin Handlers
  BY CheckerHolds
<1>2. pc[c] = "ask" /\ UNCHANGED <<status, rows, profit, book, oid, price, requests, settled>>
  BY DEF Ask
<1>3. CountersOK'
  BY <1>2, Calls DEF Ask, IInv, TypeOK, CountersOK
<1>4. PICK i \in Heads(c) :
        LET filled == ok /\ book[rows[i].oid].state = "filled" IN
        /\ work' = [work EXCEPT ![c] = @ \ {i}]
        /\ at' = [at EXCEPT ![c] = IF filled THEN i ELSE 0]
        /\ Goto(c, IF filled THEN "fill" ELSE "ask")
  BY DEF Ask
<1>5. /\ i \in 0..Len(rows) /\ 0 \in 0..Len(rows) /\ i # 0
      /\ work[c] \ {i} \in SUBSET DOMAIN rows
  BY <1>1, Sizes DEF Heads, IInv, TypeOK
<1>6. PICK st \in {"fill", "ask"}, a \in 0..Len(rows) :
        /\ pc' = [pc EXCEPT ![c] = st] /\ at' = [at EXCEPT ![c] = a] /\ (st = "fill" => a # 0)
  BY <1>4, <1>5 DEF Goto
<1>7. work' = [work EXCEPT ![c] = work[c] \ {i}]
  BY <1>4
<1>8. /\ RowsQuiet /\ BookQuiet /\ profit' \in [DOMAIN book -> Nat] /\ st \in CheckerSteps
      /\ pc[c] \notin {"open", "insert"} /\ UNCHANGED <<oid, price>>
  BY <1>2, Nothing DEF CheckerSteps
<1>9. QED
  BY <1>1, <1>3, <1>5, <1>6, <1>7, <1>8, Walking

LEMMA StepRecordFill ==
    ASSUME IInv, NEW c \in Checkers, NEW ok \in BOOLEAN, RecordFill(c, ok)
    PROVE  IInv'
<1>1. c \in Procs /\ c \notin Handlers /\ Holds(c)
  BY CheckerHolds
<1>2. /\ pc[c] = "fill" /\ pc' = [pc EXCEPT ![c] = "profit"]
      /\ UNCHANGED <<status, profit, book, work, at, oid, price, requests, settled>>
  BY DEF RecordFill, Goto
<1>3. CountersOK'
  BY <1>2, Calls DEF RecordFill, IInv, TypeOK, CountersOK
<1>4. /\ at' = [at EXCEPT ![c] = at[c]] /\ at[c] \in 0..Len(rows) /\ at[c] # 0
      /\ work[c] \in SUBSET DOMAIN rows /\ work' = [work EXCEPT ![c] = work[c]]
  BY <1>1, <1>2, Unmoved DEF IInv, TypeOK, Holds
<1>5. RowsQuiet
  <2>1. CASE ok
    <3> DEFINE r == [rows[at[c]] EXCEPT !.status = "filled"]
    <3>1. rows' = [rows EXCEPT ![at[c]] = r]
      BY <2>1 DEF RecordFill
    <3>2. at[c] \in 1..Len(rows) /\ rows[at[c]] \in Row
      BY <1>4, Sizes DEF IInv
    <3>3. /\ r \in Row /\ r.oid = rows[at[c]].oid
          /\ r.side = rows[at[c]].side /\ r.price = rows[at[c]].price
      BY <3>2 DEF Row, RowStatus
    <3> HIDE DEF r
    <3>4. /\ rows' \in Seq(Row) /\ Len(rows') = Len(rows)
          /\ \A j \in 1..Len(rows) : rows'[j] = IF j = at[c] THEN r ELSE rows[j]
      BY <3>1, <3>2, <3>3, ExceptSeq DEF IInv, TypeOK
    <3>5. DOMAIN rows = 1..Len(rows)
      BY Sizes DEF IInv
    <3>6. QED
      BY <3>3, <3>4, <3>5 DEF RowsQuiet
  <2>2. CASE ~ok
    BY <2>2, Nothing DEF RecordFill
  <2>3. QED
    BY <2>1, <2>2
<1>6. /\ BookQuiet /\ profit' \in [DOMAIN book -> Nat] /\ "profit" \in CheckerSteps
      /\ pc[c] \notin {"open", "insert"} /\ pc' = [pc EXCEPT ![c] = "profit"] /\ UNCHANGED <<oid, price>>
  BY <1>2, Nothing DEF CheckerSteps
<1>7. QED
  BY <1>1, <1>3, <1>4, <1>5, <1>6, Walking

LEMMA StepAddProfit ==
    ASSUME IInv, NEW c \in Checkers, NEW ok \in BOOLEAN, AddProfit(c, ok)
    PROVE  IInv'
<1>1. c \in Procs /\ c \notin Handlers /\ Holds(c)
  BY CheckerHolds
<1>2. /\ pc[c] = "profit" /\ pc' = [pc EXCEPT ![c] = "counter"]
      /\ UNCHANGED <<status, rows, book, work, at, oid, price, requests, settled>>
  BY DEF AddProfit, Goto
<1>3. CountersOK'
  BY <1>2, Calls DEF AddProfit, IInv, TypeOK, CountersOK
<1>4. /\ at' = [at EXCEPT ![c] = at[c]] /\ at[c] \in 0..Len(rows) /\ at[c] # 0
      /\ work[c] \in SUBSET DOMAIN rows /\ work' = [work EXCEPT ![c] = work[c]]
  BY <1>1, <1>2, Unmoved DEF IInv, TypeOK, Holds
<1>5. profit' \in [DOMAIN book -> Nat]
  <2> DEFINE o == rows[at[c]].oid
  <2>1. profit' = [profit EXCEPT ![o] = profit[o] + 1] \/ profit' = profit
    BY DEF AddProfit
  <2>2. profit \in [DOMAIN book -> Nat]
    BY DEF IInv, TypeOK
  <2> HIDE DEF o
  <2>3. o \in DOMAIN book => profit[o] + 1 \in Nat
    BY <2>2
  <2>4. QED
    BY <2>1, <2>2, <2>3
<1>6. /\ RowsQuiet /\ BookQuiet /\ "counter" \in CheckerSteps
      /\ pc[c] \notin {"open", "insert"} /\ pc' = [pc EXCEPT ![c] = "counter"] /\ UNCHANGED <<oid, price>>
  BY <1>2, Nothing DEF CheckerSteps
<1>7. QED
  BY <1>1, <1>3, <1>4, <1>5, <1>6, Walking

LEMMA StepLeaveBot ==
    ASSUME IInv, NEW c \in Checkers, LeaveBot(c)
    PROVE  IInv'
<1>1. c \in Procs
  BY CheckerHolds
<1>2. CountersOK'
  BY DEF LeaveBot, IInv, TypeOK, CountersOK
<1>3. QED
  BY <1>1, <1>2, Finishing DEF LeaveBot

\* What a goroutine is about to do with the counter order of a row.
LEMMA Counter ==
    ASSUME NEW r \in Row
    PROVE  CounterSide(r) \in Sides /\ (InRange(r) => CounterPrice(r) \in Nat)
BY GridsAssumption DEF Row, Sides, CounterSide, CounterPrice, InRange

LEMMA StepPlaceCounter ==
    ASSUME IInv, NEW c \in Checkers, NEW reply \in Replies, PlaceCounter(c, reply)
    PROVE  IInv'
<1> DEFINE r == rows[at[c]]
<1>1. c \in Procs /\ c \notin Handlers /\ Holds(c)
  BY CheckerHolds
<1>2. /\ pc[c] = "counter" /\ UNCHANGED <<status, rows, work, price, requests, settled>>
      /\ at' = [at EXCEPT ![c] = IF reply = "ok" THEN at[c] ELSE 0]
  BY DEF PlaceCounter
<1>3. at[c] \in DOMAIN rows /\ at[c] # 0 /\ r \in Row /\ oid[c] = 0
  BY <1>1, <1>2, Sizes DEF Holds, IInv, TypeOK
<1>4. CASE InRange(r)
  <2>1. /\ PlaceOrder(c, reply, CounterSide(r), CounterPrice(r), "check")
        /\ pc' = [pc EXCEPT ![c] = IF reply = "ok" THEN "insert" ELSE "ask"]
    BY <1>4 DEF PlaceCounter, Goto
  <2>2. CounterSide(r) \in Sides /\ CounterPrice(r) \in Nat
    BY <1>3, <1>4, Counter
  <2> HIDE DEF r
  <2>3. /\ Accounts /\ faults' \in 0..MaxFaults
        /\ reply # "ok" => oid' = [oid EXCEPT ![c] = 0]
        /\ reply = "ok" => /\ oid' = [oid EXCEPT ![c] = Len(book)+1]
                           /\ Len(book') = Len(book) + 1
                           /\ book'[Len(book)+1].side = CounterSide(r)
                           /\ book'[Len(book)+1].price = CounterPrice(r)
    BY <1>1, <1>2, <2>1, <2>2, Placing
  <2>4. CountersOK'
    BY <1>2, <2>3 DEF IInv, TypeOK, CountersOK
  <2>5. CASE reply = "ok"
    <3>1. Len(book) + 1 \in 0..Len(book') /\ Len(book) + 1 # 0
      BY <2>3, <2>5, Sizes DEF IInv
    <3>2. Moves(c, "insert", work[c], at[c], Len(book) + 1, price[c])
      BY <1>1, <1>2, <2>1, <2>3, <2>5, Unmoved DEF Moves
    <3>3. Typed("insert", work[c], at[c], Len(book) + 1, price[c])
      BY <1>1, <2>3, <3>1, InHand DEF Typed, Steps
    <3>4. /\ pc'[c] = "insert" /\ at'[c] = at[c] /\ oid'[c] = Len(book) + 1
          /\ (Holds(c)' => IInv')
      BY <1>1, <2>3, <2>4, <3>2, <3>3, Moving
    <3>5. rows'[at'[c]] = r
      BY <1>2, <3>4 DEF r
    <3>6. Holds(c)'
      BY <1>1, <1>3, <1>4, <2>3, <2>5, <3>1, <3>4, <3>5 DEF Holds, CheckerSteps
    <3>7. QED
      BY <3>4, <3>6
  <2>6. CASE reply # "ok"
    <3>1. Moves(c, "ask", work[c], 0, 0, price[c]) /\ Typed("ask", work[c], 0, 0, price[c])
      BY <1>1, <1>2, <2>1, <2>3, <2>6, Unmoved, InHand DEF Moves, Typed, Steps
    <3>2. pc'[c] = "ask" /\ oid'[c] = 0 /\ (Holds(c)' => IInv')
      BY <1>1, <2>3, <2>4, <3>1, Moving
    <3>3. Holds(c)'
      BY <1>1, <3>2 DEF Holds, CheckerSteps
    <3>4. QED
      BY <3>2, <3>3
  <2>7. QED
    BY <2>5, <2>6
<1>5. CASE ~InRange(r)
  <2>1. /\ pc' = [pc EXCEPT ![c] = "ask"] /\ at' = [at EXCEPT ![c] = 0]
        /\ UNCHANGED <<book, profit, oid, faults>>
    BY <1>2, <1>5 DEF PlaceCounter, Goto
  <2>2. Accounts /\ CountersOK'
    BY <1>2, <2>1, Still DEF IInv, TypeOK, CountersOK
  <2>3. Moves(c, "ask", work[c], 0, oid[c], price[c]) /\ Typed("ask", work[c], 0, oid[c], price[c])
    BY <1>1, <1>2, <2>1, <2>2, Unmoved, InHand DEF Moves, Typed, Steps
  <2>4. pc'[c] = "ask" /\ oid'[c] = 0 /\ (Holds(c)' => IInv')
    BY <1>1, <1>3, <2>2, <2>3, Moving
  <2>5. Holds(c)'
    BY <1>1, <2>4 DEF Holds, CheckerSteps
  <2>6. QED
    BY <2>4, <2>5
<1>6. QED
  BY <1>4, <1>5

LEMMA StepInsertCounter ==
    ASSUME IInv, NEW c \in Checkers, NEW ok \in BOOLEAN, InsertCounter(c, ok)
    PROVE  IInv'
<1> DEFINE r   == rows[at[c]]
           new == [r EXCEPT !.side = CounterSide(r), !.price = CounterPrice(r),
                            !.oid = oid[c], !.status = "open"]
<1>1. c \in Procs /\ c \notin Handlers /\ Holds(c)
  BY CheckerHolds
<1>2. /\ pc[c] = "insert" /\ pc' = [pc EXCEPT ![c] = "ask"]
      /\ at' = [at EXCEPT ![c] = 0] /\ oid' = [oid EXCEPT ![c] = 0]
      /\ UNCHANGED <<status, profit, book, work, price, requests, settled>>
      /\ faults' \in 0..MaxFaults
  BY Calls DEF InsertCounter, Goto, IInv
<1>3. /\ at[c] \in DOMAIN rows /\ r \in Row /\ oid[c] # 0 /\ oid[c] \in Nat /\ InRange(r)
      /\ book[oid[c]].side = CounterSide(r) /\ book[oid[c]].price = CounterPrice(r)
  BY <1>1, <1>2, Sizes DEF Holds, IInv, TypeOK
<1>4. rows' = IF ok THEN Append(rows, new) ELSE rows
  BY DEF InsertCounter
<1>5. /\ new \in Row /\ new.oid = oid[c]
      /\ new.side = book[oid[c]].side /\ new.price = book[oid[c]].price
  <2>1. CounterSide(r) \in Sides /\ CounterPrice(r) \in Nat
    BY <1>3, Counter
  <2> HIDE DEF r
  <2>2. QED
    BY <1>3, <2>1 DEF Row, RowStatus
<1> HIDE DEF r, new
<1>6. Accounts
  <2>1. CASE ok
    <3>1. /\ rows' \in Seq(Row) /\ Len(rows) \in Nat /\ DOMAIN rows = 1..Len(rows)
          /\ DOMAIN rows' = 1..(Len(rows) + 1) /\ Len(rows') = Len(rows) + 1
          /\ \A i \in 1..Len(rows) : rows'[i] = rows[i]
          /\ rows'[Len(rows) + 1] = new
      BY <1>4, <1>5, <2>1, Appending DEF IInv, TypeOK
    <3>2. /\ Len(rows) + 1 \in DOMAIN rows' /\ Len(rows) + 1 \notin DOMAIN rows
          /\ Len(rows) <= Len(rows')
          /\ \A j \in DOMAIN rows' \ {Len(rows) + 1} : j \in DOMAIN rows /\ rows'[j] = rows[j]
      BY <3>1
    <3>3. QED
      BY <1>1, <1>2, <1>3, <1>5, <3>1, <3>2, Stored
  <2>2. CASE ~ok
    <3>1. rows' = rows /\ \A q \in Procs : oid'[q] \in {oid[q], 0}
      BY <1>2, <1>4, <2>2 DEF IInv, TypeOK
    <3>2. QED
      BY <1>2, <3>1, Still
  <2>3. QED
    BY <2>1, <2>2
<1>7. CountersOK'
  BY <1>2 DEF IInv, TypeOK, CountersOK
<1>8. Moves(c, "ask", work[c], 0, 0, price[c]) /\ Typed("ask", work[c], 0, 0, price[c])
  BY <1>1, <1>2, <1>6, Unmoved, InHand DEF Moves, Typed, Steps
<1>9. pc'[c] = "ask" /\ oid'[c] = 0 /\ (Holds(c)' => IInv')
  BY <1>1, <1>6, <1>7, <1>8, Moving
<1>10. Holds(c)'
  BY <1>1, <1>9 DEF Holds, CheckerSteps
<1>11. QED
  BY <1>9, <1>10

LEMMA StepSettle ==
    ASSUME IInv, NEW o \in DOMAIN book, NEW s \in {"filled", "cancelled"}, Settle(o, s)
    PROVE  IInv'
<1>1. UNCHANGED <<status, rows, profit, requests, faults>> /\ UNCHANGED <<pc, work, at, oid, price>>
  BY DEF Settle, local
<1>2. BookQuiet
  BY Struck DEF Settle, IInv
<1>3. Accounts
  BY <1>1, <1>2, Nothing, Quiet
<1>4. CountersOK'
  BY <1>1, BoundsAssumption DEF Settle, IInv, TypeOK, CountersOK
<1>5. LocalOK'
  BY <1>1, <1>3, LocalGrows DEF LocalOK, IInv, TypeOK
<1>6. \A q \in Procs : Same(q)
  BY <1>1 DEF Same
<1>7. QED
  BY <1>3, <1>4, <1>5, <1>6, Invariance

LEMMA StepRestart ==
    ASSUME IInv, Restart
    PROVE  IInv'
<1>1. /\ UNCHANGED <<status, rows, profit, book, requests, settled>> /\ faults' \in 0..MaxFaults
      /\ pc' = [p \in Procs |-> "idle"] /\ work' = [p \in Procs |-> {}]
      /\ at' = [p \in Procs |-> 0] /\ oid' = [p \in Procs |-> 0] /\ price' = [p \in Procs |-> 0]
  BY BoundsAssumption DEF Restart, IInv, TypeOK
<1>2. Accounts
  BY <1>1, Still
<1>3. CountersOK'
  BY <1>1 DEF IInv, TypeOK, CountersOK
<1>4. LocalOK'
  BY <1>1, <1>2, LocalGrows DEF LocalOK, Steps
<1>5. \A q \in Procs : Holds(q)'
  BY <1>1 DEF Holds, HandlerSteps, CheckerSteps
<1>6. QED
  BY <1>2, <1>3, <1>4, <1>5, Invariance

LEMMA InitIInv == Init => IInv
<1> SUFFICES ASSUME Init PROVE IInv
  OBVIOUS
<1> USE BoundsAssumption DEF Init
<1>1. TypeOK
  BY DEF TypeOK, Steps
<1>2. RowsTellOrders /\ FreshInv
  BY DEF RowsTellOrders, FreshInv
<1>3. HoldsInv
  BY DEF HoldsInv, Holds, HandlerSteps, CheckerSteps
<1>4. QED
  BY <1>1, <1>2, <1>3 DEF IInv

LEMMA NextIInv == IInv /\ [Next]_vars => IInv'
<1> SUFFICES ASSUME IInv, [Next]_vars PROVE IInv'
  OBVIOUS
<1>1. ASSUME NEW h \in Handlers, Serve(h) PROVE IInv'
  BY <1>1, StepRequest, StepClear, StepCreateGrid, StepPlaceLevel, StepRecordOpen, StepSetStatus,
     StepListToCancel, StepCancelLevel, StepDrop DEF Serve
<1>2. ASSUME NEW c \in Checkers, CheckBot(c) PROVE IInv'
  BY <1>2, StepListOpen, StepAsk, StepRecordFill, StepAddProfit, StepPlaceCounter, StepInsertCounter,
     StepLeaveBot DEF CheckBot
<1>3. CASE UNCHANGED vars
  <2>1. UNCHANGED <<status, rows, profit, book, requests, settled, faults, pc, work, at, oid, price>>
    BY <1>3 DEF vars, local
  <2>2. Accounts /\ CountersOK' /\ LocalOK'
    BY <2>1, Still DEF IInv, TypeOK, CountersOK, LocalOK
  <2>3. \A q \in Procs : Same(q)
    BY <2>1 DEF Same
  <2>4. QED
    BY <2>2, <2>3, Invariance
<1>4. QED
  BY <1>1, <1>2, <1>3, StepSettle, StepRestart DEF Next

(***************************************************************************)
(* The table and the exchange agree: an order id in bot_grids is one the   *)
(* exchange gave out, its row has the order's side and price, and no other *)
(* row holds it, however requests, checks, lost answers, failed writes and *)
(* restarts interleave.                                                    *)
(***************************************************************************)
THEOREM RowsTellTheOrders == Spec => []Inv
<1>1. IInv => Inv
  BY DEF IInv, Inv
<1>2. QED
  BY InitIInv, NextIInv, <1>1, PTL DEF Spec

-----------------------------------------------------------------------------
(***************************************************************************)
(* Which orders are a start's, and which are filled.                       *)
(***************************************************************************)
LEMMA OthersWait ==
    ASSUME IInv, NEW p \in Procs, Serve(p) \/ CheckBot(p), NEW q \in Procs \ {p}
    PROVE  Same(q)
<1>1. /\ pc \in [Procs -> Steps] /\ work \in [Procs -> SUBSET DOMAIN rows]
      /\ at \in [Procs -> 0..Len(rows)] /\ oid \in [Procs -> 0..Len(book)]
  BY DEF IInv, TypeOK
<1> USE <1>1 DEF Same, Goto, Finish
<1>2. CASE RequestStart(p) \/ RequestDelete(p)
  BY <1>2 DEF RequestStart, RequestDelete, Request
<1>3. ASSUME NEW ok \in BOOLEAN, Clear(p, ok) PROVE Same(q)
  BY <1>3 DEF Clear
<1>4. ASSUME NEW ok \in BOOLEAN, CreateGrid(p, ok) PROVE Same(q)
  BY <1>4 DEF CreateGrid
<1>5. ASSUME NEW reply \in Replies, PlaceLevel(p, reply) PROVE Same(q)
  BY <1>5 DEF PlaceLevel, PlaceOrder
<1>6. ASSUME NEW ok \in BOOLEAN, RecordOpen(p, ok) PROVE Same(q)
  BY <1>6 DEF RecordOpen
<1>7. ASSUME NEW ok \in BOOLEAN, SetRunning(p, ok) \/ SetStopped(p, ok) PROVE Same(q)
  BY <1>7 DEF SetRunning, SetStopped
<1>8. ASSUME NEW ok \in BOOLEAN, RequestStop(p, ok) \/ ListToCancel(p, ok) PROVE Same(q)
  BY <1>8 DEF RequestStop, ListToCancel
<1>9. ASSUME NEW ok \in BOOLEAN, CancelLevel(p, ok) \/ Drop(p, ok) PROVE Same(q)
  BY <1>9 DEF CancelLevel, Drop
<1>10. CASE ListRunning(p) \/ LeaveBot(p)
  BY <1>10 DEF ListRunning, LeaveBot
<1>11. ASSUME NEW reply \in Replies, PlaceCounter(p, reply) PROVE Same(q)
  BY <1>11 DEF PlaceCounter, PlaceOrder
<1>12. ASSUME NEW ok \in BOOLEAN, ListOpenGrids(p, ok) \/ Ask(p, ok) PROVE Same(q)
  BY <1>12 DEF ListOpenGrids, Ask
<1>13. ASSUME NEW ok \in BOOLEAN, RecordFill(p, ok) \/ AddProfit(p, ok) \/ InsertCounter(p, ok) PROVE Same(q)
  BY <1>13 DEF RecordFill, AddProfit, InsertCounter
<1>14. QED
  BY <1>2, <1>3, <1>4, <1>5, <1>6, <1>7, <1>8, <1>9, <1>10, <1>11, <1>12, <1>13 DEF Serve, CheckBot

\* What no step undoes.
Steady ==
    /\ DOMAIN rows \subseteq DOMAIN rows' /\ DOMAIN book \subseteq DOMAIN book'
    /\ \A i \in DOMAIN rows : rows[i].oid # 0 => rows'[i].oid = rows[i].oid
    /\ \A o \in DOMAIN book : book[o].state = "filled" => book'[o].state = "filled"
    /\ \A i \in DOMAIN rows' : rows'[i].status = "open" =>
        \/ i \in DOMAIN rows /\ rows[i].status = "open" /\ rows'[i].oid = rows[i].oid
        \/ \E p \in Procs : oid[p] # 0 /\ rows'[i].oid = oid[p]

LEMMA SteadyRows ==
    ASSUME IInv, RowsQuiet, UNCHANGED book,
           \A i \in DOMAIN rows : rows'[i].status = "open" => rows[i].status = "open"
    PROVE  Steady
<1>1. DOMAIN rows' = DOMAIN rows
  BY Sizes, LenProperties DEF IInv, RowsQuiet
<1>2. QED
  BY <1>1 DEF RowsQuiet, Steady

LEMMA SteadyBook ==
    ASSUME IInv, UNCHANGED rows, BookQuiet,
           \A o \in DOMAIN book : book[o].state = "filled" => book'[o].state = "filled"
    PROVE  Steady
<1>1. DOMAIN book' = DOMAIN book
  BY Sizes, LenProperties DEF IInv, BookQuiet
<1>2. QED
  BY <1>1 DEF Steady

LEMMA SteadyPlacing ==
    ASSUME IInv, NEW p \in Procs, NEW reply \in Replies, NEW side \in Sides, NEW pr \in Nat,
           NEW by \in {"start", "check"}, PlaceOrder(p, reply, side, pr, by), UNCHANGED rows
    PROVE  Steady
<1> DEFINE new == [side |-> side, price |-> pr, state |-> "live", by |-> by]
<1>1. new \in Order
  BY DEF Order
<1>2. book' = book \/ book' = Append(book, new)
  BY DEF PlaceOrder
<1> HIDE DEF new
<1>3. DOMAIN book \subseteq DOMAIN book' /\ \A o \in DOMAIN book : book'[o] = book[o]
  <2>1. CASE book' = Append(book, new)
    <3>1. /\ Len(book) \in Nat /\ DOMAIN book = 1..Len(book) /\ DOMAIN book' = 1..(Len(book) + 1)
          /\ \A o \in 1..Len(book) : book'[o] = book[o]
      BY <1>1, <2>1, Appending DEF IInv, TypeOK
    <3>2. QED
      BY <3>1
  <2>2. QED
    BY <1>2, <2>1
<1>4. QED
  BY <1>3 DEF Steady

LEMMA SteadyCancellingAll ==
    ASSUME IInv, NEW ok \in BOOLEAN, CancelAllGrids(ok), UNCHANGED book
    PROVE  Steady
<1>1. RowsQuiet
  BY CancellingAll DEF IInv
<1>2. \A i \in DOMAIN rows : rows'[i].status = "open" => rows[i].status = "open"
  <2>1. \A i \in DOMAIN rows : rows[i] \in Row
    BY Sizes DEF IInv
  <2>2. QED
    BY <2>1 DEF CancelAllGrids, Row
<1>3. QED
  BY <1>1, <1>2, SteadyRows

LEMMA SteadyCreateGrid ==
    ASSUME IInv, NEW h \in Handlers, NEW ok \in BOOLEAN, CreateGrid(h, ok)
    PROVE  Steady
<1>1. CASE ok
  <2>1. PICK new \in Row : rows' = Append(rows, new) /\ new.status = "pending"
    BY <1>1, NewRow
  <2>2. /\ DOMAIN rows = 1..Len(rows) /\ DOMAIN rows' = 1..(Len(rows) + 1) /\ Len(rows) \in Nat
        /\ \A i \in 1..Len(rows) : rows'[i] = rows[i]
        /\ rows'[Len(rows) + 1] = new
    BY <2>1, Appending DEF IInv, TypeOK
  <2>3. UNCHANGED book
    BY DEF CreateGrid
  <2>4. QED
    BY <2>1, <2>2, <2>3 DEF Steady
<1>2. CASE ~ok
  BY <1>2 DEF CreateGrid, Steady
<1>3. QED
  BY <1>1, <1>2

LEMMA SteadyRecordOpen ==
    ASSUME IInv, MineInv, NEW h \in Handlers, NEW ok \in BOOLEAN, RecordOpen(h, ok)
    PROVE  /\ Steady
           /\ \A i \in DOMAIN rows \ {at[h]} : rows'[i] = rows[i]
           /\ ok => rows'[at[h]].oid = oid[h] /\ rows'[at[h]].status = "open"
<1>1. /\ at[h] \in DOMAIN rows /\ rows[at[h]] \in Row /\ h \in Procs /\ oid[h] # 0 /\ oid[h] \in Nat
      /\ pc[h] = "open"
  BY HandlerHolds, Sizes DEF RecordOpen, Holds, IInv, TypeOK
<1>2. rows[at[h]].oid = 0
  BY <1>1 DEF MineInv, Mine
<1>3. UNCHANGED book
  BY DEF RecordOpen
<1>4. CASE ok
  <2> DEFINE r == [rows[at[h]] EXCEPT !.oid = oid[h], !.status = "open"]
  <2>1. rows' = [rows EXCEPT ![at[h]] = r]
    BY <1>4 DEF RecordOpen
  <2>2. r.oid = oid[h] /\ r.status = "open" /\ r \in Row
    BY <1>1 DEF Row, RowStatus
  <2> HIDE DEF r
  <2>3. /\ rows'[at[h]] = r /\ DOMAIN rows' = DOMAIN rows
        /\ \A i \in DOMAIN rows \ {at[h]} : rows'[i] = rows[i]
    BY <1>1, <2>1
  <2>4. QED
    BY <1>1, <1>2, <1>3, <2>2, <2>3 DEF Steady
<1>5. CASE ~ok
  BY <1>3, <1>5 DEF RecordOpen, Steady
<1>6. QED
  BY <1>4, <1>5

LEMMA SteadyInsertCounter ==
    ASSUME IInv, NEW c \in Checkers, NEW ok \in BOOLEAN, InsertCounter(c, ok)
    PROVE  Steady /\ \A i \in DOMAIN rows : rows'[i] = rows[i]
<1> DEFINE r   == rows[at[c]]
           new == [r EXCEPT !.side = CounterSide(r), !.price = CounterPrice(r),
                            !.oid = oid[c], !.status = "open"]
<1>1. /\ at[c] \in DOMAIN rows /\ r \in Row /\ c \in Procs /\ oid[c] # 0 /\ oid[c] \in Nat /\ InRange(r)
  BY CheckerHolds, Sizes DEF InsertCounter, Holds, IInv, TypeOK
<1>2. (rows' = IF ok THEN Append(rows, new) ELSE rows) /\ UNCHANGED book
  BY DEF InsertCounter
<1>3. new \in Row /\ new.oid = oid[c]
  <2>1. CounterSide(r) \in Sides /\ CounterPrice(r) \in Nat
    BY <1>1, Counter
  <2> HIDE DEF r
  <2>2. QED
    BY <1>1, <2>1 DEF Row, RowStatus
<1> HIDE DEF r, new
<1>4. CASE ok
  <2>1. /\ Len(rows) \in Nat /\ DOMAIN rows = 1..Len(rows) /\ DOMAIN rows' = 1..(Len(rows) + 1)
        /\ \A i \in 1..Len(rows) : rows'[i] = rows[i]
        /\ rows'[Len(rows) + 1] = new
    BY <1>2, <1>3, <1>4, Appending DEF IInv, TypeOK
  <2>2. QED
    BY <1>1, <1>2, <1>3, <2>1 DEF Steady
<1>5. CASE ~ok
  BY <1>2, <1>5 DEF Steady
<1>6. QED
  BY <1>4, <1>5

LEMMA SteadyRecordFill ==
    ASSUME IInv, NEW c \in Checkers, NEW ok \in BOOLEAN, RecordFill(c, ok)
    PROVE  /\ Steady
           /\ \A i \in DOMAIN rows : rows'[i].oid = rows[i].oid
           /\ \A i \in DOMAIN rows \ {at[c]} : rows'[i] = rows[i]
           /\ ok => rows'[at[c]].status = "filled"
<1>1. at[c] \in DOMAIN rows /\ rows[at[c]] \in Row /\ UNCHANGED book
  BY CheckerHolds, Sizes DEF RecordFill, Holds, IInv, TypeOK
<1>2. CASE ok
  <2> DEFINE r == [rows[at[c]] EXCEPT !.status = "filled"]
  <2>1. rows' = [rows EXCEPT ![at[c]] = r]
    BY <1>2 DEF RecordFill
  <2>2. r.oid = rows[at[c]].oid /\ r.status = "filled"
    BY <1>1 DEF Row, RowStatus
  <2> HIDE DEF r
  <2>3. /\ rows'[at[c]] = r /\ DOMAIN rows' = DOMAIN rows
        /\ \A i \in DOMAIN rows \ {at[c]} : rows'[i] = rows[i]
    BY <1>1, <2>1
  <2>4. QED
    BY <1>1, <2>2, <2>3 DEF Steady
<1>3. CASE ~ok
  BY <1>1, <1>3 DEF RecordFill, Steady
<1>4. QED
  BY <1>2, <1>3

\* Only a live order is cancelled or settled.
LEMMA SteadyStriking ==
    ASSUME IInv, UNCHANGED rows, NEW o, NEW state \in {"live", "filled", "cancelled"},
           \/ book[o].state = "live" /\ book' = [book EXCEPT ![o].state = state]
           \/ UNCHANGED book
    PROVE  Steady
<1>1. BookQuiet
  BY Struck DEF IInv
<1>2. \A d \in DOMAIN book : book[d].state = "filled" => book'[d].state = "filled"
  <2>1. SUFFICES ASSUME NEW d \in DOMAIN book, book[d].state = "filled" PROVE book'[d] = book[d]
    OBVIOUS
  <2>2. QED
    BY <2>1
<1>3. QED
  BY <1>1, <1>2, SteadyBook

LEMMA SteadyNext ==
    ASSUME IInv, MineInv, [Next]_vars
    PROVE  Steady
<1>1. ASSUME UNCHANGED <<rows, book>> PROVE Steady
  BY <1>1 DEF Steady
<1>2. ASSUME NEW h \in Handlers, Serve(h) PROVE Steady
  <2>1. h \in Procs
    BY HandlerHolds
  <2>2. CASE RequestStart(h) \/ RequestDelete(h)
    BY <1>1, <2>2 DEF RequestStart, RequestDelete, Request
  <2>3. ASSUME NEW reply \in Replies, PlaceLevel(h, reply) PROVE Steady
    <3>1. PICK i \in Heads(h) : UNCHANGED <<rows, book>>
                                \/ PlaceOrder(h, reply, rows[i].side, rows[i].price, "start")
      BY <2>3 DEF PlaceLevel
    <3>2. rows[i].side \in Sides /\ rows[i].price \in Nat
      BY <2>1, Sizes DEF Heads, IInv, TypeOK, Row
    <3>3. QED
      BY <1>1, <2>1, <2>3, <3>1, <3>2, SteadyPlacing DEF PlaceLevel
  <2>4. ASSUME NEW ok \in BOOLEAN, Clear(h, ok) \/ Drop(h, ok) PROVE Steady
    BY <2>4, SteadyCancellingAll DEF Clear, Drop
  <2>5. ASSUME NEW ok \in BOOLEAN, CancelLevel(h, ok) PROVE Steady
    <3>1. PICK o : book' = IF ok /\ book[o].state = "live"
                           THEN [book EXCEPT ![o].state = "cancelled"] ELSE book
      BY <2>5 DEF CancelLevel
    <3>2. QED
      BY <2>5, <3>1, SteadyStriking DEF CancelLevel
  <2>6. ASSUME NEW ok \in BOOLEAN, SetRunning(h, ok) \/ RequestStop(h, ok) \/ ListToCancel(h, ok)
                                   \/ SetStopped(h, ok)
        PROVE  Steady
    BY <1>1, <2>6 DEF SetRunning, RequestStop, ListToCancel, SetStopped
  <2>7. QED
    BY <1>2, <2>2, <2>3, <2>4, <2>5, <2>6, SteadyCreateGrid, SteadyRecordOpen DEF Serve
<1>3. ASSUME NEW c \in Checkers, CheckBot(c) PROVE Steady
  <2>1. c \in Procs
    BY CheckerHolds
  <2>2. CASE ListRunning(c) \/ LeaveBot(c)
    BY <1>1, <2>2 DEF ListRunning, LeaveBot
  <2>3. ASSUME NEW reply \in Replies, PlaceCounter(c, reply) PROVE Steady
    <3> DEFINE r == rows[at[c]]
    <3>1. r \in Row /\ UNCHANGED rows
      BY <2>3, CheckerHolds, Sizes DEF PlaceCounter, Holds, IInv, TypeOK
    <3>2. \/ UNCHANGED book
          \/ InRange(r) /\ PlaceOrder(c, reply, CounterSide(r), CounterPrice(r), "check")
      BY <2>3 DEF PlaceCounter
    <3> HIDE DEF r
    <3>3. QED
      BY <1>1, <2>1, <3>1, <3>2, Counter, SteadyPlacing
  <2>4. ASSUME NEW ok \in BOOLEAN, ListOpenGrids(c, ok) \/ Ask(c, ok) \/ AddProfit(c, ok) PROVE Steady
    BY <1>1, <2>4 DEF ListOpenGrids, Ask, AddProfit
  <2>5. QED
    BY <1>3, <2>2, <2>3, <2>4, SteadyRecordFill, SteadyInsertCounter DEF CheckBot
<1>4. ASSUME NEW o \in DOMAIN book, NEW s \in {"filled", "cancelled"}, Settle(o, s) PROVE Steady
  BY <1>4, SteadyStriking DEF Settle
<1>5. CASE Restart \/ UNCHANGED vars
  BY <1>1, <1>5 DEF Restart, vars
<1>6. QED
  BY <1>2, <1>3, <1>4, <1>5 DEF Next

\* A step that leaves a handler no row it did not have.
MineShrinks(g) ==
    Mine(g)' \subseteq Mine(g) /\ (pc'[g] = "open" => at'[g] \notin work'[g])

LEMMA MineTyped ==
    ASSUME IInv, NEW g \in Handlers
    PROVE  Mine(g) \subseteq DOMAIN rows
<1>1. Holds(g) /\ work[g] \subseteq DOMAIN rows /\ at[g] \in 0..Len(rows)
  BY HandlerHolds DEF IInv, TypeOK
<1>2. pc[g] = "open" => at[g] \in DOMAIN rows
  BY <1>1, Sizes DEF Holds, IInv
<1>3. QED
  BY <1>1, <1>2 DEF Mine

LEMMA MineSame ==
    ASSUME MineInv, NEW g \in Handlers, Same(g)
    PROVE  MineShrinks(g) /\ Mine(g)' = Mine(g)
BY DEF MineInv, Same, MineShrinks, Mine

LEMMA MineKept ==
    ASSUME IInv, MineInv, \A i \in DOMAIN rows : rows'[i].oid = rows[i].oid,
           \A g \in Handlers : MineShrinks(g)
    PROVE  MineInv'
<1>1. ASSUME NEW h \in Handlers, NEW i \in Mine(h)'
      PROVE  rows'[i].oid = 0 /\ \A g \in Handlers \ {h} : i \notin Mine(g)'
  <2>1. i \in Mine(h) /\ i \in DOMAIN rows
    BY <1>1, MineTyped DEF MineShrinks
  <2>2. rows[i].oid = 0 /\ \A g \in Handlers \ {h} : i \notin Mine(g)
    BY <2>1 DEF MineInv
  <2>3. QED
    BY <2>1, <2>2 DEF MineShrinks
<1>2. \A h \in Handlers : pc'[h] = "open" => at'[h] \notin work'[h]
  BY DEF MineShrinks
<1>3. QED
  BY <1>1, <1>2 DEF MineInv

\* The rows of a start that has created some of them.
LEMMA MineCreateGrid ==
    ASSUME IInv, MineInv, NEW h \in Handlers, NEW ok \in BOOLEAN, CreateGrid(h, ok)
    PROVE  MineInv'
<1>1. h \in Procs /\ work[h] \subseteq DOMAIN rows /\ pc[h] = "create"
  BY HandlerHolds DEF CreateGrid, IInv, TypeOK
<1>2. \A g \in Handlers \ {h} : Same(g)
  BY <1>1, OthersWait DEF Serve, Procs
<1>3. CASE ok
  <2>1. PICK new \in Row : rows' = Append(rows, new) /\ new.oid = 0
    BY <1>3, NewRow
  <2>2. /\ work' = [work EXCEPT ![h] = work[h] \cup {Len(rows) + 1}] /\ pc'[h] \in {"place", "create"}
    BY <1>1, <1>3 DEF CreateGrid, Goto, IInv, TypeOK
  <2>3. /\ DOMAIN rows = 1..Len(rows) /\ Len(rows) \in Nat
        /\ \A i \in DOMAIN rows : rows'[i] = rows[i]
        /\ rows'[Len(rows) + 1].oid = 0
    BY <2>1, Appending DEF IInv, TypeOK
  <2>4. work'[h] = work[h] \cup {Len(rows) + 1}
    BY <1>1, <2>2 DEF IInv, TypeOK
  <2>5. Mine(h) = work[h] /\ Mine(h)' = work[h] \cup {Len(rows) + 1}
    BY <1>1, <2>2, <2>4 DEF Mine
  <2>6. \A g \in Handlers \ {h} : Mine(g)' = Mine(g) /\ Mine(g) \subseteq DOMAIN rows
    BY <1>2, MineSame, MineTyped
  <2>7. Len(rows) + 1 \notin DOMAIN rows
    BY <2>3
  <2>8. \A g \in Handlers : \A i \in Mine(g)' :
            rows'[i].oid = 0 /\ \A k \in Handlers \ {g} : i \notin Mine(k)'
    <3>1. SUFFICES ASSUME NEW g \in Handlers, NEW i \in Mine(g)'
                   PROVE  rows'[i].oid = 0 /\ \A k \in Handlers \ {g} : i \notin Mine(k)'
      OBVIOUS
    <3>2. CASE i = Len(rows) + 1
      BY <2>3, <2>5, <2>6, <2>7, <3>2
    <3>3. CASE i # Len(rows) + 1
      <4>1. i \in Mine(g) /\ i \in DOMAIN rows
        BY <1>1, <2>5, <2>6, <3>3
      <4>2. rows[i].oid = 0 /\ \A k \in Handlers \ {g} : i \notin Mine(k)
        BY <4>1 DEF MineInv
      <4>3. QED
        BY <2>3, <2>5, <2>6, <3>3, <4>1, <4>2
    <3>4. QED
      BY <3>2, <3>3
  <2>9. \A g \in Handlers : pc'[g] = "open" => at'[g] \notin work'[g]
    BY <1>2, <2>2, MineSame DEF MineShrinks
  <2>10. QED
    BY <2>8, <2>9 DEF MineInv
<1>4. CASE ~ok
  <2>1. UNCHANGED rows /\ pc'[h] = "idle"
    BY <1>1, <1>4 DEF CreateGrid, Finish, Goto, IInv, TypeOK
  <2>2. MineShrinks(h)
    BY <2>1 DEF MineShrinks, Mine
  <2>3. QED
    BY <1>2, <2>1, <2>2, MineSame, MineKept
<1>5. QED
  BY <1>3, <1>4

\* The row that gets its order id is nobody else's.
LEMMA MineRecordOpen ==
    ASSUME IInv, MineInv, NEW h \in Handlers, NEW ok \in BOOLEAN, RecordOpen(h, ok)
    PROVE  MineInv'
<1>1. h \in Procs /\ pc[h] = "open"
  BY HandlerHolds DEF RecordOpen
<1>2. \A g \in Handlers \ {h} : Same(g)
  BY <1>1, OthersWait DEF Serve, Procs
<1>3. pc'[h] = "place" /\ work'[h] = work[h]
  BY <1>1 DEF RecordOpen, Goto, IInv, TypeOK
<1>4. /\ Mine(h) = work[h] \cup {at[h]} /\ Mine(h)' = work[h] /\ at[h] \notin work[h]
  BY <1>1, <1>3 DEF Mine, MineInv
<1>5. \A g \in Handlers \ {h} : Mine(g)' = Mine(g) /\ MineShrinks(g)
  BY <1>2, MineSame
<1>6. \A i \in DOMAIN rows \ {at[h]} : rows'[i] = rows[i]
  BY SteadyRecordOpen
<1>7. ASSUME NEW g \in Handlers, NEW i \in Mine(g)'
      PROVE  rows'[i].oid = 0 /\ \A k \in Handlers \ {g} : i \notin Mine(k)'
  <2>1. i \in Mine(g) /\ i \in DOMAIN rows
    BY <1>4, <1>5, <1>7, MineTyped
  <2>2. rows[i].oid = 0 /\ \A k \in Handlers \ {g} : i \notin Mine(k)
    BY <2>1 DEF MineInv
  <2>3. i # at[h]
    <3>1. CASE g = h
      BY <1>4, <1>7, <3>1
    <3>2. CASE g # h
      BY <1>4, <2>2, <3>2
    <3>3. QED
      BY <3>1, <3>2
  <2>4. QED
    BY <1>4, <1>5, <1>6, <2>1, <2>2, <2>3
<1>8. \A g \in Handlers : pc'[g] = "open" => at'[g] \notin work'[g]
  BY <1>3, <1>5 DEF MineShrinks
<1>9. QED
  BY <1>7, <1>8 DEF MineInv

\* The other requests store nothing, and a start has one row fewer to place.
LEMMA MineServe ==
    ASSUME IInv, MineInv, NEW h \in Handlers, Serve(h)
    PROVE  MineInv'
<1>1. /\ h \in Procs /\ pc \in [Procs -> Steps] /\ work \in [Procs -> SUBSET DOMAIN rows]
      /\ at \in [Procs -> 0..Len(rows)]
  BY HandlerHolds DEF IInv, TypeOK
<1>2. \A g \in Handlers \ {h} : MineShrinks(g)
  BY <1>1, OthersWait, MineSame DEF Procs
<1>3. ASSUME UNCHANGED rows \/ RowsQuiet, MineShrinks(h)
      PROVE  MineInv'
  BY <1>2, <1>3, MineKept DEF RowsQuiet
<1>4. ASSUME pc'[h] \notin {"create", "place", "open"} PROVE MineShrinks(h)
  BY <1>4 DEF Mine, MineShrinks
<1>5. CASE RequestStart(h) \/ RequestDelete(h)
  <2>1. UNCHANGED rows /\ pc'[h] \in {"clear", "halt"}
    BY <1>1, <1>5 DEF RequestStart, RequestDelete, Request, Goto
  <2>2. QED
    BY <1>3, <1>4, <2>1
<1>6. ASSUME NEW ok \in BOOLEAN, Clear(h, ok) PROVE MineInv'
  <2>1. pc'[h] = "create" /\ work'[h] = {} /\ RowsQuiet
    BY <1>1, <1>6, HandlerHolds, CancellingAll DEF Clear, Goto, Holds, IInv
  <2>2. MineShrinks(h)
    BY <2>1 DEF MineShrinks, Mine
  <2>3. QED
    BY <1>3, <2>1, <2>2
<1>7. ASSUME NEW reply \in Replies, PlaceLevel(h, reply) PROVE MineInv'
  <2>1. PICK i \in Heads(h) :
          /\ work' = [work EXCEPT ![h] = work[h] \ {i}]
          /\ pc' = pc \/ /\ pc' = [pc EXCEPT ![h] = IF reply = "ok" THEN "open" ELSE "place"]
                         /\ at' = [at EXCEPT ![h] = IF reply = "ok" THEN i ELSE 0]
    BY <1>7 DEF PlaceLevel, Goto
  <2>2. pc[h] = "place" /\ UNCHANGED rows /\ i \in work[h]
    BY <1>7 DEF PlaceLevel, Heads
  <2>3. work'[h] = work[h] \ {i} /\ pc'[h] \in {"place", "open"} /\ (pc'[h] = "open" => at'[h] = i)
    BY <1>1, <2>1, <2>2
  <2>4. MineShrinks(h)
    BY <2>2, <2>3 DEF MineShrinks, Mine
  <2>5. QED
    BY <1>3, <2>2, <2>4
<1>8. ASSUME NEW ok \in BOOLEAN, SetRunning(h, ok) \/ SetStopped(h, ok) PROVE MineInv'
  <2>1. UNCHANGED rows /\ pc'[h] = "idle"
    BY <1>1, <1>8 DEF SetRunning, SetStopped, Finish, Goto
  <2>2. QED
    BY <1>3, <1>4, <2>1
<1>9. ASSUME NEW ok \in BOOLEAN, RequestStop(h, ok) \/ ListToCancel(h, ok) \/ CancelLevel(h, ok)
      PROVE  MineInv'
  <2>1. UNCHANGED rows /\ pc'[h] \in {"list", "drop", "cancel"}
    BY <1>1, <1>9 DEF RequestStop, ListToCancel, CancelLevel, Goto
  <2>2. QED
    BY <1>3, <1>4, <2>1
<1>10. ASSUME NEW ok \in BOOLEAN, Drop(h, ok) PROVE MineInv'
  <2>1. RowsQuiet /\ pc'[h] = "halt"
    BY <1>1, <1>10, CancellingAll DEF Drop, Goto, IInv
  <2>2. QED
    BY <1>3, <1>4, <2>1
<1>11. QED
  BY <1>5, <1>6, <1>7, <1>8, <1>9, <1>10, MineCreateGrid, MineRecordOpen DEF Serve

LEMMA MineNext ==
    ASSUME IInv, MineInv, [Next]_vars
    PROVE  MineInv'
<1>1. ASSUME \A g \in Handlers : Same(g), \A i \in DOMAIN rows : rows'[i].oid = rows[i].oid
      PROVE  MineInv'
  BY <1>1, MineSame, MineKept
<1>2. ASSUME NEW c \in Checkers, CheckBot(c) PROVE MineInv'
  <2>1. \A g \in Handlers : Same(g)
    BY <1>2, CheckerHolds, HandlerHolds, OthersWait
  <2>2. \A i \in DOMAIN rows : rows'[i].oid = rows[i].oid
    <3>1. ASSUME UNCHANGED rows PROVE \A i \in DOMAIN rows : rows'[i].oid = rows[i].oid
      BY <3>1
    <3>2. QED
      BY <1>2, <3>1, SteadyRecordFill, SteadyInsertCounter
         DEF CheckBot, ListRunning, LeaveBot, PlaceCounter, ListOpenGrids, Ask, AddProfit
  <2>3. QED
    BY <1>1, <2>1, <2>2
<1>3. ASSUME NEW o \in DOMAIN book, NEW s \in {"filled", "cancelled"}, Settle(o, s) PROVE MineInv'
  BY <1>1, <1>3 DEF Settle, local, Same
<1>4. CASE Restart
  BY <1>4 DEF Restart, MineInv, Mine, Procs
<1>5. CASE UNCHANGED vars
  BY <1>1, <1>5 DEF vars, local, Same
<1>6. QED
  BY <1>2, <1>3, <1>4, <1>5, MineServe DEF Next

Acting == {"fill", "profit", "counter", "insert"}

\* What a checker has after a step was stored, and filled, before it.
Noticed(c) ==
    /\ pc'[c] # "idle" => \A i \in work'[c] : i \in DOMAIN rows /\ rows[i].oid # 0
    /\ pc'[c] \in Acting =>
        /\ at'[c] \in DOMAIN rows /\ rows[at'[c]].oid # 0
        /\ book[rows[at'[c]].oid].state = "filled"

LEMMA NoticedSame ==
    ASSUME IInv, FilledInv, NEW c \in Checkers, Same(c)
    PROVE  Noticed(c)
<1>1. Holds(c) /\ work[c] \subseteq DOMAIN rows /\ at[c] \in 0..Len(rows)
  BY CheckerHolds DEF IInv, TypeOK
<1>2. pc[c] \in Acting => at[c] \in DOMAIN rows
  BY <1>1, Sizes DEF Holds, IInv, Acting
<1>3. QED
  BY <1>1, <1>2 DEF Same, Noticed, FilledInv, Acting

LEMMA FilledKept ==
    ASSUME IInv, FilledInv, Steady, \A c \in Checkers : Noticed(c)
    PROVE  FilledInv'
<1>1. ASSUME NEW i \in DOMAIN rows', rows'[i].status = "open" PROVE rows'[i].oid # 0
  BY <1>1 DEF Steady, FilledInv
<1>2. \A i \in DOMAIN rows : rows[i].oid # 0 => /\ rows'[i].oid # 0 /\ rows'[i].oid = rows[i].oid
                                               /\ rows[i].oid \in DOMAIN book
  BY Sizes DEF Steady, IInv
<1>3. ASSUME NEW c \in Checkers
      PROVE  /\ pc'[c] # "idle" => \A i \in work'[c] : rows'[i].oid # 0
             /\ pc'[c] \in Acting =>
                  rows'[at'[c]].oid # 0 /\ book'[rows'[at'[c]].oid].state = "filled"
  <2>1. Noticed(c)
    OBVIOUS
  <2>2. QED
    BY <1>2, <2>1 DEF Noticed, Steady
<1>4. QED
  BY <1>1, <1>3 DEF FilledInv, Acting

LEMMA NoticedCheck ==
    ASSUME IInv, FilledInv, NEW c \in Checkers, CheckBot(c)
    PROVE  Noticed(c)
<1>1. /\ c \in Procs /\ Holds(c) /\ work[c] \subseteq DOMAIN rows /\ at[c] \in 0..Len(rows)
      /\ pc \in [Procs -> Steps] /\ work \in [Procs -> SUBSET DOMAIN rows]
      /\ at \in [Procs -> 0..Len(rows)]
  BY CheckerHolds DEF IInv, TypeOK
<1>2. pc[c] \in Acting => at[c] \in DOMAIN rows
  BY <1>1, Sizes DEF Holds, IInv, Acting
<1>3. /\ pc[c] = "idle" => work[c] = {}
      /\ pc[c] # "idle" => \A i \in work[c] : i \in DOMAIN rows /\ rows[i].oid # 0
      /\ pc[c] \in Acting => rows[at[c]].oid # 0 /\ book[rows[at[c]].oid].state = "filled"
  BY <1>1 DEF Holds, FilledInv, Acting
<1>4. CASE ListRunning(c)
  BY <1>1, <1>3, <1>4 DEF ListRunning, Goto, Noticed, Acting
<1>5. CASE LeaveBot(c)
  BY <1>1, <1>5 DEF LeaveBot, Finish, Goto, Noticed, Acting
<1>6. ASSUME NEW ok \in BOOLEAN, ListOpenGrids(c, ok) PROVE Noticed(c)
  <2>1. pc'[c] = "ask" /\ work'[c] \in {Open, {}}
    BY <1>1, <1>6, Nothing DEF ListOpenGrids, Goto
  <2>2. \A i \in Open : i \in DOMAIN rows /\ rows[i].oid # 0
    BY DEF Open, FilledInv
  <2>3. QED
    BY <2>1, <2>2 DEF Noticed, Acting
<1>7. ASSUME NEW ok \in BOOLEAN, Ask(c, ok) PROVE Noticed(c)
  <2>1. pc[c] = "ask"
    BY <1>7 DEF Ask
  <2>2. PICK i \in Heads(c) :
          LET filled == ok /\ book[rows[i].oid].state = "filled" IN
          /\ work' = [work EXCEPT ![c] = @ \ {i}]
          /\ at' = [at EXCEPT ![c] = IF filled THEN i ELSE 0]
          /\ Goto(c, IF filled THEN "fill" ELSE "ask")
    BY <1>7 DEF Ask
  <2>3. i \in DOMAIN rows /\ rows[i].oid # 0
    BY <1>3, <2>1 DEF Heads
  <2>4. /\ work'[c] = work[c] \ {i} /\ pc'[c] \in {"fill", "ask"}
        /\ pc'[c] = "fill" => at'[c] = i /\ book[rows[i].oid].state = "filled"
    BY <1>1, <2>2 DEF Goto
  <2>5. QED
    BY <1>3, <2>1, <2>3, <2>4 DEF Noticed, Acting
<1>8. ASSUME NEW ok \in BOOLEAN, RecordFill(c, ok) \/ AddProfit(c, ok) PROVE Noticed(c)
  <2>1. pc[c] \in {"fill", "profit"} /\ UNCHANGED <<work, at>> /\ pc'[c] # "idle"
    BY <1>1, <1>8 DEF RecordFill, AddProfit, Goto
  <2>2. QED
    BY <1>2, <1>3, <2>1 DEF Noticed, Acting
<1>9. ASSUME NEW reply \in Replies, PlaceCounter(c, reply) PROVE Noticed(c)
  <2>1. /\ pc[c] = "counter" /\ UNCHANGED work /\ pc'[c] \in {"insert", "ask"}
        /\ pc'[c] = "insert" => reply = "ok" /\ at'[c] = at[c]
    BY <1>1, <1>9 DEF PlaceCounter, Goto
  <2>2. QED
    BY <1>2, <1>3, <2>1 DEF Noticed, Acting
<1>10. ASSUME NEW ok \in BOOLEAN, InsertCounter(c, ok) PROVE Noticed(c)
  BY <1>1, <1>3, <1>10 DEF InsertCounter, Goto, Noticed, Acting
<1>11. QED
  BY <1>4, <1>5, <1>6, <1>7, <1>8, <1>9, <1>10 DEF CheckBot

LEMMA FilledNext ==
    ASSUME IInv, MineInv, FilledInv, [Next]_vars
    PROVE  FilledInv'
<1>1. ASSUME \A c \in Checkers : Same(c) PROVE FilledInv'
  BY <1>1, NoticedSame, SteadyNext, FilledKept
<1>2. ASSUME NEW h \in Handlers, Serve(h) PROVE FilledInv'
  BY <1>1, <1>2, HandlerHolds, CheckerHolds, OthersWait
<1>3. ASSUME NEW c \in Checkers, CheckBot(c) PROVE FilledInv'
  <2>1. \A d \in Checkers \ {c} : Same(d)
    BY <1>3, CheckerHolds, OthersWait
  <2>2. \A d \in Checkers : Noticed(d)
    BY <1>3, <2>1, NoticedCheck, NoticedSame
  <2>3. QED
    BY <2>2, SteadyNext, FilledKept
<1>4. ASSUME NEW o \in DOMAIN book, NEW s \in {"filled", "cancelled"}, Settle(o, s) PROVE FilledInv'
  BY <1>1, <1>4 DEF Settle, local, Same
<1>5. CASE Restart
  <2>1. \A c \in Checkers : Noticed(c)
    BY <1>5 DEF Restart, Noticed, Acting, Procs
  <2>2. QED
    BY <2>1, SteadyNext, FilledKept
<1>6. CASE UNCHANGED vars
  BY <1>1, <1>6 DEF vars, local, Same
<1>7. QED
  BY <1>2, <1>3, <1>4, <1>5, <1>6 DEF Next

OrdersInv == IInv /\ MineInv /\ FilledInv

LEMMA OrdersAlways == Spec => []OrdersInv
<1>1. Init => OrdersInv
  <2> SUFFICES ASSUME Init PROVE OrdersInv
    OBVIOUS
  <2>1. MineInv /\ FilledInv
    BY DEF Init, MineInv, Mine, FilledInv, Procs
  <2>2. QED
    BY <2>1, InitIInv DEF OrdersInv
<1>2. OrdersInv /\ [Next]_vars => OrdersInv'
  BY NextIInv, MineNext, FilledNext DEF OrdersInv
<1>3. QED
  BY <1>1, <1>2, PTL DEF Spec

-----------------------------------------------------------------------------
(***************************************************************************)
(* How often a fill is counted, when the job does not overlap itself.      *)
(***************************************************************************)
OneChecker == \A c, d \in Checkers : c = d

\* No profit is added, and an order nobody had an id of has none.
Thrifty ==
    /\ faults \in Nat /\ faults' \in Nat /\ faults <= faults'
    /\ \A o \in DOMAIN book : profit[o] \in Nat /\ profit'[o] = profit[o]
    /\ \A o \in DOMAIN book' \ DOMAIN book : profit'[o] = 0
    /\ \A p \in Procs : oid'[p] # 0 => oid'[p] = oid[p] \/ oid'[p] \in DOMAIN book' \ DOMAIN book

LEMMA ThriftyPlacing ==
    ASSUME IInv, NEW p \in Procs, NEW reply \in Replies, NEW side \in Sides, NEW pr \in Nat,
           NEW by \in {"start", "check"}, PlaceOrder(p, reply, side, pr, by)
    PROVE  Thrifty
<1> DEFINE new == [side |-> side, price |-> pr, state |-> "live", by |-> by]
<1>1. /\ faults \in Nat /\ faults' \in Nat /\ faults <= faults'
      /\ \A o \in DOMAIN book : profit[o] \in Nat
  BY Sizes, Calls DEF PlaceOrder, Call, IInv, TypeOK
<1>2. new \in Order
  BY DEF Order
<1>3. CASE reply = "refused"
  BY <1>1, <1>3 DEF PlaceOrder, Thrifty, IInv, TypeOK
<1>4. CASE reply # "refused"
  <2>1. book' = Append(book, new) /\ profit' = Append(profit, 0)
    BY <1>4 DEF PlaceOrder
  <2> HIDE DEF new
  <2>2. /\ Len(book) \in Nat /\ DOMAIN book = 1..Len(book) /\ DOMAIN book' = 1..(Len(book) + 1)
    BY <1>2, <2>1, Appending DEF IInv, TypeOK
  <2>3. profit \in Seq(Nat) /\ Len(profit) = Len(book)
    BY <2>2, Mapped DEF IInv, TypeOK
  <2>4. profit'[Len(book) + 1] = 0 /\ \A o \in 1..Len(book) : profit'[o] = profit[o]
    BY <2>1, <2>3, Appending
  <2>5. \A q \in Procs : oid'[q] # 0 => oid'[q] = oid[q] \/ oid'[q] = Len(book) + 1
    BY DEF PlaceOrder, IInv, TypeOK
  <2>6. DOMAIN book' \ DOMAIN book = {Len(book) + 1}
    BY <2>2
  <2>7. QED
    BY <1>1, <2>2, <2>4, <2>5, <2>6 DEF Thrifty
<1>5. QED
  BY <1>3, <1>4

LEMMA ThriftyStill ==
    ASSUME IInv, BookQuiet, UNCHANGED profit, faults' \in Nat, faults <= faults',
           \A p \in Procs : oid'[p] \in {oid[p], 0}
    PROVE  Thrifty
<1>1. faults \in Nat /\ DOMAIN book' = DOMAIN book /\ \A o \in DOMAIN book : profit[o] \in Nat
  BY Sizes, LenProperties DEF IInv, TypeOK, BookQuiet
<1>2. QED
  BY <1>1 DEF Thrifty

LEMMA ThriftyCall ==
    ASSUME IInv, BookQuiet, UNCHANGED profit, NEW ok \in BOOLEAN, Call(ok),
           \A p \in Procs : oid'[p] \in {oid[p], 0}
    PROVE  Thrifty
<1>1. faults \in Nat /\ faults' \in Nat /\ faults <= faults'
  BY DEF Call, IInv, TypeOK
<1>2. QED
  BY <1>1, ThriftyStill

\* Every step of a goroutine but AddProfit is thrifty.
LEMMA ThriftyServe ==
    ASSUME IInv, NEW h \in Handlers, Serve(h)
    PROVE  Thrifty
<1>1. h \in Procs /\ faults \in Nat /\ oid \in [Procs -> 0..Len(book)]
  BY HandlerHolds DEF IInv, TypeOK
<1>2. UNCHANGED book => BookQuiet
  BY Nothing
<1>3. CASE RequestStart(h) \/ RequestDelete(h)
  BY <1>1, <1>2, <1>3, ThriftyStill DEF RequestStart, RequestDelete, Request
<1>4. ASSUME NEW reply \in Replies, PlaceLevel(h, reply) PROVE Thrifty
  <2>1. PICK i \in Heads(h) : UNCHANGED <<book, profit, oid, faults>>
                              \/ PlaceOrder(h, reply, rows[i].side, rows[i].price, "start")
    BY <1>4 DEF PlaceLevel
  <2>2. rows[i].side \in Sides /\ rows[i].price \in Nat
    BY <1>1, Sizes DEF Heads, IInv, TypeOK, Row
  <2>3. QED
    BY <1>1, <1>2, <2>1, <2>2, ThriftyPlacing, ThriftyStill
<1>5. ASSUME NEW ok \in BOOLEAN, Clear(h, ok) \/ Drop(h, ok) PROVE Thrifty
  BY <1>1, <1>2, <1>5, ThriftyCall DEF Clear, Drop, CancelAllGrids
<1>6. ASSUME NEW ok \in BOOLEAN, CreateGrid(h, ok) PROVE Thrifty
  BY <1>1, <1>2, <1>6, ThriftyCall DEF CreateGrid, Finish
<1>7. ASSUME NEW ok \in BOOLEAN, RecordOpen(h, ok) PROVE Thrifty
  BY <1>1, <1>2, <1>7, ThriftyCall DEF RecordOpen
<1>8. ASSUME NEW ok \in BOOLEAN, SetRunning(h, ok) \/ SetStopped(h, ok) PROVE Thrifty
  BY <1>1, <1>2, <1>8, ThriftyCall DEF SetRunning, SetStopped, Finish
<1>9. ASSUME NEW ok \in BOOLEAN, RequestStop(h, ok) \/ ListToCancel(h, ok) PROVE Thrifty
  BY <1>1, <1>2, <1>9, ThriftyCall DEF RequestStop, ListToCancel
<1>10. ASSUME NEW ok \in BOOLEAN, CancelLevel(h, ok) PROVE Thrifty
  <2>1. PICK o : book' = IF ok /\ book[o].state = "live"
                         THEN [book EXCEPT ![o].state = "cancelled"] ELSE book
    BY <1>10 DEF CancelLevel
  <2>2. BookQuiet
    BY <2>1, Struck DEF IInv
  <2>3. QED
    BY <1>1, <1>10, <2>2, ThriftyCall DEF CancelLevel
<1>11. QED
  BY <1>3, <1>4, <1>5, <1>6, <1>7, <1>8, <1>9, <1>10 DEF Serve

LEMMA ThriftyCheck ==
    ASSUME IInv, NEW c \in Checkers, CheckBot(c), ~\E ok \in BOOLEAN : AddProfit(c, ok)
    PROVE  Thrifty
<1>1. c \in Procs /\ faults \in Nat /\ oid \in [Procs -> 0..Len(book)]
  BY CheckerHolds DEF IInv, TypeOK
<1>2. UNCHANGED book => BookQuiet
  BY Nothing
<1>3. CASE ListRunning(c) \/ LeaveBot(c)
  BY <1>1, <1>2, <1>3, ThriftyStill DEF ListRunning, LeaveBot, Finish
<1>4. ASSUME NEW reply \in Replies, PlaceCounter(c, reply) PROVE Thrifty
  <2> DEFINE r == rows[at[c]]
  <2>1. r \in Row
    BY <1>4, CheckerHolds, Sizes DEF PlaceCounter, Holds, IInv, TypeOK
  <2>2. \/ UNCHANGED <<book, profit, oid, faults>>
        \/ InRange(r) /\ PlaceOrder(c, reply, CounterSide(r), CounterPrice(r), "check")
    BY <1>4 DEF PlaceCounter
  <2> HIDE DEF r
  <2>3. QED
    BY <1>1, <1>2, <2>1, <2>2, Counter, ThriftyPlacing, ThriftyStill
<1>5. ASSUME NEW ok \in BOOLEAN, ListOpenGrids(c, ok) \/ Ask(c, ok) \/ RecordFill(c, ok) PROVE Thrifty
  BY <1>1, <1>2, <1>5, ThriftyCall DEF ListOpenGrids, Ask, RecordFill
<1>6. ASSUME NEW ok \in BOOLEAN, InsertCounter(c, ok) PROVE Thrifty
  BY <1>1, <1>2, <1>6, ThriftyCall DEF InsertCounter
<1>7. QED
  BY <1>3, <1>4, <1>5, <1>6 DEF CheckBot

\* What a checker has after a thrifty step was not overpaid before it.
Due(c) ==
    /\ Noticed(c)
    /\ pc'[c] # "idle" => \A i \in work'[c] : profit[rows[i].oid] <= faults
    /\ pc'[c] \in Acting => at'[c] \notin work'[c]
    /\ pc'[c] \in {"fill", "profit"} => profit[rows[at'[c]].oid] <= faults
    /\ pc'[c] = "profit" /\ rows'[at'[c]].status = "open" => profit[rows[at'[c]].oid] < faults'

\* A row that had an order id is not opened again.
LEMMA NotReopened ==
    ASSUME IInv, Steady, NEW i \in DOMAIN rows, rows[i].oid # 0, rows'[i].status = "open"
    PROVE  rows[i].status = "open"
<1>1. rows'[i].oid = rows[i].oid /\ i \in DOMAIN rows'
  BY DEF Steady
<1>2. \A p \in Procs : oid[p] # 0 => rows[i].oid # oid[p]
  BY DEF IInv, FreshInv
<1>3. QED
  BY <1>1, <1>2 DEF Steady

LEMMA DueSame ==
    ASSUME OrdersInv, CountedInv, Steady, Thrifty, NEW c \in Checkers, Same(c)
    PROVE  Due(c)
<1>1. Noticed(c)
  BY NoticedSame DEF OrdersInv
<1>2. pc[c] = "profit" /\ rows'[at[c]].status = "open" => profit[rows[at[c]].oid] < faults'
  <2>1. SUFFICES ASSUME pc[c] = "profit", rows'[at[c]].status = "open"
                 PROVE  profit[rows[at[c]].oid] < faults'
    OBVIOUS
  <2>2. at[c] \in DOMAIN rows /\ rows[at[c]].oid # 0 /\ rows[at[c]].oid \in DOMAIN book
    BY <1>1, <2>1, Sizes DEF Noticed, Same, Acting, OrdersInv, IInv
  <2>3. profit[rows[at[c]].oid] < faults
    BY <2>1, <2>2, NotReopened DEF OrdersInv, CountedInv
  <2>4. QED
    BY <2>2, <2>3 DEF Thrifty
<1>3. QED
  BY <1>1, <1>2 DEF Same, Due, CountedInv, Acting

LEMMA CountedKept ==
    ASSUME OrdersInv, CountedInv, Steady, Thrifty, \A c \in Checkers : Due(c)
    PROVE  CountedInv'
<1>1. \A i \in DOMAIN rows : rows[i].oid # 0 => /\ rows[i].oid \in DOMAIN book
                                               /\ rows'[i].oid = rows[i].oid
                                               /\ profit'[rows'[i].oid] = profit[rows[i].oid]
                                               /\ profit[rows[i].oid] \in Nat
  BY Sizes DEF OrdersInv, IInv, Steady, Thrifty
<1>2. \A p \in Procs : oid[p] # 0 => oid[p] \in DOMAIN book /\ profit'[oid[p]] <= faults'
  <2>1. SUFFICES ASSUME NEW p \in Procs, oid[p] # 0
                 PROVE  oid[p] \in DOMAIN book /\ profit'[oid[p]] <= faults'
    OBVIOUS
  <2>2. oid[p] \in DOMAIN book
    BY <2>1, Sizes DEF OrdersInv, IInv, TypeOK
  <2>3. profit[oid[p]] <= faults
    BY <2>1 DEF CountedInv
  <2>4. QED
    BY <2>2, <2>3 DEF Thrifty
<1>3. \A o \in DOMAIN book' : profit'[o] <= faults' + 1 /\ (profit'[o] > 0 => book'[o].state = "filled")
  <2>1. SUFFICES ASSUME NEW o \in DOMAIN book'
                 PROVE  profit'[o] <= faults' + 1 /\ (profit'[o] > 0 => book'[o].state = "filled")
    OBVIOUS
  <2>2. CASE o \in DOMAIN book
    BY <2>2 DEF CountedInv, Steady, Thrifty
  <2>3. CASE o \notin DOMAIN book
    BY <2>1, <2>3 DEF Thrifty
  <2>4. QED
    BY <2>2, <2>3
<1>4. \A i \in DOMAIN rows' : rows'[i].status = "open" => profit'[rows'[i].oid] <= faults'
  <2>1. SUFFICES ASSUME NEW i \in DOMAIN rows', rows'[i].status = "open"
                 PROVE  profit'[rows'[i].oid] <= faults'
    OBVIOUS
  <2>2. CASE i \in DOMAIN rows /\ rows[i].status = "open" /\ rows'[i].oid = rows[i].oid
    <3>1. profit[rows[i].oid] <= faults /\ rows[i].oid # 0
      BY <2>2 DEF CountedInv, OrdersInv, FilledInv
    <3>2. QED
      BY <1>1, <2>2, <3>1 DEF Thrifty
  <2>3. CASE \E p \in Procs : oid[p] # 0 /\ rows'[i].oid = oid[p]
    BY <1>2, <2>3
  <2>4. QED
    BY <2>1, <2>2, <2>3 DEF Steady
<1>5. \A p \in Procs : oid'[p] # 0 => profit'[oid'[p]] <= faults'
  <2>1. SUFFICES ASSUME NEW p \in Procs, oid'[p] # 0 PROVE profit'[oid'[p]] <= faults'
    OBVIOUS
  <2>2. CASE oid'[p] = oid[p]
    BY <1>2, <2>1, <2>2
  <2>3. CASE oid'[p] \in DOMAIN book' \ DOMAIN book
    BY <2>3 DEF Thrifty
  <2>4. QED
    BY <2>1, <2>2, <2>3 DEF Thrifty
<1>6. ASSUME NEW c \in Checkers
      PROVE  /\ pc'[c] # "idle" => \A i \in work'[c] : profit'[rows'[i].oid] <= faults'
             /\ pc'[c] \in Acting => at'[c] \notin work'[c]
             /\ pc'[c] \in {"fill", "profit"} => profit'[rows'[at'[c]].oid] <= faults'
             /\ pc'[c] = "profit" /\ rows'[at'[c]].status = "open" =>
                    profit'[rows'[at'[c]].oid] < faults'
  <2>1. Due(c) /\ Noticed(c)
    BY DEF Due
  <2>2. pc'[c] # "idle" => \A i \in work'[c] : profit'[rows'[i].oid] <= faults'
    BY <1>1, <2>1 DEF Due, Noticed, Thrifty
  <2>3. pc'[c] \in {"fill", "profit"} =>
          at'[c] \in DOMAIN rows /\ rows[at'[c]].oid # 0
    BY <2>1 DEF Noticed, Acting
  <2>4. pc'[c] \in {"fill", "profit"} => profit'[rows'[at'[c]].oid] <= faults'
    BY <1>1, <2>1, <2>3 DEF Due, Thrifty
  <2>5. pc'[c] = "profit" /\ rows'[at'[c]].status = "open" => profit'[rows'[at'[c]].oid] < faults'
    BY <1>1, <2>1, <2>3 DEF Due
  <2>6. QED
    BY <2>1, <2>2, <2>4, <2>5 DEF Due
<1>7. QED
  BY <1>3, <1>4, <1>5, <1>6 DEF CountedInv, Acting

LEMMA DueCheck ==
    ASSUME OrdersInv, CountedInv, Steady, Thrifty, NEW c \in Checkers, CheckBot(c),
           ~\E ok \in BOOLEAN : AddProfit(c, ok)
    PROVE  Due(c)
<1>1. /\ c \in Procs /\ Holds(c) /\ work[c] \subseteq DOMAIN rows
      /\ pc \in [Procs -> Steps] /\ work \in [Procs -> SUBSET DOMAIN rows]
      /\ at \in [Procs -> 0..Len(rows)]
  BY CheckerHolds DEF OrdersInv, IInv, TypeOK
<1>2. Noticed(c)
  BY NoticedCheck DEF OrdersInv
<1>3. /\ pc[c] = "idle" => work[c] = {}
      /\ pc[c] # "idle" => \A i \in work[c] : profit[rows[i].oid] <= faults
      /\ pc[c] \in Acting => at[c] \notin work[c]
      /\ pc[c] = "fill" => profit[rows[at[c]].oid] <= faults
  BY <1>1 DEF Holds, CountedInv, Acting
<1>4. CASE ListRunning(c) \/ LeaveBot(c)
  BY <1>1, <1>2, <1>3, <1>4 DEF ListRunning, LeaveBot, Finish, Goto, Due, Acting
<1>5. ASSUME NEW ok \in BOOLEAN, ListOpenGrids(c, ok) PROVE Due(c)
  <2>1. pc'[c] = "ask" /\ work'[c] \in {Open, {}}
    BY <1>1, <1>5, Nothing DEF OrdersInv, ListOpenGrids, Goto
  <2>2. \A i \in Open : profit[rows[i].oid] <= faults
    BY DEF Open, CountedInv
  <2>3. QED
    BY <1>2, <2>1, <2>2 DEF Due, Acting
<1>6. ASSUME NEW ok \in BOOLEAN, Ask(c, ok) PROVE Due(c)
  <2>1. pc[c] = "ask"
    BY <1>6 DEF Ask
  <2>2. PICK i \in Heads(c) :
          LET filled == ok /\ book[rows[i].oid].state = "filled" IN
          /\ work' = [work EXCEPT ![c] = @ \ {i}]
          /\ at' = [at EXCEPT ![c] = IF filled THEN i ELSE 0]
          /\ Goto(c, IF filled THEN "fill" ELSE "ask")
    BY <1>6 DEF Ask
  <2>3. profit[rows[i].oid] <= faults
    BY <1>3, <2>1 DEF Heads
  <2>4. /\ work'[c] = work[c] \ {i} /\ pc'[c] \in {"fill", "ask"}
        /\ pc'[c] = "fill" => at'[c] = i
    BY <1>1, <2>2 DEF Goto
  <2>5. QED
    BY <1>2, <1>3, <2>1, <2>3, <2>4 DEF Due, Acting
<1>7. ASSUME NEW ok \in BOOLEAN, RecordFill(c, ok) PROVE Due(c)
  <2>1. pc[c] = "fill" /\ UNCHANGED <<work, at>> /\ pc'[c] = "profit"
    BY <1>1, <1>7 DEF RecordFill, Goto
  <2>2. ok => rows'[at[c]].status = "filled"
    BY <1>7, SteadyRecordFill DEF OrdersInv
  <2>3. ~ok => faults' = faults + 1
    BY <1>7, Calls DEF RecordFill, OrdersInv, IInv
  <2>4. /\ rows[at[c]].oid \in DOMAIN book
    BY <1>2, <2>1, Sizes DEF Noticed, Acting, OrdersInv, IInv
  <2>5. profit[rows[at[c]].oid] \in Nat /\ profit[rows[at[c]].oid] <= faults
    BY <1>3, <2>1, <2>4 DEF Thrifty
  <2>6. rows'[at[c]].status = "open" => profit[rows[at[c]].oid] < faults'
    BY <2>2, <2>3, <2>5 DEF Thrifty
  <2>7. QED
    BY <1>2, <1>3, <2>1, <2>5, <2>6 DEF Due, Acting
<1>8. ASSUME NEW reply \in Replies, PlaceCounter(c, reply) PROVE Due(c)
  <2>1. /\ pc[c] = "counter" /\ UNCHANGED work /\ pc'[c] \in {"insert", "ask"}
        /\ pc'[c] = "insert" => reply = "ok" /\ at'[c] = at[c]
    BY <1>1, <1>8 DEF PlaceCounter, Goto
  <2>2. QED
    BY <1>2, <1>3, <2>1 DEF Due, Acting
<1>9. ASSUME NEW ok \in BOOLEAN, InsertCounter(c, ok) PROVE Due(c)
  <2>1. pc[c] = "insert" /\ UNCHANGED work /\ pc'[c] = "ask"
    BY <1>1, <1>9 DEF InsertCounter, Goto
  <2>2. QED
    BY <1>2, <1>3, <2>1 DEF Due, Acting
<1>10. QED
  BY <1>4, <1>5, <1>6, <1>7, <1>8, <1>9 DEF CheckBot

\* The order that is paid is the one of the row the checker works on: not one
\* that another row holds, that waits in the list, or that is in a hand.
LEMMA CountedAddProfit ==
    ASSUME OneChecker, OrdersInv, CountedInv, NEW c \in Checkers, NEW ok \in BOOLEAN, AddProfit(c, ok)
    PROVE  CountedInv'
<1> DEFINE x == rows[at[c]].oid
<1>1. /\ c \in Procs /\ Holds(c) /\ work[c] \subseteq DOMAIN rows /\ pc \in [Procs -> Steps]
      /\ faults \in Nat /\ profit \in [DOMAIN book -> Nat]
  BY CheckerHolds DEF OrdersInv, IInv, TypeOK
<1>2. /\ pc[c] = "profit" /\ pc' = [pc EXCEPT ![c] = "counter"] /\ Call(ok)
      /\ profit' = IF ok THEN [profit EXCEPT ![x] = @ + 1] ELSE profit
      /\ UNCHANGED <<rows, book, work, at, oid>>
  BY DEF AddProfit, Goto
<1>3. at[c] \in DOMAIN rows /\ x # 0 /\ x \in DOMAIN book /\ book[x].state = "filled"
  BY <1>1, <1>2, Sizes DEF OrdersInv, IInv, TypeOK, Holds, FilledInv
<1>4. /\ profit[x] <= faults /\ at[c] \notin work[c]
      /\ rows[at[c]].status = "open" => profit[x] < faults
  BY <1>2 DEF CountedInv
<1>5. faults' \in Nat /\ faults <= faults' /\ profit[x] \in Nat
  BY <1>1, <1>2, <1>3 DEF Call
<1>6. /\ \A o \in DOMAIN book \ {x} : profit'[o] = profit[o]
      /\ profit'[x] \in {profit[x], profit[x] + 1}
  BY <1>1, <1>2, <1>3
<1>7. \A i \in DOMAIN rows \ {at[c]} : rows[i].oid # x
  BY <1>3 DEF OrdersInv, IInv, RowsTellOrders
<1> HIDE DEF x
<1>8. \A o \in DOMAIN book' : profit'[o] <= faults' + 1 /\ (profit'[o] > 0 => book'[o].state = "filled")
  <2>1. SUFFICES ASSUME NEW o \in DOMAIN book
                 PROVE  profit'[o] <= faults' + 1 /\ (profit'[o] > 0 => book[o].state = "filled")
    BY <1>2
  <2>2. CASE o = x
    BY <1>1, <1>3, <1>4, <1>5, <1>6, <2>2
  <2>3. CASE o # x
    <3>1. profit'[o] = profit[o] /\ profit[o] \in Nat /\ profit[o] <= faults + 1
          /\ (profit[o] > 0 => book[o].state = "filled")
      BY <1>1, <1>6, <2>1, <2>3 DEF CountedInv
    <3>2. QED
      BY <1>1, <1>5, <3>1
  <2>4. QED
    BY <2>2, <2>3
<1>9. \A i \in DOMAIN rows' : rows'[i].status = "open" => profit'[rows'[i].oid] <= faults'
  <2>1. SUFFICES ASSUME NEW i \in DOMAIN rows, rows[i].status = "open"
                 PROVE  profit'[rows[i].oid] <= faults'
    BY <1>2
  <2>2. CASE i = at[c]
    BY <1>1, <1>4, <1>5, <1>6, <2>1, <2>2 DEF x
  <2>3. CASE i # at[c]
    <3>1. rows[i].oid # x /\ rows[i].oid \in DOMAIN book
      BY <1>7, <2>1, <2>3, Sizes DEF OrdersInv, IInv, FilledInv
    <3>2. profit'[rows[i].oid] = profit[rows[i].oid] /\ profit[rows[i].oid] <= faults
          /\ profit[rows[i].oid] \in Nat
      BY <1>1, <1>6, <2>1, <3>1 DEF CountedInv
    <3>3. QED
      BY <1>1, <1>5, <3>2
  <2>4. QED
    BY <2>2, <2>3
<1>10. \A p \in Procs : oid'[p] # 0 => profit'[oid'[p]] <= faults'
  <2>1. SUFFICES ASSUME NEW p \in Procs, oid[p] # 0 PROVE profit'[oid[p]] <= faults'
    BY <1>2
  <2>2. oid[p] \in DOMAIN book
    BY <2>1, Sizes DEF OrdersInv, IInv, TypeOK
  <2>3. oid[p] # x
    BY <1>3, <2>1 DEF OrdersInv, IInv, FreshInv, x
  <2>4. profit'[oid[p]] = profit[oid[p]] /\ profit[oid[p]] <= faults /\ profit[oid[p]] \in Nat
    BY <1>1, <1>6, <2>1, <2>2, <2>3 DEF CountedInv
  <2>5. QED
    BY <1>1, <1>5, <2>4
<1>11. ASSUME NEW i \in work[c] PROVE profit'[rows[i].oid] <= faults'
  <2>1. /\ i \in DOMAIN rows /\ i # at[c] /\ rows[i].oid # 0
        /\ profit[rows[i].oid] <= faults
    BY <1>1, <1>2, <1>4, <1>11 DEF OrdersInv, FilledInv, CountedInv
  <2>2. rows[i].oid # x /\ rows[i].oid \in DOMAIN book
    BY <1>7, <2>1, Sizes DEF OrdersInv, IInv
  <2>3. profit'[rows[i].oid] = profit[rows[i].oid] /\ profit[rows[i].oid] \in Nat
    BY <1>1, <1>6, <2>2
  <2>4. QED
    BY <1>1, <1>5, <2>1, <2>3
<1>12. \A d \in Checkers : d = c
  BY DEF OneChecker
<1>13. pc'[c] = "counter" /\ at'[c] \notin work'[c]
  BY <1>1, <1>2, <1>4
<1>14. \A d \in Checkers :
        /\ pc'[d] # "idle" => \A i \in work'[d] : profit'[rows'[i].oid] <= faults'
        /\ pc'[d] \in {"fill", "profit", "counter", "insert"} => at'[d] \notin work'[d]
        /\ pc'[d] \notin {"fill", "profit"}
  BY <1>2, <1>11, <1>12, <1>13
<1>15. QED
  BY <1>8, <1>9, <1>10, <1>14 DEF CountedInv

LEMMA CountedNext ==
    ASSUME OneChecker, OrdersInv, CountedInv, [Next]_vars
    PROVE  CountedInv'
<1>1. Steady
  BY SteadyNext DEF OrdersInv
<1>2. ASSUME Thrifty, \A c \in Checkers : Same(c) PROVE CountedInv'
  BY <1>1, <1>2, DueSame, CountedKept
<1>3. ASSUME NEW h \in Handlers, Serve(h) PROVE CountedInv'
  BY <1>2, <1>3, ThriftyServe, HandlerHolds, CheckerHolds, OthersWait DEF OrdersInv
<1>4. ASSUME NEW c \in Checkers, CheckBot(c) PROVE CountedInv'
  <2>1. CASE \E ok \in BOOLEAN : AddProfit(c, ok)
    BY <2>1, CountedAddProfit
  <2>2. CASE ~\E ok \in BOOLEAN : AddProfit(c, ok)
    <3>1. Thrifty
      BY <1>4, <2>2, ThriftyCheck DEF OrdersInv
    <3>2. \A d \in Checkers : d = c
      BY DEF OneChecker
    <3>3. Due(c)
      BY <1>1, <1>4, <2>2, <3>1, DueCheck
    <3>4. QED
      BY <1>1, <3>1, <3>2, <3>3, CountedKept
  <2>3. QED
    BY <2>1, <2>2
<1>5. ASSUME NEW o \in DOMAIN book, NEW s \in {"filled", "cancelled"}, Settle(o, s) PROVE CountedInv'
  <2>1. BookQuiet
    BY <1>5, Struck DEF Settle, OrdersInv, IInv
  <2>2. UNCHANGED <<profit, faults>> /\ UNCHANGED <<pc, work, at, oid>> /\ faults \in Nat
    BY <1>5 DEF Settle, local, OrdersInv, IInv, TypeOK
  <2>3. Thrifty
    BY <2>1, <2>2, ThriftyStill DEF OrdersInv
  <2>4. QED
    BY <1>2, <2>2, <2>3 DEF Same
<1>6. CASE Restart
  <2>1. Thrifty
    BY <1>6, Nothing, ThriftyStill DEF Restart, OrdersInv, IInv, TypeOK
  <2>2. \A c \in Checkers : Due(c)
    BY <1>6 DEF Restart, Due, Noticed, Acting, Procs
  <2>3. QED
    BY <1>1, <2>1, <2>2, CountedKept
<1>7. CASE UNCHANGED vars
  <2>1. Thrifty
    BY <1>7, Nothing, ThriftyStill DEF vars, local, OrdersInv, IInv, TypeOK
  <2>2. QED
    BY <1>2, <1>7, <2>1 DEF vars, local, Same
<1>8. QED
  BY <1>3, <1>4, <1>5, <1>6, <1>7 DEF Next

(***************************************************************************)
(* total_profit counts each filled order once, and no other order, save    *)
(* that each failed write or restart may repeat one: the fill is noticed   *)
(* in its row before it is paid, and a row that was filled is not opened   *)
(* again by a start or a counter order that overlaps the pass.             *)
(***************************************************************************)
THEOREM FillsAreCountedOnce ==
    ASSUME OneChecker
    PROVE  Spec => []FillsCountedOnce
<1>1. Init => CountedInv
  <2> SUFFICES ASSUME Init PROVE CountedInv
    OBVIOUS
  <2>1. QED
    BY DEF Init, CountedInv, Procs
<1>2. OrdersInv /\ CountedInv /\ [Next]_vars => CountedInv'
  BY CountedNext
<1>3. OrdersInv /\ CountedInv => FillsCountedOnce
  <2> SUFFICES ASSUME OrdersInv, CountedInv PROVE FillsCountedOnce
    OBVIOUS
  <2>1. \A o \in DOMAIN book : profit[o] \in Nat /\ faults \in Nat
    BY Sizes DEF OrdersInv, IInv, TypeOK
  <2>2. QED
    BY <2>1 DEF CountedInv, FillsCountedOnce
<1>4. QED
  BY OrdersAlways, <1>1, <1>2, <1>3, PTL DEF Spec

-----------------------------------------------------------------------------
(***************************************************************************)
(* What a stop cancels, when requests do not overlap and nothing fails.    *)
(***************************************************************************)
OneHandler == \E h \in Handlers : \A g \in Handlers : g = h

LEMMA StartedTyped ==
    ASSUME IInv, NEW o \in Started
    PROVE  o \in DOMAIN book /\ o # 0 /\ book[o].state = "live" /\ book[o].by = "start"
BY Sizes DEF Started, Live, IInv

LEMMA FaultsGrow ==
    ASSUME IInv, [Next]_vars, faults' = 0
    PROVE  faults = 0
<1>1. faults \in Nat
  BY DEF IInv, TypeOK
<1>2. CASE Thrifty
  BY <1>1, <1>2 DEF Thrifty
<1>3. ASSUME NEW h \in Handlers, Serve(h) PROVE faults = 0
  BY <1>2, <1>3, ThriftyServe
<1>4. ASSUME NEW c \in Checkers, CheckBot(c) PROVE faults = 0
  <2>1. CASE \E ok \in BOOLEAN : AddProfit(c, ok)
    BY <1>1, <2>1 DEF AddProfit, Call
  <2>2. QED
    BY <1>2, <1>4, <2>1, ThriftyCheck
<1>5. CASE Restart \/ UNCHANGED vars \/ \E o \in DOMAIN book, s \in {"filled", "cancelled"} : Settle(o, s)
  BY <1>1, <1>5 DEF Restart, vars, Settle
<1>6. QED
  BY <1>3, <1>4, <1>5 DEF Next

\* A step of others that places nothing for a start.
LEMMA TrackedKept ==
    ASSUME OrdersInv, Steady, NEW h \in Handlers, Tracked(h), Same(h), UNCHANGED status,
           Started' \subseteq Started, \A o \in Started' : OpenFor(o) => OpenFor(o)'
    PROVE  Tracked(h)'
<1>1. ASSUME NEW o \in Started', \E i \in work[h] : rows[i].oid = o
      PROVE  \E i \in work[h] : rows'[i].oid = o
  <2>1. PICK i \in work[h] : rows[i].oid = o
    BY <1>1
  <2>2. i \in DOMAIN rows /\ o # 0
    BY <1>1, HandlerHolds, StartedTyped DEF OrdersInv, IInv, TypeOK
  <2>3. QED
    BY <2>1, <2>2 DEF Steady
<1>2. QED
  BY <1>1 DEF Tracked, Same

\* The orders of checks are not a start's, and only filled rows are closed.
LEMMA TrackedCheck ==
    ASSUME OrdersInv, Steady, NEW c \in Checkers, CheckBot(c), NEW h \in Handlers, Tracked(h)
    PROVE  Tracked(h)'
<1>1. Same(h)
  BY CheckerHolds, HandlerHolds, OthersWait DEF OrdersInv
<1>2. UNCHANGED status
  BY DEF CheckBot, ListRunning, LeaveBot, PlaceCounter, ListOpenGrids, Ask, RecordFill, AddProfit,
         InsertCounter
<1>3. Started' \subseteq Started
  <2>1. ASSUME UNCHANGED book PROVE Started' \subseteq Started
    BY <2>1 DEF Started, Live
  <2>2. ASSUME NEW reply \in Replies, PlaceCounter(c, reply) PROVE Started' \subseteq Started
    <3> DEFINE r   == rows[at[c]]
               new == [side |-> CounterSide(r), price |-> CounterPrice(r), state |-> "live", by |-> "check"]
    <3>1. r \in Row
      BY <2>2, CheckerHolds, Sizes DEF PlaceCounter, Holds, OrdersInv, IInv, TypeOK
    <3>2. UNCHANGED book \/ (InRange(r) /\ book' = Append(book, new))
      BY <2>2 DEF PlaceCounter, PlaceOrder
    <3>3. InRange(r) => new \in Order /\ new.by = "check"
      BY <3>1, Counter DEF Order
    <3> HIDE DEF r, new
    <3>4. CASE InRange(r) /\ book' = Append(book, new)
      <4>1. /\ DOMAIN book = 1..Len(book) /\ DOMAIN book' = 1..(Len(book) + 1) /\ Len(book) \in Nat
            /\ (\A o \in 1..Len(book) : book'[o] = book[o]) /\ book'[Len(book) + 1] = new
        BY <3>3, <3>4, Appending DEF OrdersInv, IInv, TypeOK
      <4>2. QED
        BY <3>3, <3>4, <4>1 DEF Started, Live
    <3>5. QED
      BY <2>1, <3>2, <3>4
  <2>3. QED
    BY <2>1, <2>2 DEF CheckBot, ListRunning, LeaveBot, ListOpenGrids, Ask, RecordFill, AddProfit,
                      InsertCounter
<1>4. ASSUME NEW o \in Started', OpenFor(o) PROVE OpenFor(o)'
  <2>1. PICK i \in DOMAIN rows : rows[i].status = "open" /\ rows[i].oid = o
    BY <1>4 DEF OpenFor, Open
  <2>2. rows'[i] = rows[i]
    <3>1. ASSUME UNCHANGED rows PROVE rows'[i] = rows[i]
      BY <3>1
    <3>2. ASSUME NEW ok \in BOOLEAN, RecordFill(c, ok) PROVE rows'[i] = rows[i]
      <4>1. book[rows[at[c]].oid].state = "filled"
        BY <3>2 DEF RecordFill, OrdersInv, FilledInv
      <4>2. book[o].state = "live"
        BY <1>3, <1>4, StartedTyped DEF OrdersInv
      <4>3. i # at[c]
        BY <2>1, <4>1, <4>2
      <4>4. QED
        BY <3>2, <4>3, SteadyRecordFill DEF OrdersInv
    <3>3. ASSUME NEW ok \in BOOLEAN, InsertCounter(c, ok) PROVE rows'[i] = rows[i]
      BY <3>3, SteadyInsertCounter DEF OrdersInv
    <3>4. QED
      BY <3>1, <3>2, <3>3 DEF CheckBot, ListRunning, LeaveBot, PlaceCounter, ListOpenGrids, Ask, AddProfit
  <2>3. i \in DOMAIN rows'
    BY <2>1 DEF Steady
  <2>4. QED
    BY <2>1, <2>2, <2>3 DEF OpenFor, Open
<1>5. QED
  BY <1>1, <1>2, <1>3, <1>4, TrackedKept

LEMMA TrackedSettle ==
    ASSUME OrdersInv, Steady, NEW o \in DOMAIN book, NEW s \in {"filled", "cancelled"}, Settle(o, s),
           NEW h \in Handlers, Tracked(h)
    PROVE  Tracked(h)'
<1>1. /\ UNCHANGED <<status, rows, pc, work, at, oid>> /\ book' = [book EXCEPT ![o].state = s]
  BY DEF Settle, local
<1>2. Started' \subseteq Started
  <2>1. book \in [DOMAIN book -> Order] /\ DOMAIN book' = DOMAIN book
    BY <1>1, Sizes, LenProperties DEF OrdersInv, IInv, TypeOK
  <2>2. \A d \in DOMAIN book \ {o} : book'[d] = book[d]
    BY <1>1
  <2>3. book'[o].state = s
    BY <1>1, <2>1 DEF Order
  <2>4. QED
    BY <2>1, <2>2, <2>3 DEF Started, Live
<1>3. QED
  BY <1>1, <1>2, TrackedKept DEF Same, OpenFor, Open

\* The steps of the goroutine that serves the requests.
LEMMA Faultless ==
    ASSUME faults = 0, faults' = 0, NEW ok \in BOOLEAN, Call(ok)
    PROVE  ok
BY DEF Call

LEMMA TrackedRequest ==
    ASSUME OrdersInv, NEW h \in Handlers, Tracked(h), RequestStart(h) \/ RequestDelete(h)
    PROVE  Tracked(h)'
<1>1. /\ pc[h] = "idle" /\ status = "stopped" /\ pc'[h] \in {"clear", "halt"}
      /\ UNCHANGED <<status, rows, book, oid, work>>
  BY HandlerHolds DEF RequestStart, RequestDelete, Request, Goto, OrdersInv, IInv, TypeOK
<1>2. Started' = Started /\ Started = {}
  BY <1>1 DEF Started, Live, Tracked
<1>3. QED
  BY <1>1, <1>2 DEF Tracked

LEMMA TrackedStart ==
    ASSUME OrdersInv, NEW h \in Handlers, Tracked(h), faults = 0, faults' = 0,
           NEW ok \in BOOLEAN, Clear(h, ok) \/ CreateGrid(h, ok)
    PROVE  Tracked(h)'
<1>1. ok
  BY Faultless DEF Clear, CancelAllGrids, CreateGrid
<1>2. /\ pc[h] \in {"clear", "create"} /\ pc'[h] \in {"create", "place"} /\ UNCHANGED <<status, book>>
  BY <1>1, HandlerHolds DEF Clear, CreateGrid, Goto, OrdersInv, IInv, TypeOK
<1>3. Started' = Started /\ Started = {}
  BY <1>2 DEF Started, Live, Tracked
<1>4. QED
  BY <1>2, <1>3 DEF Tracked

LEMMA TrackedPlaceLevel ==
    ASSUME OrdersInv, NEW h \in Handlers, Tracked(h), faults = 0, faults' = 0,
           NEW reply \in Replies, PlaceLevel(h, reply)
    PROVE  Tracked(h)'
<1>1. h \in Procs /\ pc[h] = "place" /\ UNCHANGED <<status, rows>>
  BY HandlerHolds DEF PlaceLevel, OrdersInv
<1>2. status = "stopped" /\ \A o \in Started : OpenFor(o)
  BY <1>1 DEF Tracked
<1>3. \A o : OpenFor(o) => OpenFor(o)'
  BY <1>1 DEF OpenFor, Open
<1>4. PICK i \in Heads(h) :
        \/ UNCHANGED <<book, pc>>
        \/ /\ PlaceOrder(h, reply, rows[i].side, rows[i].price, "start")
           /\ pc' = [pc EXCEPT ![h] = IF reply = "ok" THEN "open" ELSE "place"]
  BY DEF PlaceLevel, Goto
<1>5. CASE UNCHANGED <<book, pc>> \/ (UNCHANGED book /\ pc'[h] = "place")
  <2>1. pc'[h] = "place" /\ Started' = Started
    BY <1>1, <1>5 DEF Started, Live
  <2>2. QED
    BY <1>1, <1>2, <1>3, <2>1 DEF Tracked
<1>6. CASE /\ PlaceOrder(h, reply, rows[i].side, rows[i].price, "start")
           /\ pc' = [pc EXCEPT ![h] = IF reply = "ok" THEN "open" ELSE "place"]
  <2>1. reply # "lost"
    BY <1>6 DEF PlaceOrder, Call
  <2>2. CASE reply = "refused"
    <3>1. UNCHANGED book /\ pc'[h] = "place"
      BY <1>1, <1>6, <2>2 DEF PlaceOrder, OrdersInv, IInv, TypeOK
    <3>2. QED
      BY <1>5, <3>1
  <2>3. CASE reply = "ok"
    <3> DEFINE new == [side |-> rows[i].side, price |-> rows[i].price, state |-> "live", by |-> "start"]
    <3>1. /\ book' = Append(book, new) /\ oid'[h] = Len(book) + 1 /\ pc'[h] = "open"
      BY <1>1, <1>6, <2>3 DEF PlaceOrder, OrdersInv, IInv, TypeOK
    <3>2. new \in Order
      BY <1>1, Sizes DEF Heads, OrdersInv, IInv, TypeOK, Row, Order
    <3> HIDE DEF new
    <3>3. /\ DOMAIN book = 1..Len(book) /\ DOMAIN book' = 1..(Len(book) + 1) /\ Len(book) \in Nat
          /\ \A o \in 1..Len(book) : book'[o] = book[o]
      BY <3>1, <3>2, Appending DEF OrdersInv, IInv, TypeOK
    <3>4. \A o \in Started' : o \in Started \/ o = Len(book) + 1
      BY <3>3 DEF Started, Live
    <3>5. QED
      BY <1>1, <1>2, <1>3, <3>1, <3>4 DEF Tracked
  <2>4. QED
    BY <2>1, <2>2, <2>3 DEF Replies
<1>7. QED
  BY <1>4, <1>5, <1>6

LEMMA TrackedRecordOpen ==
    ASSUME OrdersInv, Steady, NEW h \in Handlers, Tracked(h), faults = 0, faults' = 0,
           NEW ok \in BOOLEAN, RecordOpen(h, ok)
    PROVE  Tracked(h)'
<1>1. ok
  BY Faultless DEF RecordOpen
<1>2. /\ h \in Procs /\ pc[h] = "open" /\ pc'[h] = "place" /\ UNCHANGED <<status, book>>
      /\ at[h] \in DOMAIN rows
  BY HandlerHolds, Sizes DEF RecordOpen, Goto, OrdersInv, IInv, TypeOK, Holds
<1>3. Started' = Started
  BY <1>2 DEF Started, Live
<1>4. /\ rows'[at[h]].oid = oid[h] /\ rows'[at[h]].status = "open"
      /\ \A i \in DOMAIN rows \ {at[h]} : rows'[i] = rows[i]
      /\ DOMAIN rows \subseteq DOMAIN rows' /\ rows[at[h]].oid = 0
  BY <1>1, <1>2, SteadyRecordOpen DEF Steady, OrdersInv, MineInv, Mine
<1>5. ASSUME NEW o \in Started PROVE OpenFor(o)'
  <2>1. CASE o = oid[h]
    BY <1>2, <1>4, <2>1 DEF OpenFor, Open
  <2>2. CASE OpenFor(o)
    <3>1. PICK i \in DOMAIN rows : rows[i].status = "open" /\ rows[i].oid = o
      BY <2>2 DEF OpenFor, Open
    <3>2. o # 0
      BY StartedTyped DEF OrdersInv
    <3>3. QED
      BY <1>4, <3>1, <3>2 DEF OpenFor, Open
  <2>3. QED
    BY <1>2, <1>5, <2>1, <2>2 DEF Tracked
<1>6. QED
  BY <1>2, <1>3, <1>5 DEF Tracked

LEMMA TrackedSetStatus ==
    ASSUME OrdersInv, NEW h \in Handlers, Tracked(h), faults = 0, faults' = 0,
           NEW ok \in BOOLEAN, SetRunning(h, ok) \/ SetStopped(h, ok)
    PROVE  Tracked(h)'
<1>1. ok
  BY Faultless DEF SetRunning, SetStopped
<1>2. h \in Procs /\ pc'[h] = "idle" /\ UNCHANGED <<rows, book>>
  BY HandlerHolds DEF SetRunning, SetStopped, Finish, Goto, OrdersInv, IInv, TypeOK
<1>3. Started' = Started /\ \A o : OpenFor(o) => OpenFor(o)'
  BY <1>2 DEF Started, Live, OpenFor, Open
<1>4. CASE SetRunning(h, ok)
  BY <1>1, <1>2, <1>3, <1>4 DEF SetRunning, Tracked
<1>5. CASE SetStopped(h, ok)
  BY <1>2, <1>3, <1>5 DEF SetStopped, Tracked
<1>6. QED
  BY <1>4, <1>5

LEMMA TrackedStop ==
    ASSUME OrdersInv, NEW h \in Handlers, Tracked(h), faults = 0, faults' = 0,
           NEW ok \in BOOLEAN, RequestStop(h, ok) \/ ListToCancel(h, ok)
    PROVE  Tracked(h)'
<1>1. ok
  BY Faultless DEF RequestStop, ListToCancel
<1>2. h \in Procs /\ UNCHANGED <<status, rows, book>>
  BY HandlerHolds DEF RequestStop, ListToCancel, OrdersInv
<1>3. Started' = Started /\ \A o : OpenFor(o) => OpenFor(o)'
  BY <1>2 DEF Started, Live, OpenFor, Open
<1>4. CASE RequestStop(h, ok)
  <2>1. pc[h] = "idle" /\ pc'[h] = "list"
    BY <1>1, <1>2, <1>4 DEF RequestStop, Goto, OrdersInv, IInv, TypeOK
  <2>2. QED
    BY <1>2, <1>3, <2>1 DEF Tracked
<1>5. CASE ListToCancel(h, ok)
  <2>1. pc[h] = "list" /\ pc'[h] = "cancel" /\ work'[h] = Open
    BY <1>1, <1>2, <1>5 DEF ListToCancel, Goto, OrdersInv, IInv, TypeOK
  <2>2. \A o \in Started : \E i \in work'[h] : rows'[i].oid = o
    BY <1>2, <2>1 DEF Tracked, OpenFor
  <2>3. QED
    BY <1>2, <1>3, <2>1, <2>2 DEF Tracked
<1>6. QED
  BY <1>4, <1>5

LEMMA TrackedCancelLevel ==
    ASSUME OrdersInv, NEW h \in Handlers, Tracked(h), faults = 0, faults' = 0,
           NEW ok \in BOOLEAN, CancelLevel(h, ok)
    PROVE  Tracked(h)'
<1>1. ok
  BY Faultless DEF CancelLevel
<1>2. h \in Procs /\ pc[h] = "cancel" /\ UNCHANGED <<status, rows, pc>>
  BY HandlerHolds DEF CancelLevel, OrdersInv
<1>3. PICK i \in Heads(h) :
        /\ work' = [work EXCEPT ![h] = @ \ {i}]
        /\ book' = IF ok /\ book[rows[i].oid].state = "live"
                   THEN [book EXCEPT ![rows[i].oid].state = "cancelled"] ELSE book
  BY DEF CancelLevel
<1> DEFINE x == rows[i].oid
<1>4. book \in [DOMAIN book -> Order] /\ DOMAIN book' = DOMAIN book
  BY <1>3, Sizes, LenProperties DEF OrdersInv, IInv, TypeOK
<1>5. /\ \A d \in DOMAIN book \ {x} : book'[d] = book[d]
      /\ x \in DOMAIN book => book'[x].state # "live"
  BY <1>1, <1>3, <1>4 DEF Order
<1>6. \A o \in Started' : o \in Started /\ o # x
  BY <1>4, <1>5 DEF Started, Live
<1>7. work'[h] = work[h] \ {i}
  BY <1>2, <1>3 DEF OrdersInv, IInv, TypeOK
<1>8. ASSUME NEW o \in Started' PROVE \E j \in work'[h] : rows'[j].oid = o
  <2>1. PICK j \in work[h] : rows[j].oid = o
    BY <1>2, <1>6, <1>8 DEF Tracked
  <2>2. j # i
    BY <1>6, <1>8, <2>1
  <2>3. QED
    BY <1>2, <1>7, <2>1, <2>2
<1>9. QED
  BY <1>2, <1>8 DEF Tracked

LEMMA TrackedDrop ==
    ASSUME OrdersInv, NEW h \in Handlers, Tracked(h), NEW ok \in BOOLEAN, Drop(h, ok)
    PROVE  Tracked(h)'
<1>1. h \in Procs /\ pc[h] = "cancel" /\ work[h] = {} /\ pc'[h] = "halt" /\ UNCHANGED <<status, book>>
  BY HandlerHolds DEF Drop, Goto, Tracked, OrdersInv, IInv, TypeOK
<1>2. Started' = Started /\ Started = {}
  BY <1>1 DEF Started, Live, Tracked
<1>3. QED
  BY <1>1, <1>2 DEF Tracked

LEMMA StartedNext ==
    ASSUME OneHandler, OrdersInv, StartedInv, [Next]_vars
    PROVE  StartedInv'
<1> SUFFICES ASSUME faults' = 0, NEW h \in Handlers PROVE Tracked(h)'
  BY DEF StartedInv
<1>1. faults = 0 /\ Tracked(h)
  BY FaultsGrow DEF OrdersInv, StartedInv
<1>2. Steady
  BY SteadyNext DEF OrdersInv
<1>3. ASSUME NEW g \in Handlers, Serve(g) PROVE Tracked(h)'
  <2>1. g = h
    BY DEF OneHandler
  <2>2. QED
    BY <1>1, <1>2, <1>3, <2>1, TrackedRequest, TrackedStart, TrackedPlaceLevel, TrackedRecordOpen,
       TrackedSetStatus, TrackedStop, TrackedCancelLevel, TrackedDrop DEF Serve
<1>4. ASSUME NEW c \in Checkers, CheckBot(c) PROVE Tracked(h)'
  BY <1>1, <1>2, <1>4, TrackedCheck
<1>5. ASSUME NEW o \in DOMAIN book, NEW s \in {"filled", "cancelled"}, Settle(o, s) PROVE Tracked(h)'
  BY <1>1, <1>2, <1>5, TrackedSettle
<1>6. CASE Restart
  BY <1>1, <1>6 DEF Restart
<1>7. CASE UNCHANGED vars
  BY <1>1, <1>2, <1>7, TrackedKept DEF vars, local, Same, Started, Live, OpenFor, Open
<1>8. QED
  BY <1>3, <1>4, <1>5, <1>6, <1>7 DEF Next

(***************************************************************************)
(* Stop finds every order that Start placed: while nothing has failed, a   *)
(* start's live order is in a goroutine's hand, in an open row or in the   *)
(* list of what to cancel, and no request overlaps another, so that what   *)
(* is left of a stopped bot on the exchange was placed by a check.         *)
(***************************************************************************)
THEOREM StopCancelsWhatStartsPlaced ==
    ASSUME OneHandler
    PROVE  Spec => []StopCancelsGrid
<1>1. Init => StartedInv
  <2> SUFFICES ASSUME Init PROVE StartedInv
    OBVIOUS
  <2>1. QED
    BY DEF Init, StartedInv, Tracked, Started, Live, Procs
<1>2. OrdersInv /\ StartedInv /\ [Next]_vars => StartedInv'
  BY StartedNext
<1>3. OrdersInv /\ StartedInv => StopCancelsGrid
  <2> SUFFICES ASSUME OrdersInv, StartedInv, faults = 0, Rests, NEW o \in Live, book[o].by # "check"
               PROVE  FALSE
    BY DEF StopCancelsGrid
  <2>1. o \in Started
    BY Sizes DEF Started, Live, OrdersInv, IInv, Order
  <2>2. PICK h \in Handlers : pc[h] = "idle" /\ status = "stopped" /\ Tracked(h)
    BY DEF Rests, Procs, StartedInv, OneHandler
  <2>3. QED
    BY <2>1, <2>2 DEF Tracked
<1>4. QED
  BY OrdersAlways, <1>1, <1>2, <1>3, PTL DEF Spec
=============================================================================
